------------------------- MODULE CallSessionProofs --------------------------
(***************************************************************************)
(* Proofs about CallSession, for any number of turns and sentences and any *)
(* limits.  The argument is one of control: where the loop can be while a  *)
(* turn is in flight, what line each of them is about, and in which turns  *)
(* the conversation may leave a state the session has decided upon.        *)
(***************************************************************************)
EXTENDS CallSession, TLAPS

\* A turn is in flight only while the loop reads frames or is ending the call.
LoopAlone == loop \notin {"read", "ending", "drain"} => turn = "idle"

\* What a line is, wherever it is between recording and its last sentence.
LineOfTurn ==
  /\ (line.at # "none" => line.left \in 1 .. MaxChunks)
  /\ (turn \in {"record", "speak"} => line.kind # "none")
  /\ (turn = "record" => line.kind \notin {"greeting", "filler"})
  /\ (line.at # "none" /\ Greeting => line.kind = "greeting")

\* Each turn misunderstands its caller, or fails, once at the most.
Unanswered == {"stt", "record_caller", "engine", "engine_db"}

Strikes ==
  /\ session.unheard <= turns /\ session.failures <= turns
  /\ (turn = "stt" => session.unheard < turns)
  /\ (turn \in Unanswered \/ (turn = "speak" /\ line.kind = "filler") =>
        session.failures < turns)

\* The engine is not asked once it has handed the call over, and what it says then is
\* that it does.
HandsOver ==
  /\ (turn = "engine_db" => session.state # "transfer")
  /\ (turn \in {"record", "speak"} /\ line.kind = "transfer" => session.state = "transfer")

\* The inductive invariant.
IInv ==
  /\ TypeOK
  /\ LoopAlone
  /\ LineOfTurn
  /\ Strikes
  /\ HandsOver
  /\ OneSpeaker
  /\ ClosesOnlyToHandOver

\* What becomes of the database session, and what the turn and the loop may count on.
Working == {"stt", "record_caller", "engine", "engine_db", "speak", "commit", "hangup_commit"}
Filed == {"final_commit", "closed"}

StoreInv ==
  /\ (loop \in {"greet_speak", "greet_commit"} => store.tx \notin Unusable)
  /\ (loop \in Filed => store.loaded /\ store.tx \notin Unusable)
  /\ (loop = "read" /\ turn = "idle" /\ online => store.tx \notin Unusable)
  /\ (turn = "hangup_commit" => ~online)
  /\ (turn \in Working => store.tx \notin Unusable)
  /\ (turn = "speak" => store.tx # "idle")
  /\ (store.orphan => loop \in {"finalize", "failed"} /\ store.tx \notin Unusable)
  /\ (store.reservation = "pending" => store.tx # "idle")

\* Nothing more can be recorded of this call, so it will not be filed either.
Spoiled ==
  \/ ~store.loaded
  \/ store.tx \in Unusable
  \/ turn = "rollback" /\ store.tx # "idle"

\* A caller out of strikes is being told so, has been handed over, or cannot be.
StrikesInv ==
  session.unheard >= MaxUnheard \/ session.failures >= MaxFailures =>
    \/ session.state = "transfer"
    \/ Spoiled
    \/ turn \in {"record", "speak"} /\ line.kind \in {"give_up", "hand_over"}
    \/ ~online
    \/ loop \in {"ending", "drain", "finalize", "failed", "refused"} \cup Filed

\* The outcome and the state part only while the line that tells of the change is being
\* recorded, and for good only if that failed.
OutcomeInv ==
  /\ (session.outcome \in Transfers => session.state = "transfer")
  /\ (session.state = "transfer" =>
         session.outcome \in Transfers \/ Spoiled \/ (turn = "record" /\ line.kind = "transfer"))
  /\ (turn = "record" /\ line.kind = "booked" => session.state # "transfer")

BookingInv ==
  /\ (turn = "record" /\ line.kind = "booked" => store.reservation \in {"pending", "saved"})
  /\ (session.outcome = "RESERVATION_CREATED" =>
         store.reservation \in {"pending", "saved"} \/ Spoiled)
  /\ (store.reservation \in {"pending", "saved"} =>
         \/ session.outcome \in Transfers \cup {"RESERVATION_CREATED"}
         \/ Spoiled
         \/ turn = "record" /\ line.kind = "booked")

\* What was filed was decided from a session in which all of this agreed, and nothing
\* happens to the call afterwards.
FilingInv ==
  /\ (loop = "closed" => store.filed = Filing(session))
  /\ (store.filed # NotFiled =>
         /\ loop \in {"closed", "refused"}
         /\ store.filed = Filing(session)
         /\ (session.state = "transfer" <=> session.outcome \in Transfers)
         /\ (session.outcome = "RESERVATION_CREATED" => store.reservation = "saved")
         /\ (store.reservation = "saved" =>
               session.outcome \in Transfers \cup {"RESERVATION_CREATED"}))

\* What else holds between the session and the database session.
JInv == StoreInv /\ StrikesInv /\ OutcomeInv /\ BookingInv /\ FilingInv

USE SessionAssumption

-----------------------------------------------------------------------------
\* What the database session's operations leave is a state of it.
LEMMA StoreOps ==
  ASSUME NEW s \in StoreType
  PROVE  /\ Write(s) \in StoreType /\ Refused(s) \in StoreType
         /\ Commit(s) \in StoreType /\ Rollback(s) \in StoreType
         /\ CommitFails(s) \subseteq StoreType
<1>1. Write(s) \in StoreType /\ Refused(s) \in StoreType
  BY DEF StoreType, Write, Refused, Unusable
<1>2. Commit(s) \in StoreType
  BY DEF StoreType, Commit, Unusable
<1>3. Rollback(s) \in StoreType
  BY DEF StoreType, Rollback, Unusable
<1>4. CommitFails(s) \subseteq StoreType
  <2>1. /\ [s EXCEPT !.reservation = IF s.reservation = "pending" THEN "none"
                                     ELSE s.reservation] \in StoreType
        /\ Commit(s) \in StoreType
    BY <1>2 DEF StoreType
  <2>2. ASSUME NEW c \in StoreType PROVE Refused(c) \in StoreType
    BY DEF StoreType, Refused, Unusable
  <2>3. QED
    BY <2>1, <2>2 DEF CommitFails
<1>5. QED
  BY <1>1, <1>2, <1>3, <1>4

\* What the session does to its flags.
LEMMA SessionOps ==
  ASSUME NEW s \in SessionType
  PROVE  /\ HandOver(s) \in SessionType /\ HandOver(s).state = "transfer"
         /\ HandOver(s).unheard = s.unheard /\ HandOver(s).failures = s.failures
         /\ \A kind \in LineKinds :
              /\ UpdateOutcome(kind, s) \in SessionType
              /\ UpdateOutcome(kind, s).state = s.state
              /\ UpdateOutcome(kind, s).unheard = s.unheard
              /\ UpdateOutcome(kind, s).failures = s.failures
              /\ UpdateOutcome(kind, s).should_close = s.should_close
<1>1. /\ HandOver(s) \in SessionType /\ HandOver(s).state = "transfer"
      /\ HandOver(s).unheard = s.unheard /\ HandOver(s).failures = s.failures
  BY DEF SessionType, HandOver, Outcomes, Transfers, Reasons
<1>2. ASSUME NEW kind \in LineKinds
      PROVE  /\ UpdateOutcome(kind, s) \in SessionType
             /\ UpdateOutcome(kind, s).state = s.state
             /\ UpdateOutcome(kind, s).unheard = s.unheard
             /\ UpdateOutcome(kind, s).failures = s.failures
             /\ UpdateOutcome(kind, s).should_close = s.should_close
  BY DEF SessionType, UpdateOutcome, Outcomes, Transfers
<1>3. QED
  BY <1>1, <1>2

LEMMA LineOps ==
  /\ NoLine \in LineType /\ NoLine.at = "none"
  /\ \A kind \in LineKinds : /\ [NoLine EXCEPT !.kind = kind] \in LineType
                             /\ [NoLine EXCEPT !.kind = kind].at = "none"
                             /\ [NoLine EXCEPT !.kind = kind].kind = kind
<1>1. NoLine \in LineType /\ NoLine.at = "none"
  <2>1. 0 \in 0 .. MaxChunks
    OBVIOUS
  <2>2. QED
    BY <2>1 DEF NoLine, LineType
<1>2. ASSUME NEW kind \in LineKinds
      PROVE  /\ [NoLine EXCEPT !.kind = kind] \in LineType
             /\ [NoLine EXCEPT !.kind = kind].at = "none"
             /\ [NoLine EXCEPT !.kind = kind].kind = kind
  BY <1>1 DEF LineType
<1>3. QED
  BY <1>1, <1>2

LEMMA InitIInv == Init => IInv
<1> SUFFICES ASSUME Init PROVE IInv
  OBVIOUS
<1>1. session \in SessionType /\ store \in StoreType /\ line \in LineType
  <2>1. NotFiled \in FilingType /\ 0 \in 0 .. MaxTurns
    BY DEF NotFiled, FilingType, Outcomes
  <2>2. session \in SessionType
    BY <2>1 DEF Init, SessionType, Outcomes
  <2>3. store \in StoreType
    BY <2>1 DEF Init, StoreType
  <2>4. QED
    BY <2>2, <2>3, LineOps DEF Init
<1>2. TypeOK
  BY <1>1, 0 \in 0 .. MaxTurns DEF Init, TypeOK, LoopAwaits, LoopDatabase, TurnAwaits
<1>3. QED
  BY <1>1, <1>2, LineOps DEF Init, IInv, LoopAlone, LineOfTurn, Strikes, Unanswered, HandsOver,
     OneSpeaker, Speaking, Greeting, ClosesOnlyToHandOver

\* The clock, the caller, and what follows a turn that was cut off.
LEMMA SurroundingsKeep ==
  ASSUME IInv, HangUp \/ PlaybackEnds \/ OrphanCommits \/ Interrupt
  PROVE  IInv'
<1>1. /\ UNCHANGED <<turn, line, session, turns>>
      /\ loop' = loop \/ (loop = "read" /\ loop' \in {"read", "ending"})
      /\ online' => online
  BY DEF HangUp, PlaybackEnds, OrphanCommits, Interrupt, EndStep, AfterFrame
<1>2. store' \in StoreType
  <2>1. CASE OrphanCommits
    <3>1. Commit(store) \in StoreType /\ CommitFails(store) \subseteq StoreType
      BY StoreOps DEF IInv, TypeOK
    <3>2. PICK s \in StoreType : store' = [s EXCEPT !.orphan = FALSE]
      BY <2>1, <3>1 DEF OrphanCommits
    <3>3. QED
      BY <3>2 DEF StoreType
  <2>2. QED
    BY <2>1 DEF HangUp, PlaybackEnds, Interrupt, IInv, TypeOK
<1>3. playing' \in BOOLEAN /\ interrupted' \in BOOLEAN /\ online' \in BOOLEAN
  BY DEF HangUp, PlaybackEnds, OrphanCommits, Interrupt, EndStep, IInv, TypeOK
<1>4. TypeOK'
  BY <1>1, <1>2, <1>3 DEF IInv, TypeOK, LoopAwaits
<1>5. QED
  BY <1>1, <1>4 DEF IInv, LoopAlone, LineOfTurn, Strikes, Unanswered, HandsOver, OneSpeaker,
     Speaking, Greeting, ClosesOnlyToHandOver

\* Steps of the loop that speak no line and change no flag.
LEMMA LoopKeeps ==
  ASSUME IInv,
         Start \/ LookUpCaller \/ CommitGreeting \/ CloseOnFrame \/ StreamEnds \/ EndCall
           \/ TurnDrained \/ CancelTurn \/ Finalize \/ FinalizeRaises \/ FinalCommit
           \/ FilingRefused
  PROVE  IInv'
<1>1. /\ UNCHANGED <<session, playing, interrupted, online, turns>>
      /\ turn' \in {turn, "idle"} /\ loop # "greet_speak" /\ loop' # "greet_speak"
      /\ loop' \in LoopAwaits
      /\ loop' \notin {"read", "ending", "drain"} => turn' = "idle"
      /\ (line' = line /\ turn' = turn) \/ (line' = NoLine /\ turn' = "idle")
  BY DEF Start, LookUpCaller, CommitGreeting, CloseOnFrame, StreamEnds, EndCall, TurnDrained,
     CancelTurn, Finalize, FinalizeRaises, FinalCommit, FilingRefused, LoopStep, EndStep,
     AfterFrame, IInv, LoopAlone, LoopAwaits, LoopDatabase
<1>2. store' \in StoreType
  <2> USE DEF IInv, TypeOK
  <2>1. CASE CancelTurn
    <3>1. /\ [store EXCEPT !.orphan = TRUE] \in StoreType
          /\ [store EXCEPT !.tx = "broken"] \in StoreType
      BY DEF StoreType, Unusable
    <3>2. QED
      BY <2>1, <3>1 DEF CancelTurn
  <2>2. CASE FinalCommit
    <3>1. Commit(store) \in StoreType
      BY StoreOps
    <3>2. Filing(session) \in FilingType
      BY DEF SessionType, Filing, FilingType
    <3>3. QED
      BY <2>2, <3>1, <3>2 DEF FinalCommit, StoreType
  <2>6. CASE FilingRefused
    <3>1. Filing(session) \in FilingType
      BY DEF SessionType, Filing, FilingType
    <3>2. [Commit(store) EXCEPT !.filed = Filing(session)] \in StoreType
      BY <3>1, StoreOps DEF StoreType
    <3>3. PICK s \in StoreType : store' = Rollback(Refused(s))
      BY <2>6, <3>2 DEF FilingRefused
    <3>4. Refused(s) \in StoreType
      BY StoreOps
    <3>5. QED
      BY <3>3, <3>4, StoreOps
  <2>3. CASE LookUpCaller \/ CommitGreeting \/ Finalize \/ FinalizeRaises
    BY <2>3, StoreOps DEF LookUpCaller, CommitGreeting, Finalize, FinalizeRaises
  <2>4. CASE Start \/ CloseOnFrame \/ StreamEnds \/ EndCall \/ TurnDrained
    BY <2>4 DEF Start, CloseOnFrame, StreamEnds, EndCall, TurnDrained
  <2>5. QED
    BY <2>1, <2>2, <2>3, <2>4, <2>6
<1>3. TypeOK'
  BY <1>1, <1>2, LineOps DEF IInv, TypeOK, TurnAwaits
<1>4. QED
  BY <1>1, <1>3, LineOps DEF IInv, LoopAlone, LineOfTurn, Strikes, Unanswered, HandsOver,
     OneSpeaker, Speaking, Greeting, ClosesOnlyToHandOver

-----------------------------------------------------------------------------
(* Speaking.                                                                *)

\* Who speaks: the greeting, while no turn is in flight, or else the one turn.
LEMMA WhoSpeaks ==
  ASSUME IInv, Speaking
  PROVE  /\ Greeting => turn = "idle" /\ line.kind = "greeting"
         /\ ~Greeting => turn = "speak" /\ loop \in {"read", "ending", "drain"}
         /\ line.at # "none" /\ line.left \in 1 .. MaxChunks
BY DEF IInv, Speaking, Greeting, LoopAlone, LineOfTurn, OneSpeaker

\* A line that is over leaves the invariant true, whatever follows it.
LEMMA LineOverKeeps ==
  ASSUME IInv, Speaking, LineOver, UNCHANGED <<interrupted, store, online, turns>>,
         playing' \in BOOLEAN
  PROVE  IInv'
<1>1. line' = NoLine /\ line' \in LineType /\ line'.at = "none" /\ line'.kind = "none"
  BY LineOps DEF LineOver, NoLine
<1>2. /\ session' \in SessionType /\ session'.unheard = session.unheard
      /\ session'.failures = session.failures
      /\ session.state = "transfer" => session'.state = "transfer"
      /\ ~session.should_close /\ session'.should_close => session'.state = "transfer"
  <2>1. session \in SessionType
    BY DEF IInv, TypeOK
  <2>2. CASE line.kind \in {"give_up", "hand_over"}
    BY <2>1, <2>2, SessionOps DEF LineOver
  <2>3. CASE line.kind = "transfer"
    <3>1. session.state = "transfer"
      BY <2>3, WhoSpeaks DEF IInv, HandsOver
    <3>2. session' = [session EXCEPT !.should_close = TRUE]
      BY <2>3 DEF LineOver
    <3>3. QED
      BY <2>1, <3>1, <3>2 DEF SessionType
  <2>4. CASE line.kind \notin {"give_up", "hand_over", "transfer"}
    BY <2>1, <2>4 DEF LineOver
  <2>5. QED
    BY <2>2, <2>3, <2>4
<1>3. /\ Greeting => loop' = "greet_commit" /\ turn' = "idle"
      /\ ~Greeting => loop' = loop /\ turn' \in {"engine", "commit"}
                      /\ (turn' = "engine" => line.kind = "filler")
  BY WhoSpeaks DEF LineOver
<1>4. TypeOK'
  BY <1>1, <1>2, <1>3 DEF IInv, TypeOK, LoopAwaits, LoopDatabase, TurnAwaits, TurnDatabase
<1>5. LoopAlone' /\ LineOfTurn' /\ HandsOver' /\ OneSpeaker'
  BY <1>1, <1>3, WhoSpeaks DEF LoopAlone, LineOfTurn, HandsOver, OneSpeaker, Speaking, Greeting
<1>6. Strikes'
  BY <1>1, <1>2, <1>3, WhoSpeaks DEF IInv, Strikes, Unanswered
<1>7. ClosesOnlyToHandOver'
  BY <1>2 DEF IInv, ClosesOnlyToHandOver
<1>8. QED
  BY <1>4, <1>5, <1>6, <1>7 DEF IInv

\* Another sentence of the same line.
LEMMA SameLineKeeps ==
  ASSUME IInv, Speaking, UNCHANGED <<loop, turn, session, interrupted, store, online, turns>>,
         playing' \in BOOLEAN,
         line' \in LineType, line'.at # "none", line'.kind = line.kind,
         line'.left \in 1 .. MaxChunks
  PROVE  IInv'
<1>1. TypeOK'
  BY DEF IInv, TypeOK
<1>2. QED
  BY <1>1 DEF IInv, LoopAlone, LineOfTurn, Strikes, Unanswered, HandsOver, OneSpeaker, Speaking,
     Greeting, ClosesOnlyToHandOver

LEMMA NextSentenceKeeps ==
  ASSUME IInv, Speaking, UNCHANGED <<playing, interrupted, store, online, turns>>,
         NEW spoken \in BOOLEAN, NextSentence(spoken)
  PROVE  IInv'
<1>1. playing' \in BOOLEAN
  BY DEF IInv, TypeOK
<1>2. CASE line.left = 1 \/ interrupted
  BY <1>1, <1>2, LineOverKeeps DEF NextSentence
<1>3. CASE ~(line.left = 1 \/ interrupted)
  <2>1. line \in LineType /\ line.left \in 1 .. MaxChunks
    BY WhoSpeaks DEF IInv, TypeOK
  <2>2. line' = [kind |-> line.kind, left |-> line.left - 1, at |-> "synthesize",
                     spoken |-> spoken]
    BY <1>3 DEF NextSentence
  <2>3. line.left - 1 \in 1 .. MaxChunks
    BY <1>3, <2>1
  <2>4. /\ line' \in LineType /\ line'.at # "none" /\ line'.kind = line.kind
        /\ line'.left \in 1 .. MaxChunks
    BY <2>1, <2>2, <2>3 DEF LineType
  <2>5. QED
    BY <1>1, <1>3, <2>4, SameLineKeeps DEF NextSentence
<1>4. QED
  BY <1>2, <1>3

\* A line that stops before anything of it was heard: the greeting hands over, a turn is
\* rolled back or, the socket closed, committed as it is.
LEMMA LineStopsKeeps ==
  ASSUME IInv, Speaking, UNCHANGED <<playing, interrupted, store, online, turns>>,
         line' = NoLine,
         \/ loop' = loop /\ ~Greeting /\ turn' \in {"rollback", "hangup_commit"}
         \/ loop' \in {"greet_commit", "ending"} /\ Greeting /\ turn' = turn,
         \/ session' = session
         \/ session' = HandOver(session)
         \/ ~online /\ session' = [session EXCEPT !.should_close = TRUE]
  PROVE  IInv'
<1>1. line' \in LineType /\ line'.at = "none" /\ line'.kind = "none"
  BY LineOps DEF NoLine
<1>2. session \in SessionType
  BY DEF IInv, TypeOK
<1>3. /\ session' \in SessionType /\ session'.unheard = session.unheard
      /\ session'.failures = session.failures
      /\ session.state = "transfer" => session'.state = "transfer"
      /\ ~session.should_close /\ session'.should_close /\ online => session'.state = "transfer"
  <2>1. CASE session' = HandOver(session)
    BY <1>2, <2>1, SessionOps
  <2>2. CASE session' # HandOver(session)
    BY <1>2, <2>2 DEF SessionType
  <2>3. QED
    BY <2>1, <2>2
<1>4. TypeOK'
  BY <1>1, <1>3 DEF IInv, TypeOK, LoopAwaits, LoopDatabase, TurnAwaits, TurnDatabase
<1>5. LoopAlone' /\ LineOfTurn' /\ HandsOver' /\ OneSpeaker'
  BY <1>1, WhoSpeaks DEF LoopAlone, LineOfTurn, HandsOver, OneSpeaker, Speaking, Greeting
<1>6. Strikes'
  BY <1>1, <1>3, WhoSpeaks DEF IInv, Strikes, Unanswered
<1>7. ClosesOnlyToHandOver'
  BY <1>3 DEF IInv, ClosesOnlyToHandOver
<1>8. QED
  BY <1>4, <1>5, <1>6, <1>7 DEF IInv

LEMMA SpeakKeeps ==
  ASSUME IInv, Speak
  PROVE  IInv'
<1>1. Speaking /\ line \in LineType /\ line.spoken \in BOOLEAN /\ playing \in BOOLEAN
  BY DEF Speak, Synthesize, SynthesizeNothing, SynthesizeFails, Send, SendFails, IInv, TypeOK,
     LineType
<1>2. CASE Synthesize
  <2>1. CASE interrupted
    BY <1>1, <1>2, <2>1, LineOverKeeps DEF Synthesize
  <2>2. CASE ~interrupted
    <3>1. line' = [line EXCEPT !.at = "send"]
      BY <1>2, <2>2 DEF Synthesize
    <3>2. line.left \in 1 .. MaxChunks
      BY <1>1, WhoSpeaks
    <3>3. /\ line' \in LineType /\ line'.at # "none" /\ line'.kind = line.kind
          /\ line'.left \in 1 .. MaxChunks
      BY <1>1, <3>1, <3>2 DEF LineType
    <3>4. QED
      BY <1>1, <1>2, <2>2, <3>3, SameLineKeeps DEF Synthesize
  <2>3. QED
    BY <2>1, <2>2
<1>3. CASE SynthesizeNothing
  BY <1>1, <1>3, NextSentenceKeeps DEF SynthesizeNothing
<1>4. CASE SynthesizeFails
  <2>1. CASE line.spoken
    BY <1>1, <1>4, <2>1, LineOverKeeps DEF SynthesizeFails
  <2>2. CASE ~line.spoken
    BY <1>1, <1>4, <2>2, LineStopsKeeps DEF SynthesizeFails
  <2>3. QED
    BY <2>1, <2>2
<1>5. CASE Send
  BY <1>1, <1>5, NextSentenceKeeps DEF Send
<1>6. CASE SendFails
  BY <1>1, <1>6, LineStopsKeeps DEF SendFails
<1>7. QED
  BY <1>2, <1>3, <1>4, <1>5, <1>6 DEF Speak

LEMMA RecordGreetingKeeps ==
  ASSUME IInv, RecordGreeting
  PROVE  IInv'
<1>1. turn = "idle" /\ turn' = "idle" /\ UNCHANGED <<playing, session, online, turns>>
  BY DEF RecordGreeting, IInv, LoopAlone
<1>2. CASE loop' = "greet_speak"
  <2>1. PICK n \in 1 .. MaxChunks :
          line' = [kind |-> "greeting", left |-> n, at |-> "synthesize", spoken |-> FALSE]
    BY <1>2 DEF RecordGreeting, BeginLine
  <2>2. line' \in LineType /\ line'.kind = "greeting" /\ line'.left = n /\ line'.at # "none"
    BY <2>1 DEF LineType, LineKinds
  <2>3. store' \in StoreType /\ interrupted' = FALSE
    BY <1>2, StoreOps DEF RecordGreeting, BeginLine, IInv, TypeOK
  <2>4. TypeOK'
    BY <1>1, <1>2, <2>2, <2>3 DEF IInv, TypeOK, LoopAwaits
  <2>5. QED
    BY <1>1, <1>2, <2>2, <2>4 DEF IInv, LoopAlone, LineOfTurn, Strikes, Unanswered, HandsOver,
       OneSpeaker, Speaking, Greeting, ClosesOnlyToHandOver
<1>3. CASE loop' = "ending"
  <2>1. UNCHANGED <<store, line, interrupted>>
    BY <1>3 DEF RecordGreeting
  <2>2. TypeOK'
    BY <1>1, <1>3, <2>1 DEF IInv, TypeOK, LoopAwaits
  <2>3. loop = "greet_record"
    BY DEF RecordGreeting
  <2>4. QED
    BY <1>1, <1>3, <2>1, <2>2, <2>3 DEF IInv, LoopAlone, LineOfTurn, Strikes, Unanswered,
       HandsOver, OneSpeaker, Speaking, Greeting, ClosesOnlyToHandOver
<1>4. QED
  BY <1>2, <1>3 DEF RecordGreeting

-----------------------------------------------------------------------------
(* A turn.                                                                  *)

LEMMA StartTurnKeeps ==
  ASSUME IInv, StartTurn
  PROVE  IInv'
<1>1. /\ turn = "idle" /\ turn' = "stt" /\ turns' = turns + 1 /\ loop = "read"
      /\ loop' \in {"read", "ending"} /\ turns < MaxTurns /\ turns \in 0 .. MaxTurns
      /\ UNCHANGED <<line, playing, interrupted, session, store, online>>
  BY DEF StartTurn, AfterFrame, IInv, TypeOK
<1>2. session.unheard \in Nat /\ session.failures \in Nat
  BY DEF IInv, TypeOK, SessionType
<1>3. turns' \in 0 .. MaxTurns
  BY <1>1
<1>4. TypeOK'
  BY <1>1, <1>3 DEF IInv, TypeOK, LoopAwaits, TurnAwaits
<1>5. Strikes'
  BY <1>1, <1>2 DEF IInv, Strikes
<1>6. QED
  BY <1>1, <1>4, <1>5 DEF IInv, LoopAlone, LineOfTurn, HandsOver, OneSpeaker, Speaking,
     Greeting, ClosesOnlyToHandOver

\* A turn runs under a loop that reads frames or ends the call, and the only line then is
\* its own.
LEMMA InTurn ==
  ASSUME IInv, turn # "idle"
  PROVE  /\ loop \in {"read", "ending", "drain"} /\ ~Greeting
         /\ turn # "speak" => line.at = "none"
         /\ session \in SessionType /\ session.unheard \in Nat /\ session.failures \in Nat
         /\ turns \in 0 .. MaxTurns
<1>1. loop \in {"read", "ending", "drain"} /\ ~Greeting
  BY DEF IInv, LoopAlone, Greeting
<1>2. turn # "speak" => line.at = "none"
  BY <1>1 DEF IInv, OneSpeaker, Speaking
<1>3. session \in SessionType /\ turns \in 0 .. MaxTurns
  BY DEF IInv, TypeOK
<1>4. QED
  BY <1>1, <1>2, <1>3 DEF SessionType

\* A turn that goes on to another await, without a line.
LEMMA TurnGoesOnKeeps ==
  ASSUME IInv, turn \notin {"idle", "speak"}, TurnStep, store' \in StoreType,
         line' = line \/ line' = NoLine, interrupted' = interrupted,
         session' \in SessionType, session'.state = "transfer" <=> session.state = "transfer",
         session'.should_close = session.should_close,
         session'.failures = session.failures, session'.unheard \in {0, session.unheard},
         turn' \in {"commit", "rollback", "idle", "record_caller", "engine", "engine_db"},
         turn' \in Unanswered => turn \in Unanswered,
         turn' = "engine_db" => session.state # "transfer"
  PROVE  IInv'
<1>1. /\ UNCHANGED <<loop, playing, online, turns, interrupted>>
      /\ line' \in LineType /\ line'.at = "none"
      /\ loop \in {"read", "ending", "drain"} /\ ~Greeting
  BY LineOps, InTurn DEF TurnStep, IInv, TypeOK
<1>2. TypeOK'
  BY <1>1 DEF IInv, TypeOK, TurnAwaits, TurnDatabase
<1>3. Strikes'
  BY <1>1, InTurn DEF IInv, Strikes, Unanswered
<1>4. QED
  BY <1>1, <1>2, <1>3 DEF IInv, LoopAlone, LineOfTurn, HandsOver, OneSpeaker, Speaking,
     Greeting, ClosesOnlyToHandOver

\* A turn that has a line to record.
LEMMA ToRecordKeeps ==
  ASSUME IInv, turn \notin {"idle", "speak"}, TurnStep, store' \in StoreType,
         interrupted' = interrupted,
         NEW kind \in LineKinds, ToRecord(kind), kind \notin {"greeting", "filler"},
         session' \in SessionType, session'.should_close = session.should_close,
         session'.unheard <= turns, session'.failures <= turns,
         session.state = "transfer" => session'.state = "transfer",
         kind = "transfer" => session'.state = "transfer"
  PROVE  IInv'
<1>1. /\ UNCHANGED <<loop, playing, online, turns, interrupted>> /\ turn' = "record"
      /\ line' \in LineType /\ line'.at = "none" /\ line'.kind = kind /\ kind # "none"
      /\ loop \in {"read", "ending", "drain"} /\ ~Greeting
  BY LineOps, InTurn DEF TurnStep, ToRecord, LineKinds
<1>2. TypeOK'
  BY <1>1 DEF IInv, TypeOK, TurnAwaits, TurnDatabase
<1>3. Strikes'
  BY <1>1 DEF Strikes, Unanswered
<1>4. QED
  BY <1>1, <1>2, <1>3 DEF IInv, LoopAlone, LineOfTurn, HandsOver, OneSpeaker, Speaking,
     Greeting, ClosesOnlyToHandOver

\* A turn that begins to speak.
LEMMA ToSpeakKeeps ==
  ASSUME IInv, turn \notin {"idle", "speak"}, TurnStep, store' \in StoreType, turn' = "speak",
         NEW kind \in LineKinds, BeginLine(kind), kind # "greeting",
         session' \in SessionType, session'.should_close = session.should_close,
         session'.state = session.state,
         session'.unheard = session.unheard, session'.failures = session.failures,
         kind = "filler" => turn \in Unanswered,
         kind = "transfer" => session.state = "transfer"
  PROVE  IInv'
<1>1. PICK n \in 1 .. MaxChunks :
        line' = [kind |-> kind, left |-> n, at |-> "synthesize", spoken |-> FALSE]
  BY DEF BeginLine
<1>2. /\ line' \in LineType /\ line'.kind = kind /\ line'.left = n /\ line'.at # "none"
      /\ kind # "none"
  BY <1>1 DEF LineType, LineKinds
<1>3. /\ UNCHANGED <<loop, playing, online, turns>> /\ interrupted' = FALSE
      /\ loop \in {"read", "ending", "drain"} /\ ~Greeting
  BY InTurn DEF TurnStep, BeginLine
<1>4. TypeOK'
  BY <1>2, <1>3 DEF IInv, TypeOK, TurnAwaits
<1>5. Strikes'
  BY <1>2, <1>3 DEF IInv, Strikes, Unanswered
<1>6. QED
  BY <1>2, <1>3, <1>4, <1>5 DEF IInv, LoopAlone, LineOfTurn, HandsOver, OneSpeaker, Speaking,
     Greeting, ClosesOnlyToHandOver

\* What the engine makes of the context.
LEMMA EngineOps ==
  ASSUME session \in SessionType, NEW s \in Replies(session) \cup Connected(session)
  PROVE  /\ s \in SessionType /\ s.unheard = session.unheard
         /\ s.should_close = session.should_close /\ s.outcome = session.outcome
         /\ session.state = "transfer" => s.state = "transfer"
         /\ s \in Connected(session) => s.state = "transfer"
         /\ s \notin Connected(session) => s.state = session.state \/ s.state # "transfer"
<1>1. CASE s \in Connected(session)
  <2>1. s = [session EXCEPT !.state = "transfer",
                            !.reason = IF session.state = "offering" THEN session.reason
                                       ELSE "other"]
    BY <1>1, Zenon DEF Connected
  <2>2. QED
    BY <1>1, <2>1 DEF SessionType, Reasons
<1>2. CASE s \in Replies(session) /\ session.state = "transfer"
  <2>1. s = session
    BY <1>2 DEF Replies
  <2>2. QED
    BY <1>2, <2>1 DEF Connected
<1>3. CASE s \in Replies(session) \ Connected(session) /\ session.state # "transfer"
  <2>1. PICK r \in [state : {"talking", "offering"}, reason : Reasons,
                    answered : {session.answered, TRUE}] : s = Replied(session, r)
    BY <1>3 DEF Replies
  <2>2. session.answered \in BOOLEAN
    BY DEF SessionType
  <2>3. QED
    BY <1>3, <2>1, <2>2 DEF Replied, SessionType, Reasons
<1>4. QED
  BY <1>1, <1>2, <1>3

\* A reply keeps the state it found in a call handed over, and hands no other over.
LEMMA RepliesStay ==
  ASSUME session \in SessionType, NEW s \in Replies(session)
  PROVE  s \notin Connected(session)
<1>1. CASE session.state = "transfer"
  BY <1>1 DEF Connected
<1>2. CASE session.state # "transfer"
  <2>1. PICK r \in [state : {"talking", "offering"}, reason : Reasons,
                    answered : {session.answered, TRUE}] : s = Replied(session, r)
    BY <1>2 DEF Replies
  <2>2. s.state # "transfer"
    BY <2>1 DEF Replied, SessionType
  <2>3. QED
    BY <2>2, EngineOps
<1>3. QED
  BY <1>1, <1>2

\* An offer dismissed, or left standing, neither hands a call over nor counts for anything.
LEMMA ListenedOps ==
  ASSUME session \in SessionType, NEW s \in Listened(session)
  PROVE  /\ s \in SessionType /\ s.unheard = session.unheard /\ s.failures = session.failures
         /\ s.should_close = session.should_close /\ s.outcome = session.outcome
         /\ s.answered = session.answered
         /\ s.state = "transfer" <=> session.state = "transfer"
<1>1. CASE s = session
  BY <1>1
<1>2. CASE session.state = "offering" /\ s = Settled(session)
  BY <1>2 DEF Settled, SessionType
<1>3. QED
  BY <1>1, <1>2 DEF Listened

LEMMA TurnKeeps ==
  ASSUME IInv,
         NothingHeard \/ Garbled \/ Understood \/ RecordCaller \/ EngineListens
           \/ EngineReplies \/ EngineQueries \/ EngineReads \/ EngineBooks \/ EngineRaises
           \/ RecordLine \/ CommitTurn \/ RollbackTurn
  PROVE  IInv'
<1>1. /\ turn \notin {"idle", "speak"} /\ turn # "idle" /\ TurnStep /\ store \in StoreType
      /\ session.unheard <= turns /\ session.failures <= turns
      /\ (turn = "stt" => session.unheard < turns)
      /\ (turn \in Unanswered => session.failures < turns)
  BY DEF NothingHeard, Garbled, Understood, RecordCaller, EngineReplies, EngineListens,
     EngineQueries, EngineReads, EngineBooks, EngineRaises, RecordLine, CommitTurn,
     RollbackTurn, IInv, TypeOK, Strikes
<1>2. /\ session \in SessionType /\ session.unheard \in Nat /\ session.failures \in Nat
      /\ turns \in 0 .. MaxTurns
  BY <1>1, InTurn
<1>3. CASE NothingHeard \/ CommitTurn \/ RollbackTurn
  <2>1. store' \in StoreType
    BY <1>1, <1>3, StoreOps DEF NothingHeard, CommitTurn, RollbackTurn
  <2>2. /\ UNCHANGED <<line, interrupted, session>>
        /\ turn' \in {"commit", "rollback", "idle"}
    BY <1>3 DEF NothingHeard, CommitTurn, RollbackTurn
  <2>3. turn' \notin Unanswered
    BY <2>2 DEF Unanswered
  <2>4. QED
    BY <1>1, <1>2, <2>1, <2>2, <2>3, TurnGoesOnKeeps
<1>4. CASE EngineListens \/ EngineQueries
  <2>1. /\ session' \in Listened(session) /\ UNCHANGED <<line, interrupted, store>>
        /\ turn = "engine" /\ turn' \in {"engine", "engine_db"}
        /\ turn' = "engine_db" => session.state # "transfer"
    BY <1>4 DEF EngineListens, EngineQueries
  <2>2. /\ session' \in SessionType
        /\ session'.state = "transfer" <=> session.state = "transfer"
        /\ session'.should_close = session.should_close
        /\ session'.failures = session.failures /\ session'.unheard = session.unheard
    BY <1>2, <2>1, ListenedOps
  <2>3. /\ turn \in Unanswered /\ store' \in StoreType
        /\ line' = line /\ interrupted' = interrupted
    BY <1>1, <2>1 DEF Unanswered
  <2>4. turn' \in {"commit", "rollback", "idle", "record_caller", "engine", "engine_db"}
    BY <2>1
  <2>5. QED
    BY <1>1, <2>1, <2>2, <2>3, <2>4, TurnGoesOnKeeps
<1>5. CASE Understood
  <2>1. /\ session' = [session EXCEPT !.unheard = 0] /\ turn' = "record_caller"
        /\ UNCHANGED <<line, interrupted, store>> /\ turn = "stt"
    BY <1>5 DEF Understood
  <2>2. /\ session' \in SessionType /\ session'.state = session.state
        /\ session'.should_close = session.should_close
        /\ session'.failures = session.failures /\ session'.unheard = 0
    BY <1>2, <2>1 DEF SessionType
  <2>3. QED
    BY <1>1, <2>1, <2>2, TurnGoesOnKeeps DEF Unanswered
<1>6. CASE Garbled
  <2>1. PICK kind \in {"give_up", "ask_again"} : ToRecord(kind)
    BY <1>6 DEF Garbled
  <2>2. /\ session' = [session EXCEPT !.unheard = session.unheard + 1]
        /\ UNCHANGED <<interrupted, store>> /\ turn = "stt"
    BY <1>6 DEF Garbled
  <2>3. session.unheard + 1 \in 0 .. MaxTurns /\ session.unheard + 1 <= turns
    BY <1>1, <1>2, <2>2
  <2>4. /\ session' \in SessionType /\ session'.state = session.state
        /\ session'.should_close = session.should_close
        /\ session'.failures = session.failures /\ session'.unheard = session.unheard + 1
    BY <1>2, <2>2, <2>3 DEF SessionType
  <2>5. kind \in LineKinds /\ kind \notin {"greeting", "filler", "transfer"}
    BY DEF LineKinds
  <2>6. QED
    BY <1>1, <2>1, <2>2, <2>3, <2>4, <2>5, ToRecordKeeps
<1>7. CASE RecordCaller
  <2>1. store' \in StoreType /\ session' = session /\ turn = "record_caller"
    BY <1>1, <1>7, StoreOps DEF RecordCaller
  <2>2. CASE turn' = "speak"
    <3>1. BeginLine("filler")
      BY <1>7, <2>2 DEF RecordCaller
    <3>2. QED
      BY <1>1, <1>2, <2>1, <2>2, <3>1, ToSpeakKeeps DEF Unanswered, LineKinds
  <2>3. CASE turn' # "speak"
    <3>1. turn' \in {"engine", "rollback"} /\ UNCHANGED <<line, interrupted>>
      BY <1>7, <2>3 DEF RecordCaller
    <3>2. QED
      BY <1>1, <1>2, <2>1, <3>1, TurnGoesOnKeeps DEF Unanswered
  <2>4. QED
    BY <2>2, <2>3
<1>8. CASE EngineReplies
  <2>1. PICK kind \in {"reply", "transfer"}, s \in Replies(session) \cup Connected(session) :
          EngineReturns(kind, s) /\ (kind = "transfer" => s \in Connected(session))
    BY <1>8 DEF EngineReplies
  <2>2. /\ s \in SessionType /\ s.unheard = session.unheard
        /\ s.should_close = session.should_close
        /\ session.state = "transfer" => s.state = "transfer"
        /\ kind = "transfer" => s.state = "transfer"
    BY <1>2, <2>1, EngineOps
  <2>3. session' = [s EXCEPT !.failures = 0] /\ ToRecord(kind)
    BY <2>1 DEF EngineReturns
  <2>4. /\ session' \in SessionType /\ session'.unheard = session.unheard
        /\ session'.should_close = session.should_close /\ session'.failures = 0
        /\ session'.state = s.state
    BY <2>2, <2>3, 0 \in 0 .. MaxTurns DEF SessionType
  <2>5. UNCHANGED <<interrupted, store>>
    BY <1>8 DEF EngineReplies
  <2>6. kind \in LineKinds /\ kind \notin {"greeting", "filler"}
    BY DEF LineKinds
  <2>7. session'.unheard <= turns /\ session'.failures <= turns
    BY <1>1, <1>2, <2>4
  <2>8. QED
    BY <1>1, <2>2, <2>3, <2>4, <2>5, <2>6, <2>7, ToRecordKeeps
<1>9. CASE EngineReads \/ EngineBooks
  <2>1. session.state # "transfer"
    BY <1>9 DEF EngineReads, EngineBooks, IInv, HandsOver
  <2>2. PICK kind \in {"reply", "booked"}, s \in SessionType :
          /\ EngineReturns(kind, s)
          /\ s.unheard = session.unheard /\ s.should_close = session.should_close
    <3>1. CASE EngineReads
      <4> DEFINE s == Informed(session)
      <4>1. /\ s \in SessionType /\ s.unheard = session.unheard
            /\ s.should_close = session.should_close
        BY <1>2 DEF SessionType, Informed, Settled
      <4>2. EngineReturns("reply", s)
        BY <3>1 DEF EngineReads
      <4> HIDE DEF s
      <4>3. QED
        BY <4>1, <4>2
    <3>2. CASE EngineBooks
      <4> DEFINE s == Settled(session)
      <4>1. /\ s \in SessionType /\ s.unheard = session.unheard
            /\ s.should_close = session.should_close
        BY <1>2 DEF SessionType, Settled
      <4>2. EngineReturns("booked", s)
        BY <3>2 DEF EngineBooks
      <4> HIDE DEF s
      <4>3. QED
        BY <4>1, <4>2
    <3>3. QED
      BY <1>9, <3>1, <3>2
  <2>3. session' = [s EXCEPT !.failures = 0] /\ ToRecord(kind)
    BY <2>2 DEF EngineReturns
  <2>4. /\ session' \in SessionType /\ session'.unheard = session.unheard
        /\ session'.should_close = session.should_close /\ session'.failures = 0
    BY <2>2, <2>3, 0 \in 0 .. MaxTurns DEF SessionType
  <2>5. store' \in StoreType /\ interrupted' = interrupted
    <3>1. CASE EngineReads
      BY <1>1, <3>1 DEF EngineReads
    <3>2. CASE EngineBooks
      <4>1. Write(store) \in StoreType
        BY <1>1, StoreOps
      <4>2. store' = Booked(Write(store)) /\ interrupted' = interrupted
        BY <3>2 DEF EngineBooks
      <4>3. QED
        BY <4>1, <4>2 DEF Booked, StoreType
    <3>3. QED
      BY <1>9, <3>1, <3>2
  <2>6. kind \in LineKinds /\ kind \notin {"greeting", "filler", "transfer"}
    BY DEF LineKinds
  <2>7. session'.unheard <= turns /\ session'.failures <= turns
    BY <1>1, <1>2, <2>4
  <2>8. QED
    BY <1>1, <2>1, <2>3, <2>4, <2>5, <2>6, <2>7, ToRecordKeeps
<1>10. CASE EngineRaises
  <2>1. PICK kind \in {"hand_over", "trouble"} : ToRecord(kind)
    BY <1>10 DEF EngineRaises
  <2>2. /\ session' = [session EXCEPT !.failures = session.failures + 1]
        /\ interrupted' = interrupted /\ store' \in {store, Refused(store)}
        /\ turn \in Unanswered
    BY <1>10 DEF EngineRaises, Unanswered
  <2>3. session.failures + 1 \in 0 .. MaxTurns /\ session.failures + 1 <= turns
    BY <1>1, <1>2, <2>2
  <2>4. /\ session' \in SessionType /\ session'.state = session.state
        /\ session'.should_close = session.should_close
        /\ session'.failures = session.failures + 1 /\ session'.unheard = session.unheard
    BY <1>2, <2>2, <2>3 DEF SessionType
  <2>5. kind \in LineKinds /\ kind \notin {"greeting", "filler", "transfer"}
    BY DEF LineKinds
  <2>6. store' \in StoreType
    BY <1>1, <2>2, StoreOps
  <2>7. QED
    BY <1>1, <2>1, <2>2, <2>3, <2>4, <2>5, <2>6, ToRecordKeeps
<1>11. CASE RecordLine
  <2>1. turn = "record" /\ store' \in StoreType
    BY <1>1, <1>11, StoreOps DEF RecordLine
  <2>2. CASE turn' = "speak"
    <3>1. session' = UpdateOutcome(line.kind, session) /\ BeginLine(line.kind)
      BY <1>11, <2>2 DEF RecordLine
    <3>2. /\ line.kind \in LineKinds /\ line.kind \notin {"greeting", "filler"}
          /\ line.kind = "transfer" => session.state = "transfer"
      BY <2>1 DEF IInv, TypeOK, LineType, LineOfTurn, HandsOver
    <3>3. /\ session' \in SessionType /\ session'.state = session.state
          /\ session'.should_close = session.should_close
          /\ session'.unheard = session.unheard /\ session'.failures = session.failures
      BY <1>2, <3>1, <3>2, SessionOps
    <3>4. QED
      BY <1>1, <2>1, <2>2, <3>1, <3>2, <3>3, ToSpeakKeeps
  <2>3. CASE turn' # "speak"
    <3>1. turn' = "rollback" /\ line' = NoLine /\ UNCHANGED <<interrupted, session>>
      BY <1>11, <2>3 DEF RecordLine
    <3>2. QED
      BY <1>1, <1>2, <2>1, <3>1, TurnGoesOnKeeps DEF Unanswered
  <2>4. QED
    BY <2>2, <2>3
<1>12. QED
  BY <1>3, <1>4, <1>5, <1>6, <1>7, <1>8, <1>9, <1>10, <1>11

-----------------------------------------------------------------------------
LEMMA NextKeeps ==
  ASSUME IInv, [Next]_vars
  PROVE  IInv'
<1>1. CASE UNCHANGED vars
  BY <1>1 DEF vars, IInv, TypeOK, LoopAlone, LineOfTurn, Strikes, Unanswered, HandsOver,
     OneSpeaker, Speaking, Greeting, ClosesOnlyToHandOver
<1>2. CASE Next
  <2>1. CASE RecordGreeting
    BY <2>1, RecordGreetingKeeps
  <2>2. CASE Speak
    BY <2>2, SpeakKeeps
  <2>3. CASE StartTurn
    BY <2>3, StartTurnKeeps
  <2>4. CASE TurnRuns /\ ~Speak
    BY <2>4, TurnKeeps DEF TurnRuns
  <2>5. CASE Interrupt \/ OrphanCommits \/ HangUp \/ PlaybackEnds
    BY <2>5, SurroundingsKeep
  <2>6. CASE LoopRuns /\ ~Speak /\ ~RecordGreeting
    BY <2>6, LoopKeeps DEF LoopRuns, Greet
  <2>7. QED
    BY <1>2, <2>1, <2>2, <2>3, <2>4, <2>5, <2>6 DEF Next
<1>3. QED
  BY <1>1, <1>2

\* What the operations do to the fields of the database session.
LEMMA StoreFields ==
  ASSUME NEW s \in StoreType
  PROVE  /\ Write(s).tx = "open" /\ Write(s).loaded = s.loaded /\ Write(s).orphan = s.orphan
         /\ Write(s).reservation = s.reservation /\ Write(s).filed = s.filed
         /\ Refused(s).tx = "aborted" /\ Refused(s).loaded = s.loaded
         /\ Refused(s).orphan = s.orphan /\ Refused(s).reservation = s.reservation
         /\ Refused(s).filed = s.filed
         /\ Commit(s).tx = "idle" /\ Commit(s).loaded = s.loaded /\ Commit(s).orphan = s.orphan
         /\ Commit(s).reservation = (IF s.reservation = "pending" THEN "saved" ELSE s.reservation)
         /\ Commit(s).filed = s.filed
         /\ \A c \in CommitFails(s) :
              /\ c.tx = "aborted" /\ c.loaded = s.loaded /\ c.orphan = s.orphan
              /\ c.filed = s.filed /\ c.reservation # "pending"
              /\ c.reservation = "saved" => s.reservation \in {"pending", "saved"}
         /\ Booked(s).tx = s.tx /\ Booked(s).loaded = s.loaded /\ Booked(s).orphan = s.orphan
         /\ Booked(s).reservation \in {"pending", "saved"} /\ Booked(s).filed = s.filed
         /\ s.tx = "idle" => Rollback(s) = s
         /\ s.tx # "idle" => /\ Rollback(s).tx = "idle" /\ ~Rollback(s).loaded
                             /\ Rollback(s).orphan = s.orphan
                             /\ Rollback(s).reservation # "pending"
                             /\ Rollback(s).filed = s.filed
<1>1. /\ Write(s).tx = "open" /\ Write(s).loaded = s.loaded /\ Write(s).orphan = s.orphan
      /\ Write(s).reservation = s.reservation /\ Write(s).filed = s.filed
  BY DEF Write, StoreType
<1>2. /\ Refused(s).tx = "aborted" /\ Refused(s).loaded = s.loaded
      /\ Refused(s).orphan = s.orphan /\ Refused(s).reservation = s.reservation
      /\ Refused(s).filed = s.filed
  BY DEF Refused, StoreType
<1>3. /\ Commit(s).tx = "idle" /\ Commit(s).loaded = s.loaded /\ Commit(s).orphan = s.orphan
      /\ Commit(s).reservation = (IF s.reservation = "pending" THEN "saved" ELSE s.reservation)
      /\ Commit(s).filed = s.filed
  BY DEF Commit, StoreType
<1>4. /\ Booked(s).tx = s.tx /\ Booked(s).loaded = s.loaded /\ Booked(s).orphan = s.orphan
      /\ Booked(s).reservation \in {"pending", "saved"} /\ Booked(s).filed = s.filed
  BY DEF Booked, StoreType
<1>5. s.tx = "idle" => Rollback(s) = s
  BY DEF Rollback
<1>6. s.tx # "idle" => /\ Rollback(s).tx = "idle" /\ ~Rollback(s).loaded
                       /\ Rollback(s).orphan = s.orphan /\ Rollback(s).reservation # "pending"
                       /\ Rollback(s).filed = s.filed
  BY DEF Rollback, StoreType
<1>7. ASSUME NEW c \in CommitFails(s)
      PROVE  /\ c.tx = "aborted" /\ c.loaded = s.loaded /\ c.orphan = s.orphan
             /\ c.filed = s.filed /\ c.reservation # "pending"
             /\ c.reservation = "saved" => s.reservation \in {"pending", "saved"}
  <2>1. CASE c = Refused([s EXCEPT !.reservation = IF s.reservation = "pending" THEN "none"
                                                   ELSE s.reservation])
    BY <2>1 DEF Refused, StoreType
  <2>2. CASE c = Refused(Commit(s))
    BY <2>2 DEF Refused, Commit, StoreType
  <2>3. QED
    BY <1>7, <2>1, <2>2 DEF CommitFails
<1>8. QED
  BY <1>1, <1>2, <1>3, <1>4, <1>5, <1>6, <1>7

LEMMA InitJInv == Init => JInv
BY DEF Init, JInv, StoreInv, StrikesInv, OutcomeInv, BookingInv, FilingInv, Spoiled, Working,
   Filed, Unusable, Transfers

\* At the commit that files the call, what the session decided agrees.
LEMMA FiledAgrees ==
  ASSUME IInv, JInv, loop = "final_commit"
  PROVE  /\ session.state = "transfer" <=> session.outcome \in Transfers
         /\ session.outcome = "RESERVATION_CREATED" => store.reservation \in {"pending", "saved"}
         /\ store.reservation \in {"pending", "saved"} =>
               session.outcome \in Transfers \cup {"RESERVATION_CREATED"}
<1>1. turn = "idle" /\ ~Spoiled
  BY DEF JInv, StoreInv, Filed, IInv, LoopAlone, Spoiled
<1>2. QED
  BY <1>1 DEF JInv, OutcomeInv, BookingInv

\* The steps of the loop, which leave the session alone.
LEMMA LoopKeepsStore ==
  ASSUME IInv, JInv,
         Start \/ LookUpCaller \/ RecordGreeting \/ CommitGreeting \/ CloseOnFrame \/ StreamEnds
           \/ EndCall \/ TurnDrained \/ CancelTurn \/ Finalize \/ FinalizeRaises \/ FinalCommit
           \/ FilingRefused \/ Interrupt \/ OrphanCommits \/ HangUp \/ PlaybackEnds \/ StartTurn
  PROVE  JInv'
<1> USE DEF JInv, StoreInv, StrikesInv, OutcomeInv, BookingInv, FilingInv, Spoiled, Working, Filed,
            Unusable
<1>1. /\ store \in StoreType /\ session' = session
      /\ loop \notin {"read", "ending", "drain"} => turn = "idle"
  BY DEF Start, LookUpCaller, RecordGreeting, CommitGreeting, CloseOnFrame, StreamEnds, EndCall,
     TurnDrained, CancelTurn, Finalize, FinalizeRaises, FinalCommit, FilingRefused, Interrupt,
     OrphanCommits, HangUp, PlaybackEnds, StartTurn, LoopStep, EndStep, IInv, TypeOK, LoopAlone
<1>2. CASE Start \/ CloseOnFrame \/ StreamEnds \/ EndCall \/ TurnDrained \/ Interrupt \/ HangUp
             \/ PlaybackEnds \/ StartTurn
  BY <1>1, <1>2 DEF Start, CloseOnFrame, StreamEnds, EndCall, TurnDrained, Interrupt, HangUp,
     PlaybackEnds, StartTurn, LoopStep, EndStep, AfterFrame
<1>3. CASE LookUpCaller
  BY <1>1, <1>3, StoreFields DEF LookUpCaller, LoopStep
<1>4. CASE RecordGreeting
  BY <1>1, <1>4, StoreFields DEF RecordGreeting, BeginLine, CanRecord
<1>5. CASE CommitGreeting
  BY <1>1, <1>5, StoreFields DEF CommitGreeting, LoopStep
<1>6. CASE CancelTurn
  BY <1>1, <1>6 DEF CancelTurn, EndStep, StoreType, TurnDatabase
<1>7. CASE Finalize
  BY <1>1, <1>7, StoreFields DEF Finalize, CanFinalize, CanRecord, EndStep
<1>8. CASE FinalizeRaises
  BY <1>1, <1>8, StoreFields DEF FinalizeRaises, EndStep
<1>9. CASE FinalCommit
  BY <1>1, <1>9, FiledAgrees, StoreFields DEF FinalCommit, EndStep, StoreType
<1>10. CASE OrphanCommits
  <2>1. PICK s \in {Commit(store)} \cup CommitFails(store) :
          /\ store' = [s EXCEPT !.orphan = FALSE]
          /\ s \in StoreType
    BY <1>1, <1>10, StoreOps DEF OrphanCommits
  <2>2. /\ store'.tx = s.tx /\ store'.loaded = s.loaded /\ store'.orphan = FALSE
        /\ store'.reservation = s.reservation /\ store'.filed = s.filed
    BY <2>1 DEF StoreType
  <2>3. /\ s.loaded = store.loaded /\ s.filed = store.filed /\ s.reservation # "pending"
        /\ s.tx = "aborted" \/ (s.tx = "idle" /\ s = Commit(store))
        /\ s.reservation = "saved" => store.reservation \in {"pending", "saved"}
    BY <1>1, <2>1, StoreFields
  <2>4. loop \in {"finalize", "failed"} /\ UNCHANGED <<loop, turn, line, online>>
    BY <1>10 DEF OrphanCommits, EndStep
  <2>5. s = Commit(store) => (s.reservation = IF store.reservation = "pending" THEN "saved"
                                              ELSE store.reservation)
    BY <1>1, StoreFields
  <2>6. store'.filed = NotFiled
    BY <2>2, <2>3, <2>4
  <2>7. StoreInv' /\ FilingInv'
    BY <1>1, <2>2, <2>3, <2>4, <2>6
  <2>8. store.tx \notin Unusable /\ turn = "idle"
    BY <1>1, <1>10, <2>4 DEF OrphanCommits
  <2>9. StrikesInv' /\ OutcomeInv'
    BY <1>1, <2>2, <2>3, <2>4, <2>8
  <2>10. BookingInv'
    <3>1. CASE s.tx = "aborted"
      BY <1>1, <2>2, <2>4, <2>8, <3>1
    <3>2. CASE s = Commit(store)
      BY <1>1, <2>2, <2>3, <2>4, <2>5, <2>8, <3>2
    <3>3. QED
      BY <2>3, <3>1, <3>2
  <2>11. QED
    BY <2>7, <2>9, <2>10
<1>11. CASE FilingRefused
  <2>1. /\ loop \in {"finalize", "final_commit"} /\ loop' = "refused" /\ turn = "idle"
        /\ UNCHANGED <<turn, line, online>> /\ store.filed = NotFiled /\ ~store.orphan
    BY <1>1, <1>11 DEF FilingRefused, EndStep, CanFinalize
  <2>2. PICK s \in {store, [Commit(store) EXCEPT !.filed = Filing(session)]} :
          /\ store' = Rollback(Refused(s)) /\ s \in StoreType
          /\ s # store => loop = "final_commit"
    <3>1. Filing(session) \in FilingType /\ Commit(store) \in StoreType
      BY <1>1, StoreOps DEF SessionType, Filing, FilingType, IInv, TypeOK
    <3>2. [Commit(store) EXCEPT !.filed = Filing(session)] \in StoreType
      BY <3>1 DEF StoreType
    <3>3. QED
      BY <1>1, <1>11, <3>2 DEF FilingRefused
  <2>3. /\ store'.tx = "idle" /\ ~store'.loaded /\ store'.orphan = s.orphan
        /\ store'.filed = s.filed
        /\ store'.reservation = IF s.reservation = "pending" THEN "none" ELSE s.reservation
    BY <2>2 DEF Rollback, Refused, StoreType
  <2>4. CASE s = store
    BY <1>1, <2>1, <2>3, <2>4
  <2>5. CASE s # store
    <3>1. /\ s.filed = Filing(session) /\ s.orphan = store.orphan
          /\ s.reservation = IF store.reservation = "pending" THEN "saved" ELSE store.reservation
      <4> DEFINE c == Commit(store)
      <4>1. /\ c \in StoreType /\ c.orphan = store.orphan
            /\ c.reservation = IF store.reservation = "pending" THEN "saved" ELSE store.reservation
        BY <1>1, StoreOps, StoreFields
      <4>2. s = [c EXCEPT !.filed = Filing(session)]
        BY <2>2, <2>5
      <4> HIDE DEF c
      <4>3. s.filed = Filing(session) /\ s.orphan = c.orphan /\ s.reservation = c.reservation
        BY <4>1, <4>2 DEF StoreType
      <4>4. QED
        BY <4>1, <4>3
    <3>2. loop = "final_commit"
      BY <2>2, <2>5
    <3>3. QED
      BY <1>1, <2>1, <2>3, <3>1, <3>2, FiledAgrees
  <2>6. QED
    BY <2>4, <2>5
<1>12. QED
  BY <1>2, <1>3, <1>4, <1>5, <1>6, <1>7, <1>8, <1>9, <1>10, <1>11

\* The end of a line, or its next sentence.
LEMMA LineEndsKeepsStore ==
  ASSUME IInv, JInv, Speaking, LineOver, UNCHANGED <<store, online>>
  PROVE  JInv'
<1> USE DEF JInv, StoreInv, StrikesInv, OutcomeInv, BookingInv, FilingInv, Spoiled, Working, Filed,
            Unusable
<1>1. /\ session \in SessionType
      /\ Greeting => turn' = "idle" /\ loop' = "greet_commit" /\ turn = "idle"
      /\ ~Greeting => turn = "speak" /\ loop' = loop /\ turn' \in {"engine", "commit"}
                      /\ loop \in {"read", "ending", "drain"}
  BY WhoSpeaks DEF LineOver, IInv, TypeOK
<1>2. CASE line.kind \in {"give_up", "hand_over"}
  <2>1. session'.state = "transfer" /\ session'.outcome \in Transfers
    BY <1>1, <1>2 DEF LineOver, HandOver, SessionType, Transfers
  <2>2. session'.outcome # "RESERVATION_CREATED"
    BY <2>1 DEF Transfers
  <2>3. QED
    BY <1>1, <2>1, <2>2 DEF Greeting
<1>3. CASE line.kind \notin {"give_up", "hand_over"}
  <2>1. /\ session'.state = session.state /\ session'.outcome = session.outcome
        /\ session'.unheard = session.unheard /\ session'.failures = session.failures
    BY <1>1, <1>3 DEF LineOver, SessionType
  <2>2. QED
    BY <1>1, <1>3, <2>1 DEF Greeting
<1>4. QED
  BY <1>2, <1>3

LEMMA SpeakKeepsStore ==
  ASSUME IInv, JInv, Speak
  PROVE  JInv'
<1> USE DEF JInv, StoreInv, StrikesInv, OutcomeInv, BookingInv, FilingInv, Spoiled, Working, Filed,
            Unusable
<1>1. /\ Speaking /\ session \in SessionType /\ UNCHANGED <<store, online>>
      /\ Greeting => turn = "idle" /\ line.kind = "greeting"
      /\ ~Greeting => turn = "speak" /\ loop \in {"read", "ending", "drain"}
  BY WhoSpeaks DEF Speak, Synthesize, SynthesizeNothing, SynthesizeFails, Send, SendFails, IInv,
     TypeOK
<1>2. CASE LineOver
  BY <1>1, <1>2, LineEndsKeepsStore
<1>3. CASE UNCHANGED <<loop, turn, session>> /\ line'.kind = line.kind
  BY <1>1, <1>3
<1>4. CASE SynthesizeFails /\ ~LineOver
  <2>1. CASE Greeting
    <3>1. /\ session'.state = "transfer" /\ session'.outcome \in Transfers
          /\ loop' = "greet_commit" /\ turn' = "idle"
      BY <1>1, <1>4, <2>1 DEF SynthesizeFails, HandOver, SessionType, Transfers
    <3>2. session'.outcome # "RESERVATION_CREATED"
      BY <3>1 DEF Transfers
    <3>3. QED
      BY <1>1, <2>1, <3>1, <3>2 DEF Greeting
  <2>2. CASE ~Greeting
    <3>1. session' = session /\ turn' = "rollback" /\ loop' = loop
      BY <1>4, <2>2 DEF SynthesizeFails
    <3>2. QED
      BY <1>1, <2>2, <3>1
  <2>3. QED
    BY <2>1, <2>2
<1>5. CASE SendFails
  <2>1. /\ session'.state = session.state /\ session'.outcome = session.outcome
        /\ session'.unheard = session.unheard /\ session'.failures = session.failures
    BY <1>1, <1>5 DEF SendFails, SessionType
  <2>2. /\ Greeting => loop' = "ending" /\ turn' = turn
        /\ ~Greeting => loop' = loop /\ turn' = "hangup_commit"
        /\ ~online
    BY <1>5 DEF SendFails
  <2>3. QED
    BY <1>1, <2>1, <2>2 DEF Greeting
<1>6. CASE Synthesize \/ SynthesizeNothing \/ Send
  <2>1. LineOver \/ (UNCHANGED <<loop, turn, session>> /\ line'.kind = line.kind)
    BY <1>6 DEF Synthesize, SynthesizeNothing, Send, NextSentence, IInv, TypeOK, LineType
  <2>2. QED
    BY <1>2, <1>3, <2>1
<1>7. QED
  BY <1>2, <1>4, <1>5, <1>6 DEF Speak

\* The turn's steps between speaking.
LEMMA TurnKeepsStore ==
  ASSUME IInv, JInv,
         NothingHeard \/ Garbled \/ Understood \/ RecordCaller \/ EngineListens
           \/ EngineReplies \/ EngineQueries \/ EngineReads \/ EngineBooks \/ EngineRaises
           \/ RecordLine \/ CommitTurn \/ RollbackTurn
  PROVE  JInv'
<1> USE DEF JInv, StoreInv, StrikesInv, OutcomeInv, BookingInv, FilingInv, Spoiled, Working, Filed,
            Unusable
<1>1. /\ turn \notin {"idle", "speak"} /\ turn # "idle" /\ store \in StoreType
      /\ UNCHANGED <<loop, online>>
  BY DEF NothingHeard, Garbled, Understood, RecordCaller, EngineReplies, EngineListens,
     EngineQueries, EngineReads, EngineBooks, EngineRaises, RecordLine, CommitTurn,
     RollbackTurn, IInv, TypeOK, TurnStep
<1>2. /\ session \in SessionType /\ session.unheard \in Nat /\ session.failures \in Nat
      /\ loop \in {"read", "ending", "drain"}
  BY <1>1, InTurn
<1>3. CASE NothingHeard
  BY <1>1, <1>2, <1>3 DEF NothingHeard
<1>4. CASE EngineListens \/ EngineQueries
  <2>1. /\ session' \in Listened(session) /\ turn = "engine" /\ turn' \in {"engine", "engine_db"}
        /\ UNCHANGED <<line, store>>
    BY <1>4 DEF EngineListens, EngineQueries
  <2>2. /\ session'.state = "transfer" <=> session.state = "transfer"
        /\ session'.outcome = session.outcome
        /\ session'.failures = session.failures /\ session'.unheard = session.unheard
    BY <1>2, <2>1, ListenedOps
  <2>3. QED
    BY <1>1, <1>2, <2>1, <2>2
<1>5. CASE Understood
  BY <1>1, <1>2, <1>5 DEF Understood, SessionType
<1>6. CASE Garbled
  <2>1. /\ session'.state = session.state /\ session'.outcome = session.outcome
        /\ session'.failures = session.failures /\ session'.unheard = session.unheard + 1
        /\ store' = store /\ turn = "stt" /\ turn' = "record"
    BY <1>2, <1>6 DEF Garbled, SessionType, ToRecord
  <2>2. line'.kind = IF session.unheard + 1 >= MaxUnheard THEN "give_up" ELSE "ask_again"
    BY <1>6, LineOps DEF Garbled, ToRecord, LineKinds
  <2>3. QED
    BY <1>1, <1>2, <2>1, <2>2
<1>7. CASE RecordCaller
  BY <1>1, <1>2, <1>7, StoreFields DEF RecordCaller, CanRecord, BeginLine
<1>8. CASE CommitTurn \/ RollbackTurn
  BY <1>1, <1>2, <1>8, StoreFields DEF CommitTurn, RollbackTurn
<1>9. CASE EngineReplies
  <2>1. PICK kind \in {"reply", "transfer"}, s \in Replies(session) \cup Connected(session) :
          /\ EngineReturns(kind, s)
          /\ kind = "transfer" <=> s \in Connected(session)
    <3>1. PICK kind \in {"reply", "transfer"}, s \in Replies(session) \cup Connected(session) :
            /\ EngineReturns(kind, s)
            /\ kind = "transfer" => s \in Connected(session)
            /\ kind = "reply" => s \in Replies(session)
      BY <1>9 DEF EngineReplies
    <3>2. s \in Replies(session) => s \notin Connected(session)
      BY <1>2, RepliesStay
    <3>3. QED
      BY <3>1, <3>2
  <2>2. /\ s \in SessionType /\ s.unheard = session.unheard /\ s.outcome = session.outcome
        /\ session.state = "transfer" => s.state = "transfer"
        /\ kind = "transfer" => s.state = "transfer"
        /\ kind = "reply" => s.state = session.state \/ s.state # "transfer"
    BY <1>2, <2>1, EngineOps
  <2>3. /\ session'.state = s.state /\ session'.outcome = session.outcome
        /\ session'.failures = 0 /\ session'.unheard = session.unheard
        /\ turn' = "record" /\ line'.kind = kind
    BY <2>1, <2>2, LineOps DEF EngineReturns, ToRecord, SessionType, LineKinds
  <2>4. turn = "engine" /\ store' = store
    BY <1>9 DEF EngineReplies
  <2>5. QED
    BY <1>1, <1>2, <2>1, <2>2, <2>3, <2>4
<1>10. CASE EngineReads \/ EngineBooks
  <2>1. session.state # "transfer" /\ turn = "engine_db"
    BY <1>10 DEF EngineReads, EngineBooks, IInv, HandsOver
  <2>2. /\ session'.state = "talking" /\ session'.outcome = session.outcome
        /\ session'.failures = 0 /\ session'.unheard = session.unheard /\ turn' = "record"
    BY <1>2, <1>10 DEF EngineReads, EngineBooks, EngineReturns, ToRecord, Informed, Settled,
       SessionType
  <2>3. CASE EngineReads
    <3>1. store' = store /\ line'.kind = "reply"
      BY <2>3, LineOps DEF EngineReads, EngineReturns, ToRecord, LineKinds
    <3>2. QED
      BY <1>1, <1>2, <2>1, <2>2, <3>1
  <2>4. CASE EngineBooks
    <3>1. store' = Booked(Write(store)) /\ line'.kind = "booked"
      BY <2>4, LineOps DEF EngineBooks, EngineReturns, ToRecord, LineKinds
    <3>2. /\ store'.tx = "open" /\ store'.loaded = store.loaded /\ store'.orphan = store.orphan
          /\ store'.reservation \in {"pending", "saved"} /\ store'.filed = store.filed
      <4>1. /\ Write(store) \in StoreType /\ Write(store).tx = "open"
            /\ Write(store).loaded = store.loaded /\ Write(store).orphan = store.orphan
            /\ Write(store).filed = store.filed
        BY <1>1, StoreFields, StoreOps
      <4> DEFINE w == Write(store)
      <4>2. w \in StoreType
        BY <4>1
      <4> HIDE DEF w
      <4>3. /\ Booked(w).tx = w.tx /\ Booked(w).loaded = w.loaded /\ Booked(w).orphan = w.orphan
            /\ Booked(w).reservation \in {"pending", "saved"} /\ Booked(w).filed = w.filed
        BY <4>2, StoreFields
      <4>4. QED
        BY <3>1, <4>1, <4>3 DEF w
    <3>3. QED
      BY <1>1, <1>2, <2>1, <2>2, <3>1, <3>2
  <2>5. QED
    BY <1>10, <2>3, <2>4
<1>11. CASE EngineRaises
  <2>1. /\ session'.state = session.state /\ session'.outcome = session.outcome
        /\ session'.failures = session.failures + 1 /\ session'.unheard = session.unheard
        /\ turn' = "record" /\ session.state # "transfer" /\ turn \in {"engine", "engine_db"}
        /\ store' \in {store, Refused(store)}
    BY <1>2, <1>11 DEF EngineRaises, ToRecord, SessionType
  <2>2. line'.kind = IF session.failures + 1 >= MaxFailures THEN "hand_over" ELSE "trouble"
    BY <1>11, LineOps DEF EngineRaises, ToRecord, LineKinds
  <2>3. QED
    BY <1>1, <1>2, <2>1, <2>2, StoreFields
<1>12. CASE RecordLine
  <2>1. turn = "record"
    BY <1>12 DEF RecordLine
  <2>2. /\ line.kind \in LineKinds /\ line.kind \notin {"greeting", "filler"}
        /\ line.kind = "transfer" => session.state = "transfer"
    BY <2>1 DEF IInv, TypeOK, LineType, LineOfTurn, HandsOver
  <2>3. CASE turn' = "speak"
    <3>1. /\ session' = UpdateOutcome(line.kind, session) /\ line'.kind = line.kind
          /\ CanRecord /\ store' = Write(store)
      BY <1>12, <2>3 DEF RecordLine, BeginLine
    <3>2. /\ session'.state = session.state /\ session'.unheard = session.unheard
          /\ session'.failures = session.failures
      BY <1>2, <2>2, <3>1, SessionOps
    <3>3. session'.outcome =
            CASE line.kind = "booked" -> "RESERVATION_CREATED"
              [] line.kind = "transfer" -> IF session.reason = Routine THEN "CALL_TRANSFERRED"
                                           ELSE "HUMAN_ESCALATION"
              [] line.kind = "reply" /\ session.outcome = "UNKNOWN" /\ session.answered ->
                   "FAQ_ANSWERED"
              [] OTHER -> session.outcome
      BY <1>2, <3>1 DEF UpdateOutcome, SessionType
    <3>4. ~Spoiled
      BY <2>1, <3>1 DEF CanRecord
    <3>5. /\ store'.tx = "open" /\ store'.loaded = store.loaded /\ store'.orphan = store.orphan
          /\ store'.reservation = store.reservation /\ store'.filed = store.filed
      BY <1>1, <3>1, StoreFields
    <3>6. StoreInv' /\ StrikesInv' /\ FilingInv'
      <4>1. StoreInv'
        BY <1>1, <1>2, <2>1, <2>3, <3>4, <3>5
      <4>2. StrikesInv'
        BY <1>1, <1>2, <2>1, <2>3, <3>1, <3>2, <3>4, <3>5
      <4>3. FilingInv'
        BY <1>1, <1>2, <3>5
      <4>4. QED
        BY <4>1, <4>2, <4>3
    <3>7. OutcomeInv'
      <4>1. session'.outcome \in Transfers => session'.state = "transfer"
        BY <2>1, <2>2, <3>2, <3>3 DEF Transfers
      <4>2. session'.state = "transfer" => session'.outcome \in Transfers
        BY <2>1, <2>2, <3>2, <3>3, <3>4 DEF Transfers
      <4>3. QED
        BY <2>3, <4>1, <4>2
    <3>8. BookingInv'
      <4>1. session'.outcome = "RESERVATION_CREATED" =>
              store'.reservation \in {"pending", "saved"}
        BY <2>1, <2>2, <3>3, <3>4, <3>5 DEF Transfers
      <4>2. store'.reservation \in {"pending", "saved"} =>
              session'.outcome \in Transfers \cup {"RESERVATION_CREATED"}
        BY <2>1, <2>2, <3>3, <3>4, <3>5 DEF Transfers
      <4>3. QED
        BY <2>3, <4>1, <4>2
    <3>9. QED
      BY <3>6, <3>7, <3>8
  <2>4. CASE turn' # "speak"
    <3>1. /\ turn' = "rollback" /\ session' = session
          /\ store' = IF CanRecord THEN Refused(store) ELSE store
      BY <1>12, <2>4 DEF RecordLine
    <3>2. QED
      BY <1>1, <1>2, <2>1, <3>1, StoreFields DEF CanRecord
  <2>5. QED
    BY <2>3, <2>4
<1>13. QED
  BY <1>3, <1>4, <1>5, <1>6, <1>7, <1>8, <1>9, <1>10, <1>11, <1>12

LEMMA NextKeepsStore ==
  ASSUME IInv, JInv, [Next]_vars
  PROVE  JInv'
<1>1. CASE UNCHANGED vars
  BY <1>1 DEF vars, JInv, StoreInv, StrikesInv, OutcomeInv, BookingInv, FilingInv, Spoiled
<1>2. CASE Speak
  BY <1>2, SpeakKeepsStore
<1>3. CASE Next /\ ~Speak
  BY <1>3, LoopKeepsStore, TurnKeepsStore DEF Next, LoopRuns, Greet, TurnRuns
<1>4. QED
  BY <1>1, <1>2, <1>3

\* The two invariants hold of every call.
THEOREM SessionInvariant == Spec => [](IInv /\ JInv)
<1>1. Init => IInv /\ JInv
  BY InitIInv, InitJInv
<1>2. IInv /\ JInv /\ [Next]_vars => IInv' /\ JInv'
  BY NextKeeps, NextKeepsStore
<1>3. QED
  BY <1>1, <1>2, PTL DEF Spec

\* Type correctness: in particular a call's counters of misunderstood and failed turns
\* never pass the number of its turns.
THEOREM SessionTypeOK == Spec => []TypeOK
<1>1. IInv => TypeOK
  BY DEF IInv
<1>2. QED
  BY <1>1, SessionInvariant, PTL

\* The greeting and the turn task never speak over each other, and a line is under way
\* exactly while one of them speaks.
THEOREM OneSpeaks == Spec => []OneSpeaker
<1>1. IInv => OneSpeaker
  BY DEF IInv
<1>2. QED
  BY <1>1, SessionInvariant, PTL

\* The loop uses the database session before the first turn can start and after the last has
\* been drained or cancelled: the two meet there only if the turn was cut off in its shielded
\* commit, which goes on under finalize_call.
THEOREM OneUses == Spec => []OneUserOfTheDatabase
<1>1. IInv /\ JInv => OneUserOfTheDatabase
  BY DEF IInv, LoopAlone, JInv, StoreInv, OneUserOfTheDatabase, TurnUsesDatabase, LoopDatabase,
     TurnDatabase
<1>2. QED
  BY <1>1, SessionInvariant, PTL

\* A caller still on the line is cut off only to be handed over.
THEOREM ClosesToHandOver == Spec => []ClosesOnlyToHandOver
<1>1. IInv => ClosesOnlyToHandOver
  BY DEF IInv
<1>2. QED
  BY <1>1, SessionInvariant, PTL

\* A caller out of strikes is handed over by the end of the turn, unless that turn was
\* rolled back and left the call unusable.
THEOREM StrikesAreFinal == Spec => []StrikesHandOver
<1>1. IInv /\ JInv => StrikesHandOver
  BY DEF JInv, StrikesInv, StoreInv, Spoiled, Filed, StrikesHandOver
<1>2. QED
  BY <1>1, SessionInvariant, PTL

\* A call that is filed is filed as transferred exactly when the transfer webhook will dial:
\* where the two parted, nothing could be filed.
THEOREM OutcomeAgrees == Spec => []OutcomeAgreesWithTransfer
<1>1. JInv => OutcomeAgreesWithTransfer
  <2> SUFFICES ASSUME JInv, store.filed # NotFiled
               PROVE  store.filed.transferred <=> store.filed.outcome \in Transfers
    BY DEF OutcomeAgreesWithTransfer
  <2>1. /\ store.filed = Filing(session)
        /\ session.state = "transfer" <=> session.outcome \in Transfers
    BY DEF JInv, FilingInv
  <2>2. /\ store.filed.transferred = (session.state = "transfer")
        /\ store.filed.outcome = IF session.outcome = "UNKNOWN" THEN "CALL_ABANDONED"
                                 ELSE session.outcome
    BY <2>1 DEF Filing
  <2>3. store.filed.outcome \in Transfers <=> session.outcome \in Transfers
    BY <2>2 DEF Transfers
  <2>4. QED
    BY <2>1, <2>2, <2>3, Zenon
<1>2. QED
  BY <1>1, SessionInvariant, PTL

\* What the owner reads of a filed call and the reservation it kept agree, whichever commit
\* was refused or had its answer lost.
THEOREM BookingFiled == Spec => []BookingIsFiled
<1>1. JInv => BookingIsFiled
  BY DEF JInv, FilingInv, BookingIsFiled, Filing, Transfers
<1>2. QED
  BY <1>1, SessionInvariant, PTL

-----------------------------------------------------------------------------
(* The session implements what CallRecord takes it for.  As long as the    *)
(* end has not begun the record sees nothing but hangups; from then on no  *)
(* turn is in flight and every step of the loop is one of the record's.    *)

\* The loop while the record knows nothing of an end.
Early == LoopAwaits \ {"finalize", "final_commit", "closed", "failed", "refused"}

\* A caller who is there loses the stream to a decision to close it, or because nothing
\* can be recorded of the call, which no turn is left to mend.
EndInv ==
  (loop \in {"ending", "drain"} \/ (loop = "finalize" /\ store.orphan)) /\ online =>
    session.should_close \/ (turn = "idle" /\ ~CanRecord)

\* should_close is never taken back.
LEMMA StaysClosing ==
  ASSUME IInv, [Next]_vars, session.should_close
  PROVE  session'.should_close
<1> USE DEF IInv, TypeOK
<1>1. session \in SessionType
  OBVIOUS
<1>2. CASE Speak
  <2>1. HandOver(session).should_close
    BY <1>1 DEF HandOver, SessionType
  <2>2. [session EXCEPT !.should_close = TRUE].should_close
    BY <1>1 DEF SessionType
  <2>3. LineOver \/ NextSentence(TRUE) \/ NextSentence(line.spoken) => session'.should_close
    BY <2>1, <2>2 DEF LineOver, NextSentence
  <2>4. QED
    BY <1>2, <2>1, <2>2, <2>3 DEF Speak, Synthesize, SynthesizeNothing, SynthesizeFails, Send,
       SendFails
<1>3. CASE Garbled \/ Understood
  BY <1>1, <1>3 DEF Garbled, Understood, SessionType
<1>4. CASE EngineReplies
  <2>1. PICK s \in Replies(session) \cup Connected(session) :
          session' = [s EXCEPT !.failures = 0]
    BY <1>4 DEF EngineReplies, EngineReturns
  <2>2. s \in SessionType /\ s.should_close
    BY <1>1, EngineOps
  <2>3. QED
    BY <2>1, <2>2 DEF SessionType
<1>5. CASE EngineReads \/ EngineBooks \/ EngineRaises
  BY <1>1, <1>5 DEF EngineReads, EngineBooks, EngineReturns, EngineRaises, Informed, Settled,
     SessionType
<1>6. CASE RecordLine
  <2>1. turn = "record" /\ line.kind \in LineKinds
    BY <1>6 DEF RecordLine, LineOfTurn, LineType
  <2>2. UpdateOutcome(line.kind, session).should_close
    BY <1>1, <2>1, SessionOps
  <2>3. QED
    BY <1>6, <2>2 DEF RecordLine
<1>7. CASE session' = session
  BY <1>7
<1>8. CASE EngineListens \/ EngineQueries
  BY <1>1, <1>8, ListenedOps DEF EngineListens, EngineQueries
<1>9. QED
  BY <1>2, <1>3, <1>4, <1>5, <1>6, <1>7, <1>8 DEF Next, LoopRuns, TurnRuns, Greet, vars, Start,
     LookUpCaller, RecordGreeting, CommitGreeting, CloseOnFrame, StreamEnds, EndCall,
     TurnDrained, CancelTurn, Finalize, FinalizeRaises, FinalCommit, FilingRefused, LoopStep, EndStep,
     Interrupt, StartTurn, OrphanCommits, HangUp, PlaybackEnds, NothingHeard, RecordCaller,
     CommitTurn, RollbackTurn

\* What can happen to a loop that is early: it stays so, or its end begins.
LEMMA EarlySteps ==
  ASSUME IInv, [Next]_vars, loop \in Early
  PROVE  \/ /\ loop' \in Early
            /\ online' = online \/ HangUp
         \/ EndCall \/ TurnDrained \/ CancelTurn
<1>1. CASE Speak
  <2>1. LineOver \/ NextSentence(TRUE) \/ NextSentence(line.spoken) =>
          loop' \in {loop, "greet_commit"}
    BY DEF LineOver, NextSentence
  <2>2. loop' \in {loop, "greet_commit", "ending"} /\ online' = online
    BY <1>1, <2>1 DEF Speak, Synthesize, SynthesizeNothing, SynthesizeFails, Send, SendFails
  <2>3. QED
    BY <2>2 DEF Early, LoopAwaits, LoopDatabase
<1>2. CASE Next /\ ~Speak
  BY <1>2 DEF Next, LoopRuns, TurnRuns, Greet, Start, LookUpCaller, RecordGreeting,
     CommitGreeting, CloseOnFrame, StreamEnds, EndCall, TurnDrained, CancelTurn, Finalize,
     FinalizeRaises, FinalCommit, FilingRefused, LoopStep, EndStep, AfterFrame, Interrupt, StartTurn,
     OrphanCommits, HangUp, PlaybackEnds, TurnStep, NothingHeard, Garbled, Understood,
     RecordCaller, EngineReplies, EngineListens, EngineQueries, EngineReads, EngineBooks,
     EngineRaises, RecordLine, CommitTurn, RollbackTurn, Early, LoopAwaits, LoopDatabase
<1>3. CASE UNCHANGED vars
  BY <1>3 DEF vars
<1>4. QED
  BY <1>1, <1>2, <1>3

\* What can happen once the end has begun.
LEMMA LateSteps ==
  ASSUME IInv, [Next]_vars, loop \in LoopAwaits \ Early
  PROVE  \/ UNCHANGED <<loop, turn, session, store, online>>
         \/ HangUp \/ OrphanCommits \/ Finalize \/ FinalizeRaises \/ FinalCommit \/ FilingRefused
<1>1. turn = "idle" /\ ~Greeting /\ ~Speaking
  BY DEF IInv, LoopAlone, Early, LoopAwaits, LoopDatabase, Greeting, Speaking
<1>2. ~Speak
  BY <1>1 DEF Speak, Synthesize, SynthesizeNothing, SynthesizeFails, Send, SendFails
<1>3. ~TurnRuns
  BY <1>1 DEF TurnRuns, NothingHeard, Garbled, Understood, RecordCaller, EngineReplies,
     EngineListens, EngineQueries, EngineReads, EngineBooks, EngineRaises, RecordLine,
     CommitTurn, RollbackTurn
<1>4. ~(Greet \/ CloseOnFrame \/ StreamEnds \/ EndCall \/ TurnDrained \/ CancelTurn
          \/ Interrupt \/ StartTurn)
  BY DEF Early, Greet, Start, LookUpCaller, RecordGreeting, CommitGreeting, CloseOnFrame,
     StreamEnds, EndCall, TurnDrained, CancelTurn, Interrupt, StartTurn
<1>5. CASE PlaybackEnds
  BY <1>5 DEF PlaybackEnds
<1>6. QED
  BY <1>2, <1>3, <1>4, <1>5 DEF Next, LoopRuns, vars

LEMMA EndInvKeeps ==
  ASSUME IInv, IInv', JInv, JInv', EndInv, [Next]_vars
  PROVE  EndInv'
<1> SUFFICES ASSUME loop' \in {"ending", "drain"} \/ (loop' = "finalize" /\ store'.orphan),
                    online', ~session'.should_close
             PROVE  turn' = "idle" /\ ~CanRecord'
  BY DEF EndInv
<1>1. ~session.should_close
  BY StaysClosing
<1>2. online
  BY DEF Next, LoopRuns, TurnRuns, Greet, Speak, Synthesize, SynthesizeNothing, SynthesizeFails,
     Send, SendFails, Start, LookUpCaller, RecordGreeting, CommitGreeting, CloseOnFrame,
     StreamEnds, EndCall, TurnDrained, CancelTurn, Finalize, FinalizeRaises, FinalCommit,
     FilingRefused, LoopStep, EndStep, Interrupt, StartTurn, OrphanCommits, HangUp,
     PlaybackEnds, TurnStep, NothingHeard, Garbled, Understood, RecordCaller, EngineListens,
     EngineReplies, EngineQueries, EngineReads, EngineBooks, EngineRaises, RecordLine,
     CommitTurn, RollbackTurn, vars
<1>3. CASE loop \in {"ending", "drain"}
  <2>1. turn = "idle" /\ ~CanRecord /\ ~store.orphan /\ ~Speaking /\ ~Greeting
    BY <1>1, <1>2, <1>3 DEF EndInv, JInv, StoreInv, Speaking, Greeting
  <2>2. turn' = "idle" /\ store' = store
    BY <1>3, <2>1 DEF Next, LoopRuns, TurnRuns, Greet, Speak, Synthesize, SynthesizeNothing,
       SynthesizeFails, Send, SendFails, Start, LookUpCaller, RecordGreeting, CommitGreeting,
       CloseOnFrame, StreamEnds, EndCall, TurnDrained, CancelTurn, Finalize, FinalizeRaises,
       FinalCommit, FilingRefused, LoopStep, EndStep, Interrupt, StartTurn, OrphanCommits,
       HangUp, PlaybackEnds, NothingHeard, Garbled, Understood, RecordCaller, EngineReplies,
       EngineListens, EngineQueries, EngineReads, EngineBooks, EngineRaises, RecordLine,
       CommitTurn, RollbackTurn, vars
  <2>3. QED
    BY <2>1, <2>2 DEF CanRecord
<1>4. CASE loop = "finalize"
  <2>1. store'.orphan => store' = store
    <3>1. CASE OrphanCommits
      <4>1. PICK s \in {Commit(store)} \cup CommitFails(store) : store' = [s EXCEPT !.orphan = FALSE]
        BY <3>1 DEF OrphanCommits
      <4>2. s \in StoreType
        BY StoreOps DEF IInv, TypeOK
      <4>3. QED
        BY <4>1, <4>2 DEF StoreType
    <3>2. CASE Finalize \/ FilingRefused
      <4>1. loop' # "finalize"
        BY <3>2 DEF Finalize, FilingRefused
      <4>2. loop' \in {"final_commit", "refused"}
        BY <3>2 DEF Finalize, FilingRefused
      <4>3. QED
        BY <4>2 DEF JInv, StoreInv
    <3>3. loop \in LoopAwaits \ Early /\ loop # "final_commit"
      BY <1>4 DEF Early, LoopAwaits, LoopDatabase
    <3>4. CASE FinalizeRaises
      BY <3>4 DEF FinalizeRaises, Rollback, IInv, TypeOK, StoreType
    <3>5. ~FinalCommit
      BY <1>4 DEF FinalCommit
    <3>6. QED
      BY <3>1, <3>2, <3>3, <3>4, <3>5, LateSteps DEF HangUp
  <2>2. loop' = "finalize" /\ store'.orphan
    <3>1. loop' \notin {"ending", "drain"}
      <4>1. loop \in LoopAwaits \ Early
        BY <1>4 DEF Early, LoopAwaits, LoopDatabase
      <4>2. QED
        BY <1>4, <4>1, LateSteps DEF HangUp, OrphanCommits, EndStep, Finalize, FinalizeRaises,
           FinalCommit, FilingRefused
    <3>2. QED
      BY <3>1
  <2>3. store' = store /\ turn' = "idle"
    BY <2>1, <2>2 DEF IInv, LoopAlone
  <2>4. ~CanRecord
    BY <1>1, <1>2, <1>4, <2>2, <2>3 DEF EndInv
  <2>5. QED
    BY <2>3, <2>4 DEF CanRecord
<1>5. CASE RecordGreeting
  <2>1. turn = "idle"
    BY <1>5 DEF RecordGreeting, IInv, LoopAlone
  <2>2. loop' = "ending"
    BY <1>5 DEF RecordGreeting
  <2>3. QED
    BY <1>5, <2>1, <2>2 DEF RecordGreeting, CanRecord
<1>6. CASE CommitGreeting
  <2>1. turn = "idle" /\ turn' = turn /\ store \in StoreType
    BY <1>6 DEF CommitGreeting, LoopStep, IInv, LoopAlone, TypeOK
  <2>2. store' = Refused(store)
    BY <1>6 DEF CommitGreeting
  <2>3. QED
    BY <2>1, <2>2, StoreFields DEF CanRecord, Unusable
<1>7. CASE Speak /\ loop \notin {"ending", "drain", "finalize"}
  <2>1. LineOver \/ NextSentence(TRUE) \/ NextSentence(line.spoken) =>
          loop' \in {loop, "greet_commit"}
    BY DEF LineOver, NextSentence
  <2>2. loop' \in {loop, "greet_commit"}
    BY <1>2, <1>7, <2>1 DEF Speak, Synthesize, SynthesizeNothing, SynthesizeFails, Send,
       SendFails
  <2>3. QED
    BY <1>7, <2>2
<1>8. CASE ~RecordGreeting /\ ~CommitGreeting /\ ~Speak
             /\ loop \notin {"ending", "drain", "finalize"}
  BY <1>1, <1>2, <1>8 DEF Next, LoopRuns, TurnRuns, Greet, Start, LookUpCaller,
     CloseOnFrame, StreamEnds, EndCall, TurnDrained, CancelTurn, Finalize, FinalizeRaises,
     FinalCommit, FilingRefused, LoopStep, EndStep, AfterFrame, Interrupt, StartTurn,
     OrphanCommits, HangUp, PlaybackEnds, TurnStep, NothingHeard, Garbled, Understood,
     RecordCaller, EngineReplies, EngineListens, EngineQueries, EngineReads, EngineBooks,
     EngineRaises, RecordLine, CommitTurn, RollbackTurn, vars
<1>9. QED
  BY <1>3, <1>4, <1>5, <1>6, <1>7, <1>8

\* Until the end begins, and while it cannot be filed, the record's session is live.
LEMMA EarlyRecord ==
  ASSUME loop \in Early \/ (loop = "finalize" /\ ~CanFinalize)
  PROVE  ~Decided /\ SessionOfRecord = [at |-> "live", seen |-> LiveRow, new |-> LiveRow,
                                        closed |-> FALSE]
BY DEF Early, Decided, SessionOfRecord

\* Until it is over, nothing has been filed.
LEMMA NothingFiled ==
  ASSUME JInv, loop \notin {"closed", "refused"}
  PROVE  store.filed = NotFiled
BY DEF JInv, FilingInv

\* A call is never filed as one that has not been filed.
LEMMA FilingIsOne == Filing(session) # NotFiled
<1>1. Filing(session).outcome # "UNKNOWN"
  BY DEF Filing
<1>2. QED
  BY <1>1 DEF NotFiled

\* The caller hangs up.
LEMMA HangUpMaps ==
  ASSUME IInv, HangUp
  PROVE  Record!HangUp
<1>1. UNCHANGED <<loop, session, store>> /\ online /\ ~online'
  BY DEF HangUp
<1>2. SessionOfRecord' = SessionOfRecord
  BY <1>1 DEF SessionOfRecord, Decided, CanFinalize, CanRecord
<1>3. QED
  BY <1>1, <1>2 DEF Record!HangUp, FiledRow

\* The record's session, and how its fields change.
RecordAwaits == {"live", "finalize", "flushed", "committed", "dead"}
RecordSessionType ==
  [at : RecordAwaits, seen : Record!RowType, new : Record!RowType, closed : BOOLEAN]

LEMMA RecordSession ==
  SessionOfRecord \in RecordSessionType /\ SessionOfRecord' \in RecordSessionType
<1>1. LiveRow \in Record!RowType /\ LiveRow' = LiveRow
  BY DEF LiveRow, Record!RowType, Record!Outcomes
<1>2. /\ FiledRow(Filing(session)) \in Record!RowType
      /\ FiledRow(Filing(session))' \in Record!RowType
  BY DEF FiledRow, Filing, Record!RowType, Record!Outcomes
<1>3. SessionOfRecord.at \in RecordAwaits /\ SessionOfRecord'.at \in RecordAwaits
  BY DEF SessionOfRecord, RecordAwaits
<1>4. /\ SessionOfRecord = [at |-> SessionOfRecord.at, seen |-> LiveRow,
                            new |-> SessionOfRecord.new, closed |-> FALSE]
      /\ SessionOfRecord' = [at |-> SessionOfRecord'.at, seen |-> LiveRow,
                             new |-> SessionOfRecord'.new, closed |-> FALSE]
  BY <1>1 DEF SessionOfRecord
<1>5. SessionOfRecord.new \in Record!RowType /\ SessionOfRecord'.new \in Record!RowType
  BY <1>1, <1>2 DEF SessionOfRecord
<1>6. ASSUME NEW at \in RecordAwaits, NEW new \in Record!RowType
      PROVE  [at |-> at, seen |-> LiveRow, new |-> new, closed |-> FALSE] \in RecordSessionType
  BY <1>1 DEF RecordSessionType
<1>7. QED
  BY <1>3, <1>4, <1>5, <1>6, Zenon

\* What is filed of a call whose outcome and state agree is one of the record's decisions.
LEMMA DecisionOfRecord ==
  ASSUME NEW s \in SessionType, s.state = "transfer" <=> s.outcome \in Transfers
  PROVE  /\ [outcome |-> FiledRow(Filing(s)).outcome,
             transferred |-> FiledRow(Filing(s)).transferred] \in Record!Decisions
         /\ FiledRow(Filing(s)).transferred = (s.state = "transfer")
<1>1. s.outcome \in Outcomes
  BY DEF SessionType
<1>2. QED
  BY <1>1 DEF Filing, FiledRow, Record!Decisions, Transfers, Outcomes

\* finalize_call finds the database session usable: it decides.
LEMMA DecideMaps ==
  ASSUME IInv, IInv', JInv, JInv', ~Decided, Decided', loop \notin {"failed"},
         loop' = "finalize", session' = session, online' = online,
         online => session.should_close
  PROVE  Record!Decide
<1>1. turn' = "idle" /\ CanRecord' /\ store.filed = NotFiled /\ store'.filed = NotFiled
  <2>1. loop \notin {"closed", "refused"} /\ loop' \notin {"closed", "refused"}
    BY DEF Decided
  <2>2. store.filed = NotFiled /\ store'.filed = NotFiled
    BY <2>1 DEF JInv, FilingInv
  <2>3. QED
    BY <2>2 DEF Decided, CanFinalize, IInv, LoopAlone
<1>2. loop \notin {"failed", "refused", "closed", "final_commit"}
  BY DEF Decided
<1>3. SessionOfRecord = [at |-> "live", seen |-> LiveRow, new |-> LiveRow, closed |-> FALSE]
  BY <1>2 DEF SessionOfRecord, Decided
<1> DEFINE filed == FiledRow(Filing(session))
           d == [outcome |-> filed.outcome, transferred |-> filed.transferred]
<1>4. d \in Record!Decisions /\ filed.transferred = (session.state = "transfer")
  <2>1. ~Spoiled'
    BY <1>1 DEF Spoiled, CanRecord
  <2>2. session'.state = "transfer" <=> session'.outcome \in Transfers
    BY <1>1, <2>1 DEF JInv, OutcomeInv
  <2>3. session \in SessionType
    BY DEF IInv, TypeOK
  <2>4. QED
    BY <2>2, <2>3, DecisionOfRecord
<1>5. SessionOfRecord' = [at |-> "finalize", seen |-> LiveRow, new |-> filed, closed |-> FALSE]
  BY DEF SessionOfRecord, FiledRow, LiveRow, Filing
<1>6. online => d.transferred
  BY <1>4 DEF IInv, ClosesOnlyToHandOver
<1>7. filed = [exists |-> TRUE, ended |-> TRUE, outcome |-> d.outcome,
               transferred |-> d.transferred]
  BY DEF FiledRow
<1>8. SessionOfRecord.at = "live" /\ SessionOfRecord.new.exists = TRUE
  BY <1>3 DEF LiveRow
<1> HIDE DEF d, filed
<1>9. SessionOfRecord' = [SessionOfRecord EXCEPT
        !.at = "finalize",
        !.new = [exists |-> SessionOfRecord.new.exists, ended |-> TRUE,
                 outcome |-> d.outcome, transferred |-> d.transferred]]
  <2>1. SessionOfRecord \in RecordSessionType /\ SessionOfRecord' \in RecordSessionType
    BY RecordSession
  <2>2. /\ SessionOfRecord'.seen = SessionOfRecord.seen
        /\ SessionOfRecord'.closed = SessionOfRecord.closed
        /\ SessionOfRecord'.at = "finalize" /\ SessionOfRecord'.new = filed
    BY <1>3, <1>5
  <2>3. SessionOfRecord' = [SessionOfRecord EXCEPT !.at = "finalize", !.new = filed]
    BY <2>1, <2>2 DEF RecordSessionType
  <2>4. QED
    BY <1>7, <1>8, <2>3, Zenon
<1>10. QED
  BY <1>1, <1>2, <1>4, <1>6, <1>8, <1>9 DEF Record!Decide, Record!Decided

\* The end begins: finalize_call decides, unless nothing can be recorded or the commit of the
\* turn that was cancelled is still going on.
LEMMA EndMaps ==
  ASSUME IInv, IInv', JInv, JInv', EndInv, loop \in Early, EndCall \/ TurnDrained \/ CancelTurn
  PROVE  [Record!Next]_Record!vars
<1>1. /\ loop' \in {"drain", "finalize"} /\ session' = session /\ online' = online
      /\ loop \in {"ending", "drain"}
  BY DEF EndCall, TurnDrained, CancelTurn, EndStep
<1>2. ~Decided /\ SessionOfRecord = [at |-> "live", seen |-> LiveRow, new |-> LiveRow,
                                     closed |-> FALSE]
  BY EarlyRecord
<1>3. CASE Decided'
  <2>1. loop' = "finalize" /\ CanRecord'
    BY <1>1, <1>3 DEF Decided, CanFinalize
  <2>2. online => session.should_close
    <3>1. turn = "idle" /\ ~CanRecord => ~CanRecord'
      BY DEF EndCall, TurnDrained, CancelTurn, CanRecord
    <3>2. QED
      BY <1>1, <2>1, <3>1 DEF EndInv
  <2>3. Record!Decide
    BY <1>1, <1>2, <1>3, <2>1, <2>2, DecideMaps
  <2>4. QED
    BY <2>3 DEF Record!Next, Record!SessionRuns
<1>4. CASE ~Decided'
  <2>1. SessionOfRecord' = SessionOfRecord
    BY <1>1, <1>2, <1>4 DEF SessionOfRecord
  <2>2. store.filed = NotFiled /\ store'.filed = NotFiled
    BY <1>1 DEF JInv, FilingInv
  <2>3. QED
    BY <1>1, <2>1, <2>2 DEF Record!vars, LiveRow
<1>5. QED
  BY <1>3, <1>4

\* The commit a cancelled turn left behind ends, and finalize_call may find the database
\* session usable after all.
LEMMA OrphanMaps ==
  ASSUME IInv, IInv', JInv, JInv', EndInv, OrphanCommits
  PROVE  [Record!Next]_Record!vars
<1>1. /\ store.orphan /\ loop \in {"finalize", "failed"} /\ UNCHANGED <<loop, session, online>>
      /\ turn = "idle"
  BY DEF OrphanCommits, EndStep, JInv, StoreInv, IInv, LoopAlone
<1>2. store.filed = NotFiled /\ store'.filed = NotFiled
  BY <1>1 DEF JInv, FilingInv
<1>3. ~Decided
  BY <1>1 DEF Decided, CanFinalize
<1>4. CASE Decided'
  <2>1. loop' = "finalize" /\ CanRecord'
    BY <1>1, <1>4 DEF Decided, CanFinalize
  <2>2. CanRecord
    <3>1. PICK s \in {Commit(store)} \cup CommitFails(store) : store' = [s EXCEPT !.orphan = FALSE]
      BY DEF OrphanCommits
    <3>2. store \in StoreType /\ s \in StoreType /\ s.loaded = store.loaded
      <4>1. store \in StoreType
        BY DEF IInv, TypeOK
      <4>2. s \in StoreType
        BY <3>1, <4>1, StoreOps
      <4>3. CASE s = Commit(store)
        BY <4>1, <4>2, <4>3, StoreFields
      <4>4. CASE s \in CommitFails(store)
        BY <4>1, <4>2, <4>4, StoreFields
      <4>5. QED
        BY <3>1, <4>1, <4>2, <4>3, <4>4
    <3>3. store'.loaded = store.loaded
      BY <3>1, <3>2 DEF StoreType
    <3>4. QED
      BY <1>1, <2>1, <3>3 DEF CanRecord, JInv, StoreInv
  <2>3. online => session.should_close
    BY <1>1, <2>1, <2>2 DEF EndInv
  <2>4. Record!Decide
    BY <1>1, <1>3, <1>4, <2>1, <2>3, DecideMaps
  <2>5. QED
    BY <2>4 DEF Record!Next, Record!SessionRuns
<1>5. CASE ~Decided'
  <2>1. SessionOfRecord' = SessionOfRecord
    BY <1>1, <1>3, <1>5 DEF SessionOfRecord, LiveRow
  <2>2. QED
    BY <1>1, <1>2, <2>1 DEF Record!vars, LiveRow
<1>6. QED
  BY <1>4, <1>5

\* finalize_call flushes what was decided.
LEMMA FinalizeMaps ==
  ASSUME IInv, JInv, JInv', Finalize
  PROVE  Record!SessionFlush
<1>1. /\ loop = "finalize" /\ loop' = "final_commit" /\ CanFinalize
      /\ UNCHANGED <<session, online>>
  BY DEF Finalize, EndStep
<1>2. store.filed = NotFiled /\ store'.filed = NotFiled
  BY <1>1 DEF JInv, FilingInv
<1>3. Decided /\ Decided'
  BY <1>1 DEF Decided
<1>4. SessionOfRecord = [at |-> "finalize", seen |-> LiveRow, new |-> FiledRow(Filing(session)),
                         closed |-> FALSE]
  BY <1>1, <1>3 DEF SessionOfRecord
<1>5. SessionOfRecord' = [at |-> "flushed", seen |-> LiveRow, new |-> FiledRow(Filing(session)),
                          closed |-> FALSE]
  BY <1>1, <1>3 DEF SessionOfRecord, FiledRow, Filing, LiveRow
<1>6. SessionOfRecord' = [SessionOfRecord EXCEPT !.at = "flushed"]
  <2>1. SessionOfRecord \in RecordSessionType /\ SessionOfRecord' \in RecordSessionType
    BY RecordSession
  <2>2. /\ SessionOfRecord'.seen = SessionOfRecord.seen
        /\ SessionOfRecord'.closed = SessionOfRecord.closed
        /\ SessionOfRecord'.new = SessionOfRecord.new
        /\ SessionOfRecord'.at = "flushed"
    BY <1>4, <1>5
  <2>3. QED
    BY <2>1, <2>2 DEF RecordSessionType
<1>7. SessionOfRecord.at = "finalize"
  BY <1>4
<1>8. QED
  BY <1>1, <1>2, <1>6, <1>7 DEF Record!SessionFlush, LiveRow

\* It raises, with nothing flushed: the session is dead to the record.
LEMMA RaiseMaps ==
  ASSUME IInv, JInv, JInv', FinalizeRaises
  PROVE  Record!SessionDies
<1>1. /\ loop = "finalize" /\ loop' = "failed" /\ UNCHANGED <<session, online>> /\ ~CanFinalize
  BY DEF FinalizeRaises, EndStep
<1>2. store.filed = NotFiled /\ store'.filed = NotFiled
  BY <1>1 DEF JInv, FilingInv
<1>3. ~Decided /\ ~Decided'
  BY <1>1 DEF Decided
<1>4. /\ SessionOfRecord.at = "live" /\ SessionOfRecord.seen = LiveRow
      /\ SessionOfRecord.new = LiveRow /\ SessionOfRecord.closed = FALSE
  BY <1>1, <1>3 DEF SessionOfRecord
<1>5. /\ SessionOfRecord'.at = "dead" /\ SessionOfRecord'.seen = LiveRow
      /\ SessionOfRecord'.new = LiveRow /\ SessionOfRecord'.closed = FALSE
  BY <1>1, <1>3 DEF SessionOfRecord, LiveRow
<1>6. SessionOfRecord' = [SessionOfRecord EXCEPT !.at = "dead"]
  BY <1>4, <1>5, RecordSession DEF RecordSessionType
<1>7. QED
  BY <1>1, <1>2, <1>4, <1>6 DEF Record!SessionDies, LiveRow

\* The flush or the commit is refused: the session is dead, and the row may have taken what
\* was flushed all the same.
LEMMA RefuseMaps ==
  ASSUME IInv, JInv, JInv', FilingRefused
  PROVE  Record!SessionDies
<1>1. /\ loop \in {"finalize", "final_commit"} /\ loop' = "refused"
      /\ UNCHANGED <<session, online>>
      /\ loop = "finalize" => CanFinalize
  BY DEF FilingRefused, EndStep
<1>2. store.filed = NotFiled
  BY <1>1 DEF JInv, FilingInv
<1>3. Decided /\ Decided'
  BY <1>1 DEF Decided
<1> DEFINE new == FiledRow(Filing(session))
<1>4. /\ SessionOfRecord.at = (IF loop = "finalize" THEN "finalize" ELSE "flushed")
      /\ SessionOfRecord.seen = LiveRow /\ SessionOfRecord.new = new
      /\ SessionOfRecord.closed = FALSE
  BY <1>1, <1>3 DEF SessionOfRecord
<1>5. /\ SessionOfRecord'.at = "dead" /\ SessionOfRecord'.seen = LiveRow
      /\ SessionOfRecord'.new = new /\ SessionOfRecord'.closed = FALSE
  BY <1>1, <1>3 DEF SessionOfRecord, FiledRow, Filing, LiveRow
<1>6. store'.filed = NotFiled \/ (loop = "final_commit" /\ store'.filed = Filing(session))
  <2>1. store \in StoreType
    BY DEF IInv, TypeOK
  <2>2. CASE store' = Rollback(Refused(store))
    <3>1. Refused(store) \in StoreType /\ Refused(store).filed = NotFiled
          /\ Refused(store).tx # "idle"
      BY <1>2, <2>1, StoreOps, StoreFields
    <3>2. QED
      BY <2>2, <3>1, StoreFields
  <2>3. CASE loop = "final_commit"
             /\ store' = Rollback(Refused([Commit(store) EXCEPT !.filed = Filing(session)]))
    <3>1. Filing(session) \in FilingType /\ Commit(store) \in StoreType
      BY <2>1, StoreOps DEF SessionType, Filing, FilingType, IInv, TypeOK
    <3>2. QED
      BY <2>3, <3>1 DEF Rollback, Refused, StoreType
  <2>4. QED
    BY <2>2, <2>3 DEF FilingRefused
<1>7. Record!Stored(LiveRow, LiveRow, new) = new
  BY DEF Record!Stored, LiveRow, FiledRow, Filing
<1>8. store'.filed = Filing(session) => FiledRow(store.filed)' = new /\ store'.filed # NotFiled
  BY FilingIsOne DEF FiledRow
<1> HIDE DEF new
<1>9. SessionOfRecord' = [SessionOfRecord EXCEPT !.at = "dead"]
  BY <1>4, <1>5, RecordSession DEF RecordSessionType
<1>10. LiveRow' = LiveRow
  BY DEF LiveRow
<1>11. QED
  BY <1>1, <1>2, <1>4, <1>6, <1>7, <1>8, <1>9, <1>10 DEF Record!SessionDies

\* The row takes what was flushed: all its columns, since nobody else has written any.
LEMMA CommitMaps ==
  ASSUME IInv, JInv, JInv', FinalCommit
  PROVE  Record!SessionCommit
<1>1. /\ loop = "final_commit" /\ loop' = "closed" /\ UNCHANGED <<session, online>>
  BY DEF FinalCommit, EndStep
<1>2. store.filed = NotFiled
  BY <1>1 DEF JInv, FilingInv
<1>3. Decided /\ Decided'
  BY <1>1 DEF Decided
<1>4. SessionOfRecord = [at |-> "flushed", seen |-> LiveRow, new |-> FiledRow(Filing(session)),
                         closed |-> FALSE]
  BY <1>1, <1>3 DEF SessionOfRecord
<1>5. SessionOfRecord' = [at |-> "committed", seen |-> LiveRow,
                          new |-> FiledRow(Filing(session)), closed |-> FALSE]
  BY <1>1, <1>3 DEF SessionOfRecord, FiledRow, Filing, LiveRow
<1>6. store'.filed = Filing(session) /\ store'.filed # NotFiled
  BY <1>1, FilingIsOne DEF JInv, FilingInv
<1>7. FiledRow(store.filed)' = FiledRow(Filing(session))
  BY <1>6 DEF FiledRow
<1>8. Record!Stored(LiveRow, LiveRow, FiledRow(Filing(session))) = FiledRow(Filing(session))
  BY DEF Record!Stored, LiveRow, FiledRow, Filing
<1>9. SessionOfRecord' = [SessionOfRecord EXCEPT !.at = "committed"]
  <2>1. SessionOfRecord \in RecordSessionType /\ SessionOfRecord' \in RecordSessionType
    BY RecordSession
  <2>2. /\ SessionOfRecord'.seen = SessionOfRecord.seen
        /\ SessionOfRecord'.closed = SessionOfRecord.closed
        /\ SessionOfRecord'.new = SessionOfRecord.new
        /\ SessionOfRecord'.at = "committed"
    BY <1>4, <1>5
  <2>3. QED
    BY <2>1, <2>2 DEF RecordSessionType
<1>10. /\ SessionOfRecord.at = "flushed" /\ SessionOfRecord.seen = LiveRow
       /\ SessionOfRecord.new = FiledRow(Filing(session))
  BY <1>4
<1>11. QED
  BY <1>1, <1>2, <1>6, <1>7, <1>8, <1>9, <1>10 DEF Record!SessionCommit

\* Every step of the session is a step of the record or changes nothing of it.
LEMMA StepMaps ==
  ASSUME IInv, IInv', JInv, JInv', EndInv, [Next]_vars
  PROVE  [Record!Next]_Record!vars
<1>1. CASE HangUp
  BY <1>1, HangUpMaps DEF Record!Next
<1>2. CASE loop \in Early /\ (EndCall \/ TurnDrained \/ CancelTurn)
  BY <1>2, EndMaps
<1>3. CASE loop \in Early /\ loop' \in Early /\ online' = online
  <2>1. SessionOfRecord' = SessionOfRecord
    BY <1>3, EarlyRecord DEF SessionOfRecord, Decided, Early, LiveRow
  <2>2. store.filed = NotFiled /\ store'.filed = NotFiled
    BY <1>3 DEF JInv, FilingInv, Early
  <2>3. QED
    BY <1>3, <2>1, <2>2 DEF Record!vars, Early, LiveRow
<1>4. CASE UNCHANGED <<loop, turn, session, store, online>>
  <2>1. SessionOfRecord' = SessionOfRecord
    BY <1>4 DEF SessionOfRecord, Decided, CanFinalize, CanRecord, FiledRow, Filing, LiveRow
  <2>2. QED
    BY <1>4, <2>1 DEF Record!vars, FiledRow, LiveRow
<1>5. CASE OrphanCommits
  BY <1>5, OrphanMaps
<1>6. CASE Finalize \/ FinalizeRaises \/ FinalCommit \/ FilingRefused
  BY <1>6, FinalizeMaps, RaiseMaps, CommitMaps, RefuseMaps DEF Record!Next, Record!SessionRuns
<1>7. QED
  <2>1. loop \in LoopAwaits
    BY DEF IInv, TypeOK
  <2>2. QED
    BY <1>1, <1>2, <1>3, <1>4, <1>5, <1>6, <2>1, EarlySteps, LateSteps

\* A call that begins is a row with an open stream.
LEMMA InitMaps == Init => Record!StreamOpen /\ EndInv
<1>1. Init => SessionOfRecord = [at |-> "live", seen |-> LiveRow, new |-> LiveRow,
                                 closed |-> FALSE]
  BY EarlyRecord DEF Init, Early, LoopAwaits
<1>2. QED
  BY <1>1 DEF Init, Record!StreamOpen, Record!NewRow, LiveRow, EndInv

\* The session implements what CallRecord takes it for: it files the call at most once, with
\* an outcome and a flag that agree, from the database session only finalize_call has left to
\* use; and it lets go of a caller who is there only by a decision to hand over or by dying.
THEOREM SessionImplementsRecord == Spec => ImplementsRecord
<1>1. IInv /\ IInv' /\ JInv /\ JInv' /\ EndInv /\ [Next]_vars => EndInv'
  BY EndInvKeeps
<1>2. IInv /\ IInv' /\ JInv /\ JInv' /\ EndInv /\ [Next]_vars => [Record!Next]_Record!vars
  BY StepMaps
<1>3. QED
  BY <1>1, <1>2, InitMaps, SessionInvariant, PTL DEF Spec, ImplementsRecord
=============================================================================
