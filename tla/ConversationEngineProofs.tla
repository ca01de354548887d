---------------------- MODULE ConversationEngineProofs ----------------------
(***************************************************************************)
(* Proofs about ConversationEngine, for every set of fields, values,       *)
(* utterances and profiles.  The steps of a turn all end in one of a few   *)
(* ways (Say, Await, ConnectCaller, PromptOrReadBack, IdentifyIntent), so  *)
(* the inductive invariant is proved preserved by each ending in a Sound   *)
(* context, and each action only has to reach its ending in one.           *)
(***************************************************************************)
EXTENDS ConversationEngine, TLAPS, SequenceTheorems

BookingStates == {"RESERVATION_COLLECTING", "RESERVATION_CONFIRMING"}
TransferStates == {"CONFIRM_TRANSFER", "TRANSFER_TO_HUMAN"}

\* What holds of every context a turn leaves behind.
Sound(c) ==
  /\ c \in ContextType
  /\ c.state \notin BookingStates => c.draft = EmptyDraft
  /\ c.transfer_reason # NoReason <=> c.state \in TransferStates
  /\ c.unclear_count >= MaxUnclear => c.state \in TransferStates

\* The inductive invariant.
IInv ==
  /\ TypeOK
  /\ Sound(ctx)
  /\ AwaitingAgreementToReadBack
  /\ AgreementAnswersItsQuestion
  /\ TurnBelongsToState
  /\ should_transfer => ctx.state = "TRANSFER_TO_HUMAN"

\* The untouched variables of every step but Init and Book.
Kept == UNCHANGED <<profile, bookings>>

-----------------------------------------------------------------------------
\* The empty draft, and the silence between turns, are values of their types.
LEMMA Defaults == EmptyDraft \in Drafts /\ Silence \in UtteranceType
  BY DEF EmptyDraft, Drafts, Silence, UtteranceType, Readings

\* What the word lists read in an utterance is a way to take it.
LEMMA ReadingsAreTakings ==
  ASSUME NEW m \in Utterances
  PROVE  m.reads \in Readings /\ m.reads \in Takings
  BY EngineAssumption DEF UtteranceType, Takings

\* A read-back recites details of the draft.
LEMMA RecitedType ==
  ASSUME TypeOK, NEW d \in Drafts
  PROVE  Recited(d) \in Drafts
  BY DEF Recited, Drafts

\* Speaking ends a turn in a state that satisfies the invariant, if what is said
\* asks for the answer that state waits for.
LEMMA SayKeepsIInv ==
  ASSUME IInv, NEW c, Sound(c), NEW kind \in Heard, Say(kind, c), Kept,
         c.state = "RESERVATION_CONFIRMING" =>
           /\ kind \in {"read_back", "ask_again", "trouble"}
           /\ Complete(c.draft) /\ read_back = Recited(c.draft),
         c.state = "CONFIRM_TRANSFER" => kind \in {"offer", "trouble"}
  PROVE  IInv'
<1> USE Defaults DEF IInv, Say, Kept
<1>1. TypeOK'
  BY DEF TypeOK, Sound, Takings
<1>2. Sound(ctx)'
  BY DEF Sound, ContextType, Drafts, EmptyDraft
<1>3. AwaitingAgreementToReadBack'
  BY DEF AwaitingAgreementToReadBack, Complete, Recited, Drafts
<1>4. AgreementAnswersItsQuestion'
  BY DEF AgreementAnswersItsQuestion
<1>5. TurnBelongsToState' /\ (should_transfer => ctx.state = "TRANSFER_TO_HUMAN")'
  BY DEF TurnBelongsToState
<1>6. QED
  BY <1>1, <1>2, <1>3, <1>4, <1>5

\* Suspending a turn keeps the invariant if the await belongs to the state.
LEMMA AwaitKeepsIInv ==
  ASSUME IInv, NEW c, Sound(c), NEW at \in Awaits, NEW m \in Utterances,
         NEW said \in Takings, Await(at, c, m, said), Kept,
         at \in {"classify", "hours", "faq"} => c.state = "IDENTIFY_INTENT",
         at \in {"extract_first", "extract_more", "side_question"} =>
           c.state = "RESERVATION_COLLECTING",
         at \in {"extract_correction", "read_agreement", "book"} =>
           c.state = "RESERVATION_CONFIRMING" /\ ~m.wants_out,
         at = "read_agreement" => m.reads = "neither",
         at = "book" => m.reads # "deny" /\ said = "confirm",
         at = "read_transfer" => c.state = "CONFIRM_TRANSFER",
         c.state = "RESERVATION_CONFIRMING" =>
           Complete(c.draft) /\ read_back = Recited(c.draft),
         should_transfer => c.state = "TRANSFER_TO_HUMAN"
  PROVE  IInv'
<1> USE Defaults DEF IInv, Await, Kept
<1>1. TypeOK'
  BY DEF TypeOK, Sound, Awaits, FallibleAwaits
<1>2. Sound(ctx)'
  BY DEF Sound, ContextType, Drafts, EmptyDraft
<1>3. AwaitingAgreementToReadBack'
  BY DEF AwaitingAgreementToReadBack, Complete, Recited, Drafts
<1>4. AgreementAnswersItsQuestion'
  BY DEF AgreementAnswersItsQuestion, Awaits, FallibleAwaits
<1>5. TurnBelongsToState' /\ (should_transfer => ctx.state = "TRANSFER_TO_HUMAN")'
  BY DEF TurnBelongsToState
<1>6. QED
  BY <1>1, <1>2, <1>3, <1>4, <1>5

\* Handing the caller over keeps the invariant.
LEMMA ConnectKeepsIInv ==
  ASSUME IInv, NEW c, Sound(c), NEW reason \in Reasons, reason # NoReason,
         NEW said \in Takings, c.state \notin BookingStates, ConnectCaller(c, reason, said), Kept
  PROVE  IInv'
<1> USE Defaults DEF IInv, ConnectCaller, Kept
<1>1. TypeOK'
  BY DEF TypeOK, Sound, ContextType, States, Heard
<1>2. Sound(ctx)'
  BY DEF Sound, ContextType, Drafts, EmptyDraft, States, BookingStates, TransferStates
<1>3. AwaitingAgreementToReadBack' /\ AgreementAnswersItsQuestion'
  BY DEF AwaitingAgreementToReadBack, AgreementAnswersItsQuestion, Sound, ContextType
<1>4. TurnBelongsToState' /\ (should_transfer => ctx.state = "TRANSFER_TO_HUMAN")'
  BY DEF TurnBelongsToState, Sound, ContextType
<1>5. QED
  BY <1>1, <1>2, <1>3, <1>4

\* Offering a person keeps the invariant.
LEMMA OfferKeepsIInv ==
  ASSUME IInv, NEW c, Sound(c), NEW reason \in OfferReasons,
         c.state \notin BookingStates, OfferTransfer(c, reason), Kept
  PROVE  IInv'
<1> DEFINE o == [c EXCEPT !.state = "CONFIRM_TRANSFER", !.transfer_reason = reason]
<1>1. Sound(o) /\ o.state = "CONFIRM_TRANSFER"
  BY DEF Sound, ContextType, States, Reasons, OfferReasons, NoReason, BookingStates,
         TransferStates
<1>2. Say("offer", o)
  BY DEF OfferTransfer
<1>3. "offer" \in Heard
  BY DEF Heard
<1> HIDE DEF o
<1>4. QED
  BY <1>1, <1>2, <1>3, SayKeepsIInv

\* Asking for the next detail, or reading the booking back, keeps the invariant.
LEMMA PromptKeepsIInv ==
  ASSUME IInv, NEW c, Sound(c), c.state \in BookingStates,
         c.state = "RESERVATION_CONFIRMING" => Complete(c.draft),
         PromptOrReadBack(c), Kept
  PROVE  IInv'
<1> USE Defaults DEF IInv, PromptOrReadBack, Kept
<1>1. TypeOK'
  <2>1. CASE ~Complete(c.draft)
    BY <2>1 DEF TypeOK, Sound, Heard, Takings
  <2>2. CASE Complete(c.draft)
    <3>1. Recited(c.draft) \in Drafts
      BY RecitedType DEF Sound, ContextType
    <3>2. QED
      BY <2>2, <3>1 DEF TypeOK, Sound, ContextType, States, Heard, Takings
  <2>3. QED
    BY <2>1, <2>2
<1>2. Sound(ctx)'
  BY DEF Sound, ContextType, Drafts, EmptyDraft, States, BookingStates, TransferStates
<1>3. AwaitingAgreementToReadBack'
  BY DEF AwaitingAgreementToReadBack, Complete, Recited, Drafts, Sound, ContextType
<1>4. AgreementAnswersItsQuestion'
  BY DEF AgreementAnswersItsQuestion, Sound, ContextType, BookingStates
<1>5. TurnBelongsToState' /\ (should_transfer => ctx.state = "TRANSFER_TO_HUMAN")'
  BY DEF TurnBelongsToState
<1>6. QED
  BY <1>1, <1>2, <1>3, <1>4, <1>5

\* Identifying an intent in a sound context of that state keeps the invariant.
LEMMA IdentifyKeepsIInv ==
  ASSUME IInv, ~should_transfer, NEW c, Sound(c), c.state = "IDENTIFY_INTENT",
         NEW m \in Utterances, IdentifyIntent(c, m), Kept
  PROVE  IInv'
<1> DEFINE popped == IF m.short /\ c.answered_something
                     THEN [c EXCEPT !.pending_question = "none"] ELSE c
           at == IF c.pending_question = "hours" THEN "hours" ELSE "faq"
<1>1. Sound(popped) /\ popped.state = "IDENTIFY_INTENT"
  BY DEF Sound, ContextType, Offers
<1>2. {"invite", "signoff"} \subseteq Heard /\ {at, "classify"} \subseteq Awaits
  BY DEF Heard, Awaits, FallibleAwaits
<1>3. \/ Say("invite", popped)
      \/ Await(at, popped, m, m.reads)
      \/ Say("signoff", popped)
      \/ Await("classify", popped, m, m.reads)
  BY DEF IdentifyIntent
<1>4. at \in {"hours", "faq"} /\ m.reads \in Takings
  BY ReadingsAreTakings
<1> HIDE DEF popped, at
<1>5. QED
  BY <1>1, <1>2, <1>3, <1>4, SayKeepsIInv, AwaitKeepsIInv

-----------------------------------------------------------------------------
\* The initial context satisfies the invariant.
LEMMA InitIInv == Init => IInv
<1> SUFFICES ASSUME Init PROVE IInv
  OBVIOUS
<1> USE Defaults, EngineAssumption DEF Init, IInv
<1>1. profile \in ProfileType
  OBVIOUS
<1>2. ctx \in ContextType
  BY <1>1 DEF ContextType, ProfileType, States, Offers, Reasons, NoReason
<1>3. TypeOK
  <2>1. bookings \in Seq(Drafts)
    OBVIOUS
  <2>2. pc \in Awaits \cup {"idle"} /\ heard \in Heard /\ taken \in Takings
    BY DEF Heard, Takings
  <2>3. QED
    BY <1>2, <2>1, <2>2 DEF TypeOK
<1>4. Sound(ctx)
  BY <1>2 DEF Sound, BookingStates, TransferStates, NoReason
<1>5. AwaitingAgreementToReadBack /\ AgreementAnswersItsQuestion /\ TurnBelongsToState
  BY DEF AwaitingAgreementToReadBack, AgreementAnswersItsQuestion, TurnBelongsToState
<1>6. QED
  BY <1>3, <1>4, <1>5

\* A classified intent that is about a booking.
LEMMA ReservationIntentKeepsIInv ==
  ASSUME IInv, ~should_transfer, NEW c, Sound(c), c.state = "IDENTIFY_INTENT",
         NEW m \in Utterances, ReservationIntent(c, m), Kept
  PROVE  IInv'
<1> DEFINE told == [c EXCEPT !.answered_something = TRUE]
           begun == [c EXCEPT !.state = "RESERVATION_COLLECTING"]
<1>1. Sound(told) /\ told.state = "IDENTIFY_INTENT"
  BY DEF Sound, ContextType
<1>2. Sound(begun) /\ begun.state = "RESERVATION_COLLECTING"
  BY EngineAssumption DEF Sound, ContextType, States, BookingStates, TransferStates
<1>3. \/ Say("answer", told)
      \/ OfferTransfer(c, "change_existing_reservation")
      \/ OfferTransfer(c, "reservation_request")
      \/ Await("extract_first", begun, m, m.reads)
  BY DEF ReservationIntent
<1>4. /\ "answer" \in Heard /\ "extract_first" \in Awaits
      /\ {"change_existing_reservation", "reservation_request"} \subseteq OfferReasons
      /\ c.state \notin BookingStates /\ m.reads \in Takings
  BY ReadingsAreTakings DEF Heard, Awaits, FallibleAwaits, OfferReasons, BookingStates
<1> HIDE DEF told, begun
<1>5. QED
  BY <1>1, <1>2, <1>3, <1>4, SayKeepsIInv, AwaitKeepsIInv, OfferKeepsIInv

\* A misunderstood turn: below the limit it is asked again, at the limit a person
\* is offered.
LEMMA UnclearIntentKeepsIInv ==
  ASSUME IInv, NEW c, Sound(c), c.state = "IDENTIFY_INTENT", UnclearIntent(c), Kept
  PROVE  IInv'
<1> DEFINE missed == [c EXCEPT !.unclear_count = @ + 1]
           o == [missed EXCEPT !.state = "CONFIRM_TRANSFER",
                               !.transfer_reason = "repeated_unclear"]
<1>1. c.unclear_count \in Nat /\ c.unclear_count < MaxUnclear /\ MaxUnclear \in Nat
  BY EngineAssumption DEF Sound, ContextType, TransferStates
<1>2. missed \in ContextType /\ missed.state = "IDENTIFY_INTENT"
  BY <1>1 DEF Sound, ContextType
<1>3. CASE missed.unclear_count >= MaxUnclear
  <2>1. Say("offer", o)
    BY <1>1, <1>3 DEF UnclearIntent, OfferTransfer
  <2>2. Sound(o) /\ o.state = "CONFIRM_TRANSFER"
    BY <1>2, <1>1 DEF Sound, ContextType, States, Reasons, OfferReasons, NoReason,
       BookingStates, TransferStates
  <2>3. "offer" \in Heard
    BY DEF Heard
  <2> HIDE DEF o
  <2>4. QED
    BY <2>1, <2>2, <2>3, SayKeepsIInv
<1>4. CASE missed.unclear_count < MaxUnclear
  <2>1. Say("clarify", missed)
    BY <1>1, <1>4 DEF UnclearIntent
  <2>2. Sound(missed)
    BY <1>1, <1>2, <1>4 DEF Sound, ContextType
  <2>3. "clarify" \in Heard
    BY DEF Heard
  <2> HIDE DEF missed
  <2>4. QED
    BY <1>2, <2>1, <2>2, <2>3, SayKeepsIInv
<1>5. QED
  BY <1>1, <1>2, <1>3, <1>4 DEF ContextType

\* Acting on the classified intent.
LEMMA ClassifyKeepsIInv == IInv /\ Classify => IInv'
<1> SUFFICES ASSUME IInv, Classify PROVE IInv'
  OBVIOUS
<1> DEFINE clear == [ctx EXCEPT !.unclear_count = 0]
           at == IF msg.hours THEN "hours" ELSE "faq"
<1>1. /\ Sound(ctx) /\ ctx.state = "IDENTIFY_INTENT" /\ ~should_transfer
      /\ ctx.state \notin BookingStates /\ Kept
  BY DEF IInv, Classify, TurnBelongsToState, Kept, BookingStates
<1>2. msg \in Utterances /\ msg.reads \in Takings /\ "person" \in Takings
  BY ReadingsAreTakings DEF IInv, TypeOK, Classify, Takings
<1>3. Sound(clear) /\ clear.state = "IDENTIFY_INTENT"
  BY <1>1, EngineAssumption DEF Sound, ContextType
<1>4. /\ {"out_of_scope", "smalltalk"} \subseteq Heard
      /\ {"escalation", "order_request"} \subseteq OfferReasons
      /\ at \in {"hours", "faq"} /\ at \in Awaits
      /\ "caller_requested_human" \in Reasons /\ "caller_requested_human" # NoReason
  BY DEF Heard, OfferReasons, Awaits, FallibleAwaits, Reasons, NoReason
<1>5. \/ OfferTransfer(ctx, "escalation")
      \/ Say("out_of_scope", clear)
      \/ Say("smalltalk", clear)
      \/ ConnectCaller(ctx, "caller_requested_human", "person")
      \/ OfferTransfer(ctx, "order_request")
      \/ ReservationIntent(clear, msg)
      \/ Await(at, clear, msg, msg.reads)
      \/ UnclearIntent(ctx)
  BY DEF Classify, RouteIntent, TakenAs
<1> HIDE DEF clear, at
<1>6. QED
  BY <1>1, <1>2, <1>3, <1>4, <1>5, SayKeepsIInv, AwaitKeepsIInv, OfferKeepsIInv,
     ConnectKeepsIInv, ReservationIntentKeepsIInv, UnclearIntentKeepsIInv

\* Answering from the opening hours or the knowledge base.
LEMMA AnswerKeepsIInv == IInv /\ (AnswerHours \/ AnswerFaq) => IInv'
<1> SUFFICES ASSUME IInv, AnswerHours \/ AnswerFaq PROVE IInv'
  OBVIOUS
<1>1. /\ Sound(ctx) /\ ctx.state = "IDENTIFY_INTENT" /\ ctx.state \notin BookingStates
      /\ Kept
  BY DEF IInv, AnswerHours, AnswerFaq, TurnBelongsToState, Kept, BookingStates
<1>2. "answer" \in Heard /\ "unknown_answer" \in OfferReasons
  BY DEF Heard, OfferReasons
<1>3. CASE AnswerHours
  <2> DEFINE told == [ctx EXCEPT !.answered_something = TRUE]
  <2>1. Sound(told) /\ told.state = "IDENTIFY_INTENT" /\ Say("answer", told)
    BY <1>1, <1>3 DEF Sound, ContextType, AnswerHours
  <2> HIDE DEF told
  <2>2. QED
    BY <1>1, <1>2, <2>1, SayKeepsIInv
<1>4. CASE OfferTransfer(ctx, "unknown_answer")
  BY <1>1, <1>2, <1>4, OfferKeepsIInv
<1>5. ASSUME NEW offer \in Offers,
             Say("answer",
                 [ctx EXCEPT !.answered_something = TRUE, !.pending_question = offer])
      PROVE  IInv'
  <2> DEFINE told == [ctx EXCEPT !.answered_something = TRUE, !.pending_question = offer]
  <2>1. Sound(told) /\ told.state = "IDENTIFY_INTENT"
    BY <1>1 DEF Sound, ContextType
  <2>2. Say("answer", told)
    BY <1>5
  <2> HIDE DEF told
  <2>3. QED
    BY <1>1, <1>2, <2>1, <2>2, SayKeepsIInv
<1>6. QED
  BY <1>3, <1>4, <1>5 DEF AnswerFaq

-----------------------------------------------------------------------------
\* The draft that extraction and prefilling produce is a draft, and complete if
\* it was.
LEMMA ExtractionFacts ==
  ASSUME NEW d \in Drafts, NEW e \in Extractions(d)
  PROVE  e \in Drafts /\ (Complete(d) => Complete(e))
  BY EngineAssumption DEF Extractions, Complete

LEMMA PrefillType ==
  ASSUME TypeOK, NEW d \in Drafts
  PROVE  Prefill(d) \in Drafts
  BY EngineAssumption DEF Prefill, Drafts, TypeOK, ProfileType

\* The first details of a booking.
LEMMA FirstDetailsKeepsIInv == IInv /\ FirstDetails => IInv'
<1> SUFFICES ASSUME IInv, FirstDetails PROVE IInv'
  OBVIOUS
<1>1. Sound(ctx) /\ ctx.state = "RESERVATION_COLLECTING" /\ Kept /\ ctx.draft \in Drafts
  BY DEF IInv, FirstDetails, TurnBelongsToState, Kept, Sound, ContextType
<1>2. PICK d \in Extractions(ctx.draft) :
        PromptOrReadBack([ctx EXCEPT !.draft = Prefill(d)])
  BY DEF FirstDetails
<1> DEFINE c == [ctx EXCEPT !.draft = Prefill(d)]
<1>3. Prefill(d) \in Drafts
  BY <1>1, ExtractionFacts, PrefillType DEF IInv
<1>4. Sound(c) /\ c.state = "RESERVATION_COLLECTING"
  BY <1>1, <1>3 DEF Sound, ContextType, BookingStates
<1> HIDE DEF c
<1>5. PromptOrReadBack(c)
  BY <1>2 DEF c
<1>6. QED
  BY <1>1, <1>4, <1>5, PromptKeepsIInv DEF BookingStates

\* Further details, and a question asked in the middle of a booking.
LEMMA MoreDetailsKeepsIInv == IInv /\ MoreDetails => IInv'
<1> SUFFICES ASSUME IInv, MoreDetails PROVE IInv'
  OBVIOUS
<1>1. /\ Sound(ctx) /\ ctx.state = "RESERVATION_COLLECTING" /\ Kept /\ ctx.draft \in Drafts
      /\ msg \in Utterances /\ ctx.state \in BookingStates
  BY DEF IInv, TypeOK, MoreDetails, TurnBelongsToState, Kept, Sound, ContextType,
     BookingStates
<1>2. PICK d \in Extractions(ctx.draft) :
        \/ PromptOrReadBack([ctx EXCEPT !.answered_something = TRUE])
        \/ Await("side_question", ctx, msg, msg.reads)
        \/ PromptOrReadBack([ctx EXCEPT !.draft = d])
  BY DEF MoreDetails
<1> DEFINE told == [ctx EXCEPT !.answered_something = TRUE]
           c == [ctx EXCEPT !.draft = d]
<1>3. Sound(told) /\ told.state = "RESERVATION_COLLECTING"
  BY <1>1 DEF Sound, ContextType
<1>4. Sound(c) /\ c.state = "RESERVATION_COLLECTING"
  BY <1>1, ExtractionFacts DEF Sound, ContextType
<1>5. "side_question" \in Awaits
  BY DEF Awaits, FallibleAwaits
<1>6. ~should_transfer /\ msg.reads \in Takings
  BY <1>1, ReadingsAreTakings DEF IInv
<1>7. \/ PromptOrReadBack(told)
      \/ Await("side_question", ctx, msg, msg.reads)
      \/ PromptOrReadBack(c)
  BY <1>2
<1> HIDE DEF told, c
<1>8. QED
  BY <1>1, <1>3, <1>4, <1>5, <1>6, <1>7, PromptKeepsIInv, AwaitKeepsIInv DEF BookingStates

\* The answer to that question.
LEMMA SideQuestionKeepsIInv == IInv /\ AnswerSideQuestion => IInv'
<1> SUFFICES ASSUME IInv, AnswerSideQuestion PROVE IInv'
  OBVIOUS
<1> DEFINE told == [ctx EXCEPT !.answered_something = TRUE]
<1>1. Sound(told) /\ told.state = "RESERVATION_COLLECTING" /\ Kept
  BY DEF IInv, AnswerSideQuestion, TurnBelongsToState, Kept, Sound, ContextType
<1>2. PromptOrReadBack(told)
  BY DEF AnswerSideQuestion
<1> HIDE DEF told
<1>3. QED
  BY <1>1, <1>2, PromptKeepsIInv DEF BookingStates

\* Acting on a yes, a no or neither in answer to the read-back.
LEMMA ActOnReadingKeepsIInv ==
  ASSUME IInv, ctx.state = "RESERVATION_CONFIRMING", msg \in Utterances, ~msg.wants_out,
         NEW reading \in Readings, reading = "confirm" => msg.reads # "deny",
         ActOnReading(reading), Kept
  PROVE  IInv'
<1> DEFINE back == [ctx EXCEPT !.state = "RESERVATION_COLLECTING"]
<1>1. /\ Sound(ctx) /\ ~should_transfer
      /\ Complete(ctx.draft) /\ read_back = Recited(ctx.draft)
  BY DEF IInv, AwaitingAgreementToReadBack
<1>2. Sound(back) /\ back.state = "RESERVATION_COLLECTING"
  BY <1>1 DEF Sound, ContextType, States, BookingStates, TransferStates
<1>3. /\ "book" \in Awaits /\ {"what_to_change", "ask_again"} \subseteq Heard
      /\ reading \in Takings
  BY DEF Awaits, FallibleAwaits, Heard, Takings
<1>4. \/ reading = "confirm" /\ Await("book", ctx, msg, reading)
      \/ Say("what_to_change", back)
      \/ Say("ask_again", ctx)
  BY DEF ActOnReading
<1> HIDE DEF back
<1>5. QED
  BY <1>1, <1>2, <1>3, <1>4, SayKeepsIInv, AwaitKeepsIInv

\* What the caller said to the read-back: a correction, or an answer.
LEMMA CorrectionKeepsIInv == IInv /\ (Correction \/ ReadAgreement) => IInv'
<1> SUFFICES ASSUME IInv, Correction \/ ReadAgreement PROVE IInv'
  OBVIOUS
<1>1. /\ Sound(ctx) /\ ctx.state = "RESERVATION_CONFIRMING" /\ Kept /\ ctx.draft \in Drafts
      /\ msg \in Utterances /\ ~msg.wants_out /\ msg.reads \in Readings /\ ~should_transfer
      /\ Complete(ctx.draft) /\ read_back = Recited(ctx.draft)
  BY EngineAssumption DEF IInv, TypeOK, Correction, ReadAgreement, TurnBelongsToState, Kept,
     Sound, ContextType, AwaitingAgreementToReadBack, UtteranceType
<1>2. CASE ReadAgreement
  <2>1. msg.reads = "neither"
    BY <1>2 DEF IInv, TurnBelongsToState, ReadAgreement
  <2>2. QED
    BY <1>1, <1>2, <2>1, ActOnReadingKeepsIInv DEF ReadAgreement
<1>3. CASE Correction
  <2>1. PICK d \in Extractions(ctx.draft) :
          \/ PromptOrReadBack([ctx EXCEPT !.draft = d])
          \/ ActOnReading(msg.reads)
          \/ msg.reads = "neither" /\ Await("read_agreement", ctx, msg, msg.reads)
    BY <1>3 DEF Correction
  <2> DEFINE c == [ctx EXCEPT !.draft = d]
  <2>2. Sound(c) /\ c.state = "RESERVATION_CONFIRMING" /\ Complete(c.draft)
    BY <1>1, ExtractionFacts DEF Sound, ContextType, BookingStates
  <2>3. "read_agreement" \in Awaits /\ msg.reads \in Takings
    BY <1>1, ReadingsAreTakings DEF Awaits
  <2>4. PromptOrReadBack(c) => IInv'
    <3> HIDE DEF c
    <3>1. QED
      BY <1>1, <2>2, PromptKeepsIInv DEF BookingStates
  <2>5. ActOnReading(msg.reads) => IInv'
    BY <1>1, ActOnReadingKeepsIInv
  <2>6. msg.reads = "neither" /\ Await("read_agreement", ctx, msg, msg.reads) => IInv'
    BY <1>1, <2>3, AwaitKeepsIInv
  <2>7. QED
    BY <2>1, <2>4, <2>5, <2>6
<1>4. QED
  BY <1>2, <1>3

\* A reservation row is written.
LEMMA BookKeepsIInv == IInv /\ Book => IInv'
<1> SUFFICES ASSUME IInv, Book PROVE IInv'
  OBVIOUS
<1> USE Defaults
<1>1. PICK rendered \in BOOLEAN :
        Say("booked", [ctx EXCEPT !.state = "IDENTIFY_INTENT", !.draft = EmptyDraft,
                                  !.known_reservation = rendered])
  BY DEF Book
<1>2. /\ Sound(ctx) /\ ctx.state = "RESERVATION_CONFIRMING" /\ ctx.draft \in Drafts
      /\ bookings' \in Seq(Drafts) /\ UNCHANGED profile
  BY DEF IInv, TypeOK, Book, TurnBelongsToState, Sound, ContextType
<1> DEFINE c == [ctx EXCEPT !.state = "IDENTIFY_INTENT", !.draft = EmptyDraft,
                            !.known_reservation = rendered]
<1>3. Sound(c) /\ c.state = "IDENTIFY_INTENT"
  BY <1>2 DEF Sound, ContextType, States, BookingStates, TransferStates
<1> HIDE DEF c
<1>4. /\ ctx' = c /\ pc' = "idle" /\ msg' = Silence /\ should_transfer' = FALSE
      /\ heard' = "booked" /\ read_back' = EmptyDraft /\ taken' = "nothing"
  BY <1>1, <1>3 DEF Say, c
<1>5. TypeOK'
  BY <1>2, <1>3, <1>4 DEF IInv, TypeOK, Sound, Heard, Takings
<1>6. Sound(ctx)'
  BY <1>3, <1>4 DEF Sound, ContextType, Drafts, EmptyDraft
<1>7. AwaitingAgreementToReadBack' /\ AgreementAnswersItsQuestion' /\ TurnBelongsToState'
  BY <1>3, <1>4 DEF AwaitingAgreementToReadBack, AgreementAnswersItsQuestion,
     TurnBelongsToState
<1>8. QED
  BY <1>4, <1>5, <1>6, <1>7 DEF IInv

\* Starting over from an abandoned booking, or from an offer off the table.
LEMMA StartingOver ==
  ASSUME NEW c, Sound(c)
  PROVE  /\ c.state \in BookingStates =>
              Sound(Abandoned(c)) /\ Abandoned(c).state = "IDENTIFY_INTENT"
         /\ c.state \notin BookingStates =>
              Sound(Dismissed(c)) /\ Dismissed(c).state = "IDENTIFY_INTENT"
<1>1. 0 \in 0 .. MaxUnclear /\ ~(0 >= MaxUnclear)
  BY EngineAssumption
<1>2. Abandoned(c) \in ContextType /\ Dismissed(c) \in ContextType
  BY <1>1, Defaults DEF Sound, Abandoned, Dismissed, ContextType, States, Reasons
<1>3. /\ Abandoned(c).state = "IDENTIFY_INTENT" /\ Dismissed(c).state = "IDENTIFY_INTENT"
      /\ Abandoned(c).draft = EmptyDraft /\ Dismissed(c).draft = c.draft
      /\ Abandoned(c).transfer_reason = c.transfer_reason
      /\ Dismissed(c).transfer_reason = NoReason
      /\ Abandoned(c).unclear_count = 0 /\ Dismissed(c).unclear_count = 0
  BY DEF Sound, Abandoned, Dismissed, ContextType
<1>4. "IDENTIFY_INTENT" \notin BookingStates \cup TransferStates
  BY DEF BookingStates, TransferStates
<1>5. c.state \in BookingStates => c.transfer_reason = NoReason
  BY DEF Sound, BookingStates, TransferStates
<1>6. c.state \notin BookingStates => c.draft = EmptyDraft
  BY DEF Sound
<1>7. QED
  BY <1>1, <1>2, <1>3, <1>4, <1>5, <1>6 DEF Sound

\* The classifier reads the reply to the offer of a person.
LEMMA TransferReplyKeepsIInv == IInv /\ ReadTransferReply => IInv'
<1> SUFFICES ASSUME IInv, ReadTransferReply PROVE IInv'
  OBVIOUS
<1>1. /\ Sound(ctx) /\ ctx.state = "CONFIRM_TRANSFER" /\ Kept /\ ~should_transfer
      /\ msg \in Utterances /\ ctx.state \notin BookingStates
      /\ ctx.transfer_reason \in Reasons /\ ctx.transfer_reason # NoReason
  BY DEF IInv, TypeOK, ReadTransferReply, TurnBelongsToState, Kept, Sound, ContextType,
     BookingStates, TransferStates
<1>2. Sound(Dismissed(ctx)) /\ Dismissed(ctx).state = "IDENTIFY_INTENT"
  BY <1>1, StartingOver
<1>3. "declined" \in Heard /\ Readings \subseteq Takings
  BY DEF Heard, Takings
<1>4. QED
  BY <1>1, <1>2, <1>3, ConnectKeepsIInv, SayKeepsIInv, IdentifyKeepsIInv
  DEF ReadTransferReply, DeclineTransfer

\* A turn begins.
LEMMA TurnKeepsIInv == ASSUME NEW m \in Utterances PROVE IInv /\ Turn(m) => IInv'
<1> SUFFICES ASSUME IInv, Turn(m) PROVE IInv'
  OBVIOUS
<1>1. Sound(ctx) /\ Kept
  BY DEF IInv, Turn, Kept
<1>2. /\ {"smalltalk", "offer", "declined", "connecting"} \subseteq Heard
      /\ {"extract_more", "book", "extract_correction", "read_transfer"} \subseteq Awaits
      /\ m.reads \in Takings
  BY ReadingsAreTakings DEF Heard, Awaits, FallibleAwaits
<1>3. CASE /\ ctx.state \in {"GREETING", "IDENTIFY_INTENT"}
           /\ IdentifyIntent([ctx EXCEPT !.state = "IDENTIFY_INTENT"], m)
  <2> DEFINE c == [ctx EXCEPT !.state = "IDENTIFY_INTENT"]
  <2>1. Sound(c) /\ c.state = "IDENTIFY_INTENT" /\ ~should_transfer
    BY <1>1, <1>3 DEF IInv, Sound, ContextType, States, BookingStates, TransferStates
  <2>2. IdentifyIntent(c, m)
    BY <1>3
  <2> HIDE DEF c
  <2>3. QED
    BY <1>1, <2>1, <2>2, IdentifyKeepsIInv
<1>4. CASE ctx.state = "RESERVATION_COLLECTING" /\ CollectingTurn(m)
  <2>1. /\ Sound(Abandoned(ctx)) /\ Abandoned(ctx).state = "IDENTIFY_INTENT"
        /\ ~should_transfer
    BY <1>1, <1>4, StartingOver DEF IInv, BookingStates
  <2>2. \/ Say("smalltalk", Abandoned(ctx))
        \/ IdentifyIntent(Abandoned(ctx), m)
        \/ Await("extract_more", ctx, m, m.reads)
    BY <1>4 DEF CollectingTurn
  <2>3. QED
    BY <1>1, <1>2, <1>4, <2>1, <2>2, SayKeepsIInv, IdentifyKeepsIInv, AwaitKeepsIInv
<1>5. CASE ctx.state = "RESERVATION_CONFIRMING" /\ ConfirmingTurn(m)
  <2>1. /\ Sound(Abandoned(ctx)) /\ Abandoned(ctx).state = "IDENTIFY_INTENT"
        /\ ~should_transfer
        /\ Complete(ctx.draft) /\ read_back = Recited(ctx.draft)
    BY <1>1, <1>5, StartingOver DEF IInv, BookingStates, AwaitingAgreementToReadBack
  <2>2. \/ IdentifyIntent(Abandoned(ctx), m)
        \/ ~m.wants_out /\ m.reads = "confirm" /\ Await("book", ctx, m, m.reads)
        \/ ~m.wants_out /\ Await("extract_correction", ctx, m, m.reads)
    BY <1>5 DEF ConfirmingTurn
  <2>3. QED
    BY <1>1, <1>2, <1>5, <2>1, <2>2, IdentifyKeepsIInv, AwaitKeepsIInv
<1>6. CASE ctx.state = "CONFIRM_TRANSFER" /\ ConfirmTransferTurn(m)
  <2>1. /\ Sound(Dismissed(ctx)) /\ Dismissed(ctx).state = "IDENTIFY_INTENT"
        /\ ~should_transfer /\ ctx.state \notin BookingStates
        /\ ctx.transfer_reason \in Reasons /\ ctx.transfer_reason # NoReason
    BY <1>1, <1>6, StartingOver DEF IInv, BookingStates, TransferStates, Sound, ContextType
  <2>2. \/ Say("offer", ctx)
        \/ m.reads = "confirm" /\ ConnectCaller(ctx, ctx.transfer_reason, m.reads)
        \/ Say("declined", Dismissed(ctx))
        \/ Await("read_transfer", ctx, m, m.reads)
        \/ IdentifyIntent(Dismissed(ctx), m)
    BY <1>6 DEF ConfirmTransferTurn, DeclineTransfer
  <2>3. QED
    BY <1>1, <1>2, <1>6, <2>1, <2>2, SayKeepsIInv, ConnectKeepsIInv, AwaitKeepsIInv,
       IdentifyKeepsIInv
<1>7. CASE ctx.state = "TRANSFER_TO_HUMAN" /\ Say("connecting", ctx)
  BY <1>1, <1>2, <1>7, SayKeepsIInv
<1>8. QED
  BY <1>3, <1>4, <1>5, <1>6, <1>7 DEF Turn

\* A turn that raises leaves the context as it is.
LEMMA RaiseKeepsIInv == IInv /\ TurnRaises => IInv'
<1> SUFFICES ASSUME IInv, TurnRaises PROVE IInv'
  OBVIOUS
<1> USE Defaults DEF IInv, TurnRaises
<1>1. TypeOK'
  BY DEF TypeOK, Heard, Takings
<1>2. Sound(ctx)'
  BY DEF Sound, ContextType, Drafts, EmptyDraft
<1>3. AwaitingAgreementToReadBack' /\ AgreementAnswersItsQuestion' /\ TurnBelongsToState'
  BY DEF AwaitingAgreementToReadBack, AgreementAnswersItsQuestion, TurnBelongsToState,
     Complete, Recited
<1>4. QED
  BY <1>1, <1>2, <1>3

-----------------------------------------------------------------------------
\* Every step of the engine preserves the invariant.
LEMMA NextKeepsIInv == IInv /\ [Next]_vars => IInv'
<1>1. IInv /\ UNCHANGED vars => IInv'
  BY DEF IInv, vars, TypeOK, Sound, ContextType, Drafts, EmptyDraft,
     AwaitingAgreementToReadBack, Complete, Recited, AgreementAnswersItsQuestion,
     TurnBelongsToState
<1>2. QED
  BY <1>1, TurnKeepsIInv, ClassifyKeepsIInv, AnswerKeepsIInv, FirstDetailsKeepsIInv,
     MoreDetailsKeepsIInv, SideQuestionKeepsIInv, CorrectionKeepsIInv, BookKeepsIInv,
     TransferReplyKeepsIInv, RaiseKeepsIInv DEF Next

\* The engine never leaves the inductive invariant.
THEOREM EngineInvariant == Spec => []IInv
  BY InitIInv, NextKeepsIInv, PTL DEF Spec

\* Type correctness, including that the UNCLEAR counter never passes its limit.
THEOREM EngineTypeOK == Spec => []TypeOK
<1>1. IInv => TypeOK
  BY DEF IInv
<1>2. QED
  BY <1>1, EngineInvariant, PTL

\* Details collected for one booking never survive it (engine.py, the exits of
\* the two booking states).
THEOREM NoStaleDraft == Spec => []DraftOnlyWhileBooking
<1>1. IInv => DraftOnlyWhileBooking
  BY DEF IInv, Sound, DraftOnlyWhileBooking, BookingStates
<1>2. QED
  BY <1>1, EngineInvariant, PTL

\* What the engine awaits a yes to is complete and was read back as it stands
\* (engine.py, _next_reservation_prompt and _handle_reservation_confirming).
THEOREM ReadBackIsCurrent == Spec => []AwaitingAgreementToReadBack
<1>1. IInv => AwaitingAgreementToReadBack
  BY DEF IInv
<1>2. QED
  BY <1>1, EngineInvariant, PTL

\* Rows are written only for what the caller agreed to (engine.py, _book).
THEOREM BookingIsAgreed == Spec => BookedOnlyAsAgreed
<1>1. IInv /\ [Next]_vars =>
        (bookings' # bookings =>
           /\ ctx.state = "RESERVATION_CONFIRMING"
           /\ bookings' = Append(bookings, ctx.draft)
           /\ Complete(ctx.draft)
           /\ \A f \in Spoken : ctx.draft[f] = read_back[f]
           /\ msg.reads # "deny"
           /\ ~msg.wants_out)
  <2> SUFFICES ASSUME IInv, [Next]_vars, bookings' # bookings
               PROVE  /\ ctx.state = "RESERVATION_CONFIRMING"
                      /\ bookings' = Append(bookings, ctx.draft)
                      /\ Complete(ctx.draft)
                      /\ \A f \in Spoken : ctx.draft[f] = read_back[f]
                      /\ msg.reads # "deny"
                      /\ ~msg.wants_out
    OBVIOUS
  <2>1. Book
    BY DEF vars, Next, Turn, Classify, AnswerHours, AnswerFaq, FirstDetails, MoreDetails,
       AnswerSideQuestion, Correction, ReadAgreement, ReadTransferReply, TurnRaises
  <2>2. /\ ctx.state = "RESERVATION_CONFIRMING" /\ Complete(ctx.draft)
        /\ bookings' = Append(bookings, ctx.draft)
        /\ msg.reads # "deny" /\ ~msg.wants_out
        /\ read_back = Recited(ctx.draft)
    BY <2>1 DEF Book, IInv, TurnBelongsToState, AwaitingAgreementToReadBack
  <2>3. \A f \in Spoken : ctx.draft[f] = read_back[f]
    BY <2>2, EngineAssumption DEF Recited
  <2>4. QED
    BY <2>2, <2>3
<1>2. QED
  BY <1>1, EngineInvariant, PTL DEF Spec, BookedOnlyAsAgreed

\* The outcome of the call is filed under a reason that is there exactly while a transfer
\* is offered or under way (engine.py, _offer_transfer and _handle_confirm_transfer).
THEOREM ReasonIsHeld == Spec => []ReasonWhileTransferring
<1>1. IInv => ReasonWhileTransferring
  BY DEF IInv, Sound, ReasonWhileTransferring, TransferStates
<1>2. QED
  BY <1>1, EngineInvariant, PTL

\* Whatever the limit, a caller who was not understood that often is offered a person
\* (engine.py, _route_intent).
THEOREM UnclearIsBounded == Spec => []UnclearCallerIsOffered
<1>1. IInv => UnclearCallerIsOffered
  BY DEF IInv, Sound, UnclearCallerIsOffered, TransferStates
<1>2. QED
  BY <1>1, EngineInvariant, PTL

\* Between turns, a yes that would book or connect answers the line spoken last
\* (engine.py, _handle_reservation_confirming and _handle_confirm_transfer).
THEOREM AnswersMeetQuestions == Spec => []AgreementAnswersItsQuestion
<1>1. IInv => AgreementAnswersItsQuestion
  BY DEF IInv
<1>2. QED
  BY <1>1, EngineInvariant, PTL

\* A suspended turn resumes in the state it was suspended in (engine.py, handle_turn).
THEOREM TurnsStayInState == Spec => []TurnBelongsToState
<1>1. IInv => TurnBelongsToState
  BY DEF IInv
<1>2. QED
  BY <1>1, EngineInvariant, PTL

-----------------------------------------------------------------------------
\* The states in which a yes books or connects.
AskingStates == {"RESERVATION_CONFIRMING", "CONFIRM_TRANSFER"}

\* What any step but Book does to the conversation, told apart by whether the caller has
\* been handed over: before, in this step, or not yet.  What the caller said counts for
\* the question that stood when they said it.
NotYet ==
  /\ ctx.state # "TRANSFER_TO_HUMAN" /\ ctx'.state # "TRANSFER_TO_HUMAN"
  /\ \/ taken' = "nothing"
     \/ ctx'.state \notin AskingStates
     \/ ctx'.state = ctx.state /\ read_back' = read_back
Already ==
  /\ ctx.state = "TRANSFER_TO_HUMAN" /\ ctx'.state = "TRANSFER_TO_HUMAN"
  /\ should_transfer' => should_transfer
InThisStep ==
  /\ ctx.state \in {"IDENTIFY_INTENT", "CONFIRM_TRANSFER"}
  /\ ctx'.state = "TRANSFER_TO_HUMAN" /\ should_transfer'
  /\ taken' = IF ctx.state = "IDENTIFY_INTENT" THEN "person" ELSE "confirm"

\* Every ending but ConnectCaller leaves the conversation where its context says.
LEMMA EndingsShape ==
  ASSUME ctx.state # "TRANSFER_TO_HUMAN", NEW c \in ContextType,
         c.state # "TRANSFER_TO_HUMAN", NEW kind, NEW at, NEW m, NEW said,
         c.state \in AskingStates => c.state = ctx.state,
         \/ Say(kind, c) \/ Await(at, c, m, said) \/ PromptOrReadBack(c) \/ IdentifyIntent(c, m)
  PROVE  NotYet
<1>1. ASSUME PromptOrReadBack(c) PROVE NotYet
  BY <1>1 DEF PromptOrReadBack, NotYet, ContextType
<1>2. ASSUME IdentifyIntent(c, m) PROVE NotYet
  BY <1>2 DEF IdentifyIntent, Say, Await, NotYet, ContextType
<1>3. QED
  BY <1>1, <1>2 DEF Say, Await, NotYet

\* An offer does so too: the person is not there yet.
LEMMA OfferShape ==
  ASSUME ctx.state # "TRANSFER_TO_HUMAN", NEW c \in ContextType, NEW reason,
         OfferTransfer(c, reason)
  PROVE  NotYet
BY DEF OfferTransfer, Say, NotYet, ContextType

\* Connecting the caller does it in this step.
LEMMA ConnectShape ==
  ASSUME ctx.state \in {"IDENTIFY_INTENT", "CONFIRM_TRANSFER"}, NEW c \in ContextType,
         NEW reason, NEW said, ConnectCaller(c, reason, said),
         said = IF ctx.state = "IDENTIFY_INTENT" THEN "person" ELSE "confirm"
  PROVE  InThisStep
BY DEF ConnectCaller, InThisStep, ContextType

\* The contexts turns end in are contexts, and in none of them the caller is handed over.
LEMMA DismissedShape ==
  ASSUME IInv
  PROVE  /\ Dismissed(ctx) \in ContextType /\ Dismissed(ctx).state = "IDENTIFY_INTENT"
         /\ Abandoned(ctx) \in ContextType /\ Abandoned(ctx).state = "IDENTIFY_INTENT"
<1>1. ctx \in ContextType
  BY DEF IInv, TypeOK
<1>2. /\ NoReason \in Reasons /\ EmptyDraft \in Drafts /\ "IDENTIFY_INTENT" \in States
      /\ 0 \in 0 .. MaxUnclear
  BY EngineAssumption, Defaults DEF Reasons, States
<1>3. QED
  BY <1>1, <1>2 DEF ContextType, Dismissed, Abandoned

\* The first step of a turn.
LEMMA TurnShape ==
  ASSUME IInv, NEW m \in Utterances, Turn(m)
  PROVE  NotYet \/ Already \/ InThisStep
<1> USE DismissedShape DEF AskingStates
<1>1. ctx \in ContextType
  BY DEF IInv, TypeOK
<1>2. CASE ctx.state \in {"GREETING", "IDENTIFY_INTENT"}
             /\ IdentifyIntent([ctx EXCEPT !.state = "IDENTIFY_INTENT"], m)
  <2>1. /\ [ctx EXCEPT !.state = "IDENTIFY_INTENT"] \in ContextType
        /\ [ctx EXCEPT !.state = "IDENTIFY_INTENT"].state = "IDENTIFY_INTENT"
    BY <1>1 DEF ContextType, States
  <2>2. QED
    BY <1>2, <2>1, EndingsShape
<1>3. CASE ctx.state = "RESERVATION_COLLECTING" /\ CollectingTurn(m)
  BY <1>1, <1>3, EndingsShape DEF CollectingTurn
<1>4. CASE ctx.state = "RESERVATION_CONFIRMING" /\ ConfirmingTurn(m)
  BY <1>1, <1>4, EndingsShape DEF ConfirmingTurn
<1>5. CASE ctx.state = "CONFIRM_TRANSFER" /\ ConfirmTransferTurn(m)
  BY <1>1, <1>5, EndingsShape, ConnectShape DEF ConfirmTransferTurn, DeclineTransfer
<1>6. CASE ctx.state = "TRANSFER_TO_HUMAN" /\ Say("connecting", ctx)
  BY <1>6 DEF Say, Already
<1>7. QED
  BY <1>2, <1>3, <1>4, <1>5, <1>6 DEF Turn

\* Classifying and routing a turn.
LEMMA ClassifyShape ==
  ASSUME IInv, Classify
  PROVE  NotYet \/ InThisStep
<1> USE DEF AskingStates
<1> DEFINE clear == [ctx EXCEPT !.unclear_count = 0]
<1> DEFINE missed == [ctx EXCEPT !.unclear_count = @ + 1]
<1>1. ctx \in ContextType /\ ctx.state = "IDENTIFY_INTENT"
  BY DEF IInv, TypeOK, TurnBelongsToState, Classify
<1>2. clear \in ContextType /\ clear.state = "IDENTIFY_INTENT"
  BY <1>1, EngineAssumption DEF ContextType
<1>3. /\ [clear EXCEPT !.answered_something = TRUE] \in ContextType
      /\ [clear EXCEPT !.answered_something = TRUE].state = "IDENTIFY_INTENT"
      /\ [clear EXCEPT !.state = "RESERVATION_COLLECTING"] \in ContextType
      /\ [clear EXCEPT !.state = "RESERVATION_COLLECTING"].state = "RESERVATION_COLLECTING"
  BY <1>2 DEF ContextType, States
<1>4. missed \in ContextType /\ missed.state = "IDENTIFY_INTENT"
  <2>1. ctx.unclear_count < MaxUnclear
    BY <1>1, EngineAssumption DEF IInv, Sound, TransferStates, ContextType
  <2>2. QED
    BY <1>1, <2>1, EngineAssumption DEF ContextType
<1>5. ASSUME ReservationIntent(clear, msg) PROVE NotYet
  BY <1>1, <1>2, <1>3, <1>5, EndingsShape, OfferShape DEF ReservationIntent
<1>6. ASSUME UnclearIntent(ctx) PROVE NotYet
  BY <1>1, <1>4, <1>6, EndingsShape, OfferShape DEF UnclearIntent
<1>7. \/ OfferTransfer(ctx, "escalation") \/ OfferTransfer(ctx, "order_request")
      \/ Say("out_of_scope", clear) \/ Say("smalltalk", clear)
      \/ \E at : Await(at, clear, msg, msg.reads)
      \/ ConnectCaller(ctx, "caller_requested_human", "person")
      \/ ReservationIntent(clear, msg)
      \/ UnclearIntent(ctx)
  BY DEF Classify, RouteIntent, TakenAs
<1> HIDE DEF clear, missed
<1>8. QED
  BY <1>1, <1>2, <1>5, <1>6, <1>7, EndingsShape, OfferShape, ConnectShape

\* The steps after the other awaits.
LEMMA RestShape ==
  ASSUME IInv,
         \/ AnswerHours \/ AnswerFaq \/ FirstDetails \/ MoreDetails \/ AnswerSideQuestion
         \/ Correction \/ ReadAgreement \/ ReadTransferReply \/ TurnRaises
  PROVE  NotYet \/ Already \/ InThisStep
<1> USE DismissedShape DEF AskingStates
<1>1. ctx \in ContextType
  BY DEF IInv, TypeOK
<1>2. \A d \in Drafts : /\ [ctx EXCEPT !.draft = d] \in ContextType
                       /\ [ctx EXCEPT !.draft = d].state = ctx.state
  BY <1>1 DEF ContextType
<1>3. /\ [ctx EXCEPT !.answered_something = TRUE] \in ContextType
      /\ [ctx EXCEPT !.answered_something = TRUE].state = ctx.state
  BY <1>1 DEF ContextType
<1>4. \A d \in Extractions(ctx.draft) : d \in Drafts /\ Prefill(d) \in Drafts
  BY <1>1, ExtractionFacts, PrefillType DEF IInv, ContextType
<1>5. CASE AnswerHours \/ AnswerFaq
  <2>1. ctx.state = "IDENTIFY_INTENT"
    BY <1>5 DEF AnswerHours, AnswerFaq, IInv, TurnBelongsToState
  <2>2. QED
    BY <1>1, <1>5, <2>1 DEF AnswerHours, AnswerFaq, Say, OfferTransfer, NotYet, ContextType
<1>6. CASE FirstDetails \/ MoreDetails \/ AnswerSideQuestion
  <2>1. ctx.state = "RESERVATION_COLLECTING"
    BY <1>6 DEF FirstDetails, MoreDetails, AnswerSideQuestion, IInv, TurnBelongsToState
  <2>2. QED
    BY <1>1, <1>2, <1>3, <1>4, <1>6, <2>1, EndingsShape
       DEF FirstDetails, MoreDetails, AnswerSideQuestion
<1>7. CASE Correction \/ ReadAgreement
  <2>1. ctx.state = "RESERVATION_CONFIRMING"
    BY <1>7 DEF Correction, ReadAgreement, IInv, TurnBelongsToState
  <2>2. ASSUME NEW reading, ActOnReading(reading) PROVE NotYet
    BY <1>1, <2>1, <2>2 DEF ActOnReading, Say, Await, NotYet, ContextType
  <2>3. QED
    BY <1>1, <1>2, <1>4, <1>7, <2>1, <2>2, EndingsShape DEF Correction, ReadAgreement
<1>8. CASE ReadTransferReply
  <2>1. ctx.state = "CONFIRM_TRANSFER"
    BY <1>8 DEF ReadTransferReply, IInv, TurnBelongsToState
  <2>2. QED
    BY <1>1, <1>8, <2>1, EndingsShape, ConnectShape DEF ReadTransferReply, DeclineTransfer
<1>9. CASE TurnRaises
  BY <1>9 DEF TurnRaises, NotYet, Already
<1>10. QED
  BY <1>5, <1>6, <1>7, <1>8, <1>9

\* Every step, Book included, is of one of the three shapes.
LEMMA StepShape ==
  ASSUME IInv, [Next]_vars
  PROVE  NotYet \/ Already \/ InThisStep
<1>1. ASSUME Book PROVE NotYet
  BY <1>1 DEF Book, Say, NotYet, IInv, TypeOK, ContextType, TurnBelongsToState
<1>2. ASSUME UNCHANGED vars PROVE NotYet \/ Already
  BY <1>2 DEF vars, NotYet, Already
<1>3. QED
  BY <1>1, <1>2, TurnShape, ClassifyShape, RestShape DEF Next

\* The caller is handed over at most once, and exactly the turn that enters
\* TRANSFER_TO_HUMAN tells the session so (engine.py, _transfer and
\* _handle_confirm_transfer; session.py closes the media stream on it).
THEOREM HandedOver == Spec => HandedOverOnce
<1>1. ASSUME IInv, IInv', [Next]_vars
      PROVE  /\ (should_transfer' /\ ~should_transfer) <=>
                  (ctx'.state = "TRANSFER_TO_HUMAN" /\ ctx.state # "TRANSFER_TO_HUMAN")
             /\ ctx.state = "TRANSFER_TO_HUMAN" => ctx'.state = "TRANSFER_TO_HUMAN"
  <2>1. NotYet \/ Already \/ InThisStep
    BY <1>1, StepShape
  <2>2. /\ should_transfer => ctx.state = "TRANSFER_TO_HUMAN"
        /\ should_transfer' => ctx'.state = "TRANSFER_TO_HUMAN"
    BY <1>1 DEF IInv
  <2>3. QED
    BY <2>1, <2>2 DEF NotYet, Already, InThisStep
<1>2. QED
  BY <1>1, EngineInvariant, PTL DEF Spec, HandedOverOnce

-----------------------------------------------------------------------------
(***************************************************************************)
(* The engine implements CallerConsent: the initial state maps to the      *)
(* initial state, and every step to a step of the abstract specification   *)
(* or to a stutter.  The shapes of the engine's steps (NotYet, Already,    *)
(* InThisStep) decide which one.                                           *)
(***************************************************************************)
SpokenDetails == [Spoken -> Values \cup {NoValue}]

-----------------------------------------------------------------------------
\* What is said aloud of a draft is what can be agreed to.
LEMMA AloudType == ASSUME NEW d \in Drafts PROVE Aloud(d) \in SpokenDetails
  BY EngineAssumption DEF Aloud, Drafts, SpokenDetails

\* The rows, each as it was read back.
LEMMA AloudRows ==
  ASSUME NEW s \in Seq(Drafts)
  PROVE  /\ [i \in 1 .. Len(s) |-> Aloud(s[i])] \in Seq(SpokenDetails)
         /\ Len([i \in 1 .. Len(s) |-> Aloud(s[i])]) = Len(s)
<1> DEFINE aloud == [i \in 1 .. Len(s) |-> Aloud(s[i])]
<1>1. Len(s) \in Nat /\ \A i \in 1 .. Len(s) : s[i] \in Drafts
  BY LenProperties, ElementOfSeq
<1>2. aloud \in [1 .. Len(s) -> SpokenDetails]
  BY <1>1, AloudType
<1>3. aloud \in Seq(SpokenDetails)
  BY <1>1, <1>2, SeqDef
<1>4. Len(aloud) = Len(s)
  BY <1>1, <1>2, <1>3, LenProperties
<1>5. QED
  BY <1>3, <1>4

\* A new row is said aloud after the others.
LEMMA AloudAppend ==
  ASSUME NEW s \in Seq(Drafts), NEW d \in Drafts, NEW t, t = Append(s, d)
  PROVE  [i \in 1 .. Len(t) |-> Aloud(t[i])]
           = Append([i \in 1 .. Len(s) |-> Aloud(s[i])], Aloud(d))
<1> DEFINE old == [i \in 1 .. Len(s) |-> Aloud(s[i])]
           new == [i \in 1 .. Len(t) |-> Aloud(t[i])]
           after == Append(old, Aloud(d))
<1>1. /\ t \in Seq(Drafts) /\ Len(t) = Len(s) + 1 /\ Len(s) \in Nat
      /\ \A i \in 1 .. Len(s) : t[i] = s[i]
      /\ t[Len(s) + 1] = d
  BY AppendProperties, LenProperties
<1>2. /\ old \in Seq(SpokenDetails) /\ Len(old) = Len(s)
      /\ new \in Seq(SpokenDetails) /\ Len(new) = Len(s) + 1
  BY <1>1, AloudRows
<1>3. /\ after \in Seq(SpokenDetails) /\ Len(after) = Len(s) + 1
      /\ \A i \in 1 .. Len(s) : after[i] = old[i]
      /\ after[Len(s) + 1] = Aloud(d)
  <2> HIDE DEF old
  <2>1. Aloud(d) \in SpokenDetails
    BY AloudType
  <2>2. QED
    BY <1>2, <2>1, AppendProperties
<1>4. ASSUME NEW i \in 1 .. Len(s) + 1 PROVE new[i] = after[i]
  <2>1. CASE i \in 1 .. Len(s)
    <3>1. after[i] = Aloud(s[i])
      <4>1. after[i] = old[i]
        BY <1>3, <2>1
      <4>2. old[i] = Aloud(s[i])
        BY <2>1
      <4>3. QED
        BY <4>1, <4>2
    <3>2. new[i] = Aloud(t[i])
      BY <1>1
    <3>3. QED
      BY <1>1, <2>1, <3>1, <3>2
  <2>2. CASE i = Len(s) + 1
    <3>1. new[i] = Aloud(t[i])
      BY <1>1
    <3>2. QED
      BY <1>1, <1>3, <2>2, <3>1
  <2>3. QED
    BY <1>1, <2>1, <2>2
<1>5. QED
  <2> HIDE DEF old, new, after
  <2>1. new = after
    BY <1>2, <1>3, <1>4, SeqEqual
  <2>2. QED
    BY <2>1 DEF old, new, after

-----------------------------------------------------------------------------
\* Bookings are written by _book alone.
LEMMA OnlyBookBooks ==
  ASSUME [Next]_vars, ~Book
  PROVE  bookings' = bookings
BY DEF vars, Next, Turn, Classify, AnswerHours, AnswerFaq, FirstDetails, MoreDetails,
   AnswerSideQuestion, Correction, ReadAgreement, ReadTransferReply, TurnRaises

\* What the caller has been asked is one of the things that can be asked.
LEMMA AskedNow ==
  ASSUME IInv
  PROVE  /\ ctx.state = "RESERVATION_CONFIRMING" =>
              AskedOfCaller = Consent!Proposal(Aloud(read_back))
         /\ ctx.state = "CONFIRM_TRANSFER" => AskedOfCaller = Consent!Transfer
         /\ ctx.state \notin {"RESERVATION_CONFIRMING", "CONFIRM_TRANSFER"} =>
              AskedOfCaller = Consent!Nothing
BY DEF AskedOfCaller, Consent!Proposal, Consent!Transfer, Consent!Nothing

\* And so it is after a step.
LEMMA AskedNext ==
  ASSUME IInv'
  PROVE  /\ ctx'.state = "RESERVATION_CONFIRMING" =>
              /\ AskedOfCaller' = Consent!Proposal(Aloud(read_back'))
              /\ Aloud(read_back') \in SpokenDetails
         /\ ctx'.state = "CONFIRM_TRANSFER" => AskedOfCaller' = Consent!Transfer
         /\ ctx'.state \notin {"RESERVATION_CONFIRMING", "CONFIRM_TRANSFER"} =>
              AskedOfCaller' = Consent!Nothing
<1>1. Aloud(read_back') \in SpokenDetails
  BY AloudType DEF IInv, TypeOK
<1>2. QED
  BY <1>1 DEF AskedOfCaller, Consent!Proposal, Consent!Transfer, Consent!Nothing, Aloud

\* A step before the caller is handed over puts something, or nothing, to them.
LEMMA NotYetAsks ==
  ASSUME IInv, IInv', NotYet, bookings' = bookings
  PROVE  Consent!Next
<1> USE DEF AskingStates
<1>1. CASE taken' # "nothing"
  <2>1. AskedOfCaller' = AskedOfCaller \/ AskedOfCaller' = Consent!Nothing
    <3>1. CASE ctx'.state \notin AskingStates
      BY <3>1, AskedNext
    <3>2. CASE ctx'.state = ctx.state /\ read_back' = read_back
      BY <3>2 DEF AskedOfCaller, Aloud, EmptyDraft
    <3>3. QED
      BY <1>1, <3>1, <3>2 DEF NotYet
  <2>2. taken' \in {"confirm", "deny", "neither", "person", "nothing"}
    BY DEF IInv, TypeOK, Takings, Readings
  <2>3. Consent!Hear
    BY <2>1, <2>2 DEF NotYet, Consent!Hear
  <2>4. QED
    BY <2>3 DEF Consent!Next
<1>2. CASE taken' = "nothing"
  <2>1. Consent!Ask(AskedOfCaller')
    BY <1>2 DEF NotYet, Consent!Ask
  <2>2. CASE ctx'.state = "RESERVATION_CONFIRMING"
    <3>1. /\ AskedOfCaller' = Consent!Proposal(Aloud(read_back'))
          /\ Aloud(read_back') \in SpokenDetails
      BY <2>2, AskedNext
    <3>2. QED
      BY <2>1, <3>1 DEF Consent!Next, SpokenDetails
  <2>3. CASE ctx'.state # "RESERVATION_CONFIRMING"
    <3>1. AskedOfCaller' = Consent!Transfer \/ AskedOfCaller' = Consent!Nothing
      BY <2>3, AskedNext
    <3>2. QED
      BY <2>1, <3>1 DEF Consent!Next
  <2>4. QED
    BY <2>2, <2>3
<1>3. QED
  BY <1>1, <1>2

\* A handover is a demand or an agreed offer.
LEMMA HandoverIsAgreed ==
  ASSUME IInv, IInv', InThisStep, bookings' = bookings
  PROVE  Consent!Next
<1>1. AskedOfCaller' = Consent!Nothing
  BY AskedNext DEF InThisStep
<1>2. CASE ctx.state = "IDENTIFY_INTENT"
  <2>1. AskedOfCaller = Consent!Nothing
    BY <1>2, AskedNow
  <2>2. Consent!DemandPerson
    BY <1>1, <1>2, <2>1 DEF InThisStep, Consent!DemandPerson
  <2>3. QED
    BY <2>2 DEF Consent!Next
<1>3. CASE ctx.state = "CONFIRM_TRANSFER"
  <2>1. AskedOfCaller = Consent!Transfer
    BY <1>3, AskedNow
  <2>2. Consent!AgreeToTransfer
    BY <1>1, <1>3, <2>1 DEF InThisStep, Consent!AgreeToTransfer
  <2>3. QED
    BY <2>2 DEF Consent!Next
<1>4. QED
  BY <1>2, <1>3 DEF InThisStep

\* The row _book writes is the booking as it was read back.
LEMMA BookIsAgreed ==
  ASSUME IInv, IInv', Book
  PROVE  Consent!Next
<1>1. /\ ctx.state = "RESERVATION_CONFIRMING" /\ ctx'.state = "IDENTIFY_INTENT"
      /\ ctx.draft \in Drafts /\ bookings \in Seq(Drafts)
      /\ read_back = Recited(ctx.draft)
      /\ bookings' = Append(bookings, ctx.draft)
      /\ taken = "confirm" /\ taken' = "nothing"
  BY DEF Book, Say, IInv, TypeOK, ContextType, TurnBelongsToState, AwaitingAgreementToReadBack
<1>2. AskedOfCaller = Consent!Proposal(Aloud(read_back)) /\ AskedOfCaller' = Consent!Nothing
  BY <1>1, AskedNow, AskedNext
<1>3. Aloud(ctx.draft) = Aloud(read_back)
  BY <1>1, EngineAssumption DEF Aloud, Recited, Drafts
<1>4. [i \in 1 .. Len(bookings') |-> Aloud(bookings'[i])]
        = Append([i \in 1 .. Len(bookings) |-> Aloud(bookings[i])], Aloud(ctx.draft))
  BY <1>1, AloudAppend
<1>5. AskedOfCaller.about = "booking" /\ AskedOfCaller.details = Aloud(read_back)
  BY <1>2 DEF Consent!Proposal
<1>6. Consent!AgreeToBooking
  BY <1>1, <1>2, <1>3, <1>4, <1>5 DEF Consent!AgreeToBooking, Aloud
<1>7. QED
  BY <1>6 DEF Consent!Next

\* The first state of a call maps to the first state of the promise.
LEMMA InitMaps == Init => Consent!Init
<1> SUFFICES ASSUME Init PROVE Consent!Init
  OBVIOUS
<1>1. ctx.state = "GREETING" /\ bookings = <<>> /\ taken = "nothing"
  BY DEF Init
<1>2. AskedOfCaller = Consent!Nothing
  BY <1>1 DEF AskedOfCaller, Consent!Nothing
<1>3. [i \in 1 .. Len(bookings) |-> Aloud(bookings[i])] = <<>>
  BY <1>1
<1>4. QED
  BY <1>1, <1>2, <1>3 DEF Consent!Init

\* Every step maps to a step or a stutter.
LEMMA StepMaps == IInv /\ IInv' /\ [Next]_vars => [Consent!Next]_Consent!vars
<1> SUFFICES ASSUME IInv, IInv', [Next]_vars PROVE [Consent!Next]_Consent!vars
  OBVIOUS
<1>1. CASE Book
  BY <1>1, BookIsAgreed
<1>2. CASE ~Book
  <2>1. bookings' = bookings
    BY <1>2, OnlyBookBooks
  <2>2. CASE NotYet
    BY <2>1, <2>2, NotYetAsks
  <2>3. CASE InThisStep
    BY <2>1, <2>3, HandoverIsAgreed
  <2>4. CASE Already
    <3>1. AskedOfCaller = Consent!Nothing /\ AskedOfCaller' = Consent!Nothing
      BY <2>4, AskedNow, AskedNext DEF Already
    <3>2. taken' \in {"confirm", "deny", "neither", "person", "nothing"}
      BY DEF IInv, TypeOK, Takings, Readings
    <3>3. Consent!Hear
      BY <2>1, <2>4, <3>1, <3>2 DEF Consent!Hear, Already
    <3>4. QED
      BY <3>3 DEF Consent!Next
  <2>5. QED
    BY <2>2, <2>3, <2>4, StepShape
<1>3. QED
  BY <1>1, <1>2

\* Tables are booked only as they were last put to the caller and on a yes given since,
\* and the call is handed over only on a yes to the offer or a wish for a person
\* (engine.py, _book, _transfer and _handle_confirm_transfer).
THEOREM EngineImplementsConsent == Spec => ImplementsConsent
  BY InitMaps, StepMaps, EngineInvariant, PTL DEF Spec, Consent!Spec, ImplementsConsent
-----------------------------------------------------------------------------
(***************************************************************************)
(* The engine implements EngineTurns.  Again each way a step can end is    *)
(* mapped once: speaking is a Reply, an await a Listen or a Query, and     *)
(* each action only has to reach its ending in a Sound context.            *)
(***************************************************************************)

\* What the session sees of a sound context: nothing offered, an offer with a reason, or a
\* call handed over.
ViewType ==
  [state : {"talking", "offering", "transfer"}, reason : Turns!Reasons \cup {"none"},
   answered : BOOLEAN]

LEMMA ViewOf ==
  ASSUME NEW c, Sound(c)
  PROVE  /\ SessionView(c) \in ViewType
         /\ SessionView(c).answered = c.answered_something
         /\ SessionView(c).state = "transfer" <=> c.state = "TRANSFER_TO_HUMAN"
         /\ SessionView(c).state = "offering" <=> c.state = "CONFIRM_TRANSFER"
         /\ SessionView(c).state # "talking" => SessionView(c).reason \in Turns!Reasons
         /\ SessionView(c).state = "talking" => SessionView(c).reason = "none"
<1>1. /\ c.state \in States /\ c.transfer_reason \in Reasons /\ c.answered_something \in BOOLEAN
      /\ c.transfer_reason # NoReason <=> c.state \in TransferStates
  BY DEF Sound, ContextType
<1> DEFINE v == SessionView(c)
<1>2. /\ v.state = CASE c.state = "CONFIRM_TRANSFER" -> "offering"
                     [] c.state = "TRANSFER_TO_HUMAN" -> "transfer"
                     [] OTHER -> "talking"
      /\ v.reason = CASE c.transfer_reason = NoReason -> "none"
                      [] c.transfer_reason \in {"order_request", "reservation_request"} ->
                           "routine"
                      [] c.transfer_reason = "escalation" -> "escalation"
                      [] OTHER -> "other"
      /\ v.answered = c.answered_something
  BY DEF SessionView
<1>3. /\ v.state = "transfer" <=> c.state = "TRANSFER_TO_HUMAN"
      /\ v.state = "offering" <=> c.state = "CONFIRM_TRANSFER"
      /\ v.state \in {"talking", "offering", "transfer"}
  BY <1>2
<1>4. /\ c.transfer_reason = NoReason => v.reason = "none"
      /\ c.transfer_reason # NoReason => v.reason \in {"routine", "escalation", "other"}
  BY <1>2 DEF NoReason
<1>5. v = [state |-> v.state, reason |-> v.reason, answered |-> v.answered]
  BY DEF SessionView
<1> HIDE DEF v
<1>6. v.reason \in Turns!Reasons \cup {"none"}
  BY <1>4 DEF Turns!Reasons, Turns!Routine
<1>7. v.state # "talking" <=> c.state \in TransferStates
  BY <1>1, <1>3 DEF TransferStates
<1>8. /\ v.state # "talking" => v.reason \in Turns!Reasons
      /\ v.state = "talking" => v.reason = "none"
  BY <1>1, <1>4, <1>7 DEF Turns!Reasons, Turns!Routine
<1>9. v \in ViewType
  BY <1>1, <1>2, <1>3, <1>5, <1>6 DEF ViewType
<1>10. QED
  BY <1>2, <1>3, <1>8, <1>9 DEF v

\* A context that a reply may leave behind.
LEMMA IsReply ==
  ASSUME NEW b, Sound(b), NEW c, Sound(c),
         b.state # "TRANSFER_TO_HUMAN", c.state # "TRANSFER_TO_HUMAN",
         c.answered_something \in {b.answered_something, TRUE}
  PROVE  SessionView(c) \in Turns!Replies(SessionView(b))
<1> DEFINE s == SessionView(b)
           v == SessionView(c)
           r == [state |-> v.state, answered |-> v.answered,
                 reason |-> IF v.state = "offering" THEN v.reason ELSE "other"]
<1>1. /\ s \in ViewType /\ s.state # "transfer" /\ s.answered = b.answered_something
      /\ v \in ViewType /\ v.state \in {"talking", "offering"}
      /\ v.answered = c.answered_something
      /\ v.state = "offering" => v.reason \in Turns!Reasons
      /\ v.state # "offering" => v.reason = "none"
  BY ViewOf DEF ViewType
<1> HIDE DEF s, v
<1>2. r \in [state : {"talking", "offering"}, reason : Turns!Reasons,
             answered : {s.answered, TRUE}]
  BY <1>1 DEF Turns!Reasons, Turns!Routine
<1>3. v = Turns!Replied(s, r)
  BY <1>1 DEF Turns!Replied, ViewType
<1>4. QED
  BY <1>1, <1>2, <1>3 DEF Turns!Replies, s, v

\* A context a turn may wait in: an offer stands as it was or is dismissed, and no new one
\* is made.
LEMMA IsListened ==
  ASSUME NEW b, Sound(b), NEW c, Sound(c),
         c = b \/ (b.state # "TRANSFER_TO_HUMAN" /\ c.state \notin TransferStates),
         c.answered_something = b.answered_something
  PROVE  SessionView(c) \in Turns!Listened(SessionView(b))
<1> DEFINE s == SessionView(b)
           v == SessionView(c)
<1>1. CASE c = b
  BY <1>1 DEF Turns!Listened
<1>2. CASE b.state # "TRANSFER_TO_HUMAN" /\ c.state \notin TransferStates
  <2>1. /\ s \in ViewType /\ s.state \in {"talking", "offering"}
        /\ s.state = "talking" => s.reason = "none"
        /\ v \in ViewType /\ v.state = "talking" /\ v.reason = "none"
        /\ v.answered = s.answered
    BY <1>2, ViewOf DEF ViewType, TransferStates
  <2> HIDE DEF s, v
  <2>2. v = Turns!Settled(s)
    BY <2>1 DEF Turns!Settled, ViewType
  <2>3. s.state = "talking" => v = s
    BY <2>1 DEF ViewType
  <2>4. QED
    BY <2>1, <2>2, <2>3 DEF Turns!Listened, s, v
<1>3. QED
  BY <1>1, <1>2

\* The turn waits for nothing, or for the models.
AtModels == pc \notin {"hours", "book"}

\* Saying anything but a confirmation of a booking is a reply.
LEMMA SayIsReply ==
  ASSUME IInv, AtModels, NEW c, Sound(c), NEW kind, Say(kind, c), Kept,
         kind \notin {"greeting", "booked", "trouble"},
         SessionView(c) \in Turns!Replies(SessionView(ctx))
  PROVE  Turns!Next
<1>1. /\ SessionView(ctx)' = SessionView(c) /\ pc' = "idle" /\ bookings' = bookings
      /\ LastResult' = "reply"
  BY DEF Say, Kept, SessionView, LastResult
<1>2. Turns!Reply
  BY <1>1 DEF Turns!Reply, Turns!Ends, AtModels
<1>3. QED
  BY <1>2 DEF Turns!Next

\* In particular if nobody has been handed over and nobody is.
LEMMA SayMaps ==
  ASSUME IInv, AtModels, NEW c, Sound(c), NEW kind, Say(kind, c), Kept,
         kind \notin {"greeting", "booked", "trouble"},
         ctx.state # "TRANSFER_TO_HUMAN", c.state # "TRANSFER_TO_HUMAN",
         c.answered_something \in {ctx.answered_something, TRUE}
  PROVE  Turns!Next
<1>1. SessionView(c) \in Turns!Replies(SessionView(ctx))
  BY IsReply DEF IInv
<1>2. QED
  BY <1>1, SayIsReply

\* Offering a person is a reply.
LEMMA OfferMaps ==
  ASSUME IInv, AtModels, NEW c, Sound(c), NEW reason \in OfferReasons,
         OfferTransfer(c, reason), Kept,
         ctx.state # "TRANSFER_TO_HUMAN", c.state \notin BookingStates,
         c.answered_something = ctx.answered_something
  PROVE  Turns!Next
<1> DEFINE o == [c EXCEPT !.state = "CONFIRM_TRANSFER", !.transfer_reason = reason]
<1>1. /\ Sound(o) /\ o.state = "CONFIRM_TRANSFER"
      /\ o.answered_something = c.answered_something
  BY DEF Sound, ContextType, States, Reasons, OfferReasons, NoReason, BookingStates,
         TransferStates
<1>2. Say("offer", o)
  BY DEF OfferTransfer
<1> HIDE DEF o
<1>3. QED
  BY <1>1, <1>2, SayMaps

\* Going on to an await is listening or querying.
LEMMA AwaitMaps ==
  ASSUME IInv, AtModels, NEW c, Sound(c), NEW at, NEW m, NEW said,
         Await(at, c, m, said), Kept,
         ctx.state # "TRANSFER_TO_HUMAN", c = ctx \/ c.state \notin TransferStates,
         c.answered_something = ctx.answered_something
  PROVE  Turns!Next
<1>1. /\ SessionView(ctx)' = SessionView(c) /\ pc' = at /\ bookings' = bookings
      /\ LastResult' = LastResult
  BY DEF Await, Kept, SessionView, LastResult
<1>2. SessionView(c) \in Turns!Listened(SessionView(ctx))
  BY IsListened DEF IInv
<1>3. SessionView(ctx).state # "transfer"
  BY ViewOf DEF IInv
<1>4. Turns!Listen \/ Turns!Query
  BY <1>1, <1>2, <1>3 DEF Turns!Listen, Turns!Query, AtModels
<1>5. QED
  BY <1>4 DEF Turns!Next

\* Asking for the next detail, or reading the booking back, is a reply.
LEMMA PromptMaps ==
  ASSUME IInv, AtModels, NEW c, Sound(c), c.state \in BookingStates, PromptOrReadBack(c), Kept,
         ctx.state # "TRANSFER_TO_HUMAN",
         c.answered_something \in {ctx.answered_something, TRUE}
  PROVE  Turns!Next
<1> DEFINE back == [c EXCEPT !.state = "RESERVATION_CONFIRMING"]
<1>1. /\ Sound(back) /\ back.state = "RESERVATION_CONFIRMING"
      /\ back.answered_something = c.answered_something
      /\ c.state # "TRANSFER_TO_HUMAN"
  BY DEF Sound, ContextType, States, BookingStates, TransferStates
<1>2. /\ ctx' \in {c, back} /\ heard' \in {"field_prompt", "read_back"} /\ pc' = "idle"
      /\ ~should_transfer' /\ bookings' = bookings
  BY DEF PromptOrReadBack, Kept
<1> HIDE DEF back
<1>3. SessionView(ctx') \in Turns!Replies(SessionView(ctx))
  BY <1>1, <1>2, IsReply DEF IInv
<1>4. SessionView(ctx)' = SessionView(ctx') /\ LastResult' = "reply"
  BY <1>2 DEF SessionView, LastResult
<1>5. Turns!Reply
  BY <1>2, <1>3, <1>4 DEF Turns!Reply, Turns!Ends, AtModels
<1>6. QED
  BY <1>5 DEF Turns!Next

\* Connecting the caller hands over, for the reason offered or at their own demand.
LEMMA ConnectMaps ==
  ASSUME IInv, AtModels, NEW reason, NEW said,
         ConnectCaller(ctx, reason, said), Kept,
         \/ ctx.state = "CONFIRM_TRANSFER" /\ reason = ctx.transfer_reason
         \/ ctx.state = "IDENTIFY_INTENT" /\ reason = "caller_requested_human"
  PROVE  Turns!Next
<1> DEFINE s == SessionView(ctx)
           v == SessionView(ctx')
<1>1. /\ ctx'.state = "TRANSFER_TO_HUMAN" /\ ctx'.transfer_reason = reason
      /\ ctx'.answered_something = ctx.answered_something
      /\ pc' = "idle" /\ should_transfer' /\ bookings' = bookings
  BY DEF ConnectCaller, Kept, IInv, Sound, ContextType
<1>2. /\ s \in ViewType
      /\ s.state = IF ctx.state = "CONFIRM_TRANSFER" THEN "offering" ELSE "talking"
  BY ViewOf DEF IInv, ViewType
<1>3. v.state = "transfer" /\ v.answered = s.answered
  BY <1>1 DEF SessionView
<1>4. v.reason = IF s.state = "offering" THEN s.reason ELSE "other"
  BY <1>1, <1>2 DEF SessionView, NoReason
<1>5. v = [state |-> v.state, reason |-> v.reason, answered |-> v.answered]
  BY DEF SessionView
<1>6. s.state # "transfer"
  BY <1>2
<1> HIDE DEF s, v
<1>7. v = [s EXCEPT !.state = "transfer", !.reason = IF s.state = "offering" THEN @ ELSE "other"]
  BY <1>2, <1>3, <1>4, <1>5 DEF ViewType
<1>8. v \in Turns!Connected(s)
  BY <1>6, <1>7 DEF Turns!Connected
<1>9. SessionView(ctx)' = v /\ LastResult' = "transfer"
  BY <1>1 DEF LastResult, SessionView, v
<1>10. Turns!Connect
  BY <1>1, <1>8, <1>9 DEF Turns!Connect, Turns!Ends, AtModels, s
<1>11. QED
  BY <1>10 DEF Turns!Next

\* Identifying an intent, the offer dismissed if there was one.
LEMMA IdentifyMaps ==
  ASSUME IInv, AtModels, ctx.state # "TRANSFER_TO_HUMAN", NEW c, Sound(c),
         c.state = "IDENTIFY_INTENT", c.answered_something = ctx.answered_something,
         NEW m, IdentifyIntent(c, m), Kept
  PROVE  Turns!Next
<1> DEFINE popped == IF m.short /\ c.answered_something
                     THEN [c EXCEPT !.pending_question = "none"] ELSE c
           at == IF c.pending_question = "hours" THEN "hours" ELSE "faq"
<1>1. /\ Sound(popped) /\ popped.state = "IDENTIFY_INTENT"
      /\ popped.answered_something = c.answered_something
  BY DEF Sound, ContextType, Offers
<1>2. \/ Say("invite", popped)
      \/ Await(at, popped, m, m.reads)
      \/ Say("signoff", popped)
      \/ Await("classify", popped, m, m.reads)
  BY DEF IdentifyIntent
<1> HIDE DEF popped, at
<1>3. popped.state \notin TransferStates
  BY <1>1 DEF TransferStates
<1>4. QED
  BY <1>1, <1>2, <1>3, SayMaps, AwaitMaps

\* The first step of a turn.
LEMMA TurnMaps ==
  ASSUME IInv, NEW m \in Utterances, Turn(m)
  PROVE  Turns!Next
<1>1. /\ Sound(ctx) /\ Kept /\ AtModels
  BY DEF IInv, Turn, Kept, AtModels
<1>2. CASE ctx.state \in {"GREETING", "IDENTIFY_INTENT"}
             /\ IdentifyIntent([ctx EXCEPT !.state = "IDENTIFY_INTENT"], m)
  <2> DEFINE c == [ctx EXCEPT !.state = "IDENTIFY_INTENT"]
  <2>1. /\ Sound(c) /\ c.state = "IDENTIFY_INTENT"
        /\ c.answered_something = ctx.answered_something
    BY <1>1, <1>2 DEF Sound, ContextType, States, BookingStates, TransferStates
  <2>2. IdentifyIntent(c, m)
    BY <1>2
  <2> HIDE DEF c
  <2>3. QED
    BY <1>1, <1>2, <2>1, <2>2, IdentifyMaps
<1>3. CASE ctx.state = "RESERVATION_COLLECTING" /\ CollectingTurn(m)
  <2>1. /\ Sound(Abandoned(ctx)) /\ Abandoned(ctx).state = "IDENTIFY_INTENT"
        /\ Abandoned(ctx).answered_something = ctx.answered_something
    BY <1>1, <1>3, StartingOver DEF BookingStates, Abandoned, Sound, ContextType
  <2>2. \/ Say("smalltalk", Abandoned(ctx))
        \/ IdentifyIntent(Abandoned(ctx), m)
        \/ Await("extract_more", ctx, m, m.reads)
    BY <1>3 DEF CollectingTurn
  <2>3. QED
    BY <1>1, <1>3, <2>1, <2>2, SayMaps, IdentifyMaps, AwaitMaps
<1>4. CASE ctx.state = "RESERVATION_CONFIRMING" /\ ConfirmingTurn(m)
  <2>1. /\ Sound(Abandoned(ctx)) /\ Abandoned(ctx).state = "IDENTIFY_INTENT"
        /\ Abandoned(ctx).answered_something = ctx.answered_something
    BY <1>1, <1>4, StartingOver DEF BookingStates, Abandoned, Sound, ContextType
  <2>2. \/ IdentifyIntent(Abandoned(ctx), m)
        \/ Await("book", ctx, m, m.reads)
        \/ Await("extract_correction", ctx, m, m.reads)
    BY <1>4 DEF ConfirmingTurn
  <2>3. QED
    BY <1>1, <1>4, <2>1, <2>2, IdentifyMaps, AwaitMaps
<1>5. CASE ctx.state = "CONFIRM_TRANSFER" /\ ConfirmTransferTurn(m)
  <2>1. /\ Sound(Dismissed(ctx)) /\ Dismissed(ctx).state = "IDENTIFY_INTENT"
        /\ Dismissed(ctx).answered_something = ctx.answered_something
    BY <1>1, <1>5, StartingOver DEF BookingStates, Dismissed, Sound, ContextType
  <2>2. \/ Say("offer", ctx)
        \/ m.reads = "confirm" /\ ConnectCaller(ctx, ctx.transfer_reason, m.reads)
        \/ Say("declined", Dismissed(ctx))
        \/ Await("read_transfer", ctx, m, m.reads)
        \/ IdentifyIntent(Dismissed(ctx), m)
    BY <1>5 DEF ConfirmTransferTurn, DeclineTransfer
  <2>3. QED
    BY <1>1, <1>5, <2>1, <2>2, SayMaps, ConnectMaps, AwaitMaps, IdentifyMaps
<1>6. CASE ctx.state = "TRANSFER_TO_HUMAN" /\ Say("connecting", ctx)
  <2>1. SessionView(ctx).state = "transfer"
    BY <1>1, <1>6, ViewOf
  <2>2. SessionView(ctx) \in Turns!Replies(SessionView(ctx))
    BY <2>1 DEF Turns!Replies
  <2>3. QED
    BY <1>1, <1>6, <2>2, SayIsReply
<1>7. QED
  BY <1>2, <1>3, <1>4, <1>5, <1>6 DEF Turn

\* Classifying and routing.
LEMMA ClassifyMaps ==
  ASSUME IInv, Classify
  PROVE  Turns!Next
<1> DEFINE clear == [ctx EXCEPT !.unclear_count = 0]
           missed == [ctx EXCEPT !.unclear_count = @ + 1]
           told == [clear EXCEPT !.answered_something = TRUE]
           begun == [clear EXCEPT !.state = "RESERVATION_COLLECTING"]
           at == IF msg.hours THEN "hours" ELSE "faq"
<1>1. /\ Sound(ctx) /\ ctx.state = "IDENTIFY_INTENT" /\ Kept /\ AtModels
      /\ ctx.state \notin BookingStates
  BY DEF IInv, Classify, TurnBelongsToState, Kept, AtModels, BookingStates
<1>2. /\ Sound(clear) /\ clear.state = "IDENTIFY_INTENT"
      /\ clear.answered_something = ctx.answered_something
  BY <1>1, EngineAssumption DEF Sound, ContextType
<1>3. Sound(told) /\ told.state = "IDENTIFY_INTENT" /\ told.answered_something = TRUE
  BY <1>2 DEF Sound, ContextType
<1>4. /\ Sound(begun) /\ begun.state = "RESERVATION_COLLECTING"
      /\ begun.answered_something = ctx.answered_something
  BY <1>2, EngineAssumption DEF Sound, ContextType, States, BookingStates, TransferStates
<1>5. /\ {"escalation", "order_request", "change_existing_reservation", "reservation_request",
          "repeated_unclear"} \subseteq OfferReasons
      /\ clear.state \notin BookingStates
      /\ clear.state \notin TransferStates /\ begun.state \notin TransferStates
  BY <1>2, <1>4 DEF OfferReasons, BookingStates, TransferStates
<1>6. ASSUME UnclearIntent(ctx) PROVE Turns!Next
  <2>1. ctx.unclear_count \in Nat /\ ctx.unclear_count < MaxUnclear /\ MaxUnclear \in Nat
    BY <1>1, EngineAssumption DEF Sound, ContextType, TransferStates
  <2>2. /\ missed \in ContextType /\ missed.state = "IDENTIFY_INTENT"
        /\ missed.answered_something = ctx.answered_something
        /\ missed.transfer_reason = ctx.transfer_reason /\ missed.draft = ctx.draft
    BY <1>1, <2>1 DEF Sound, ContextType
  <2>3. CASE missed.unclear_count >= MaxUnclear
    <3> DEFINE o == [missed EXCEPT !.state = "CONFIRM_TRANSFER",
                                   !.transfer_reason = "repeated_unclear"]
    <3>1. Say("offer", o)
      BY <1>6, <2>1, <2>3 DEF UnclearIntent, OfferTransfer
    <3>2. /\ Sound(o) /\ o.state = "CONFIRM_TRANSFER"
          /\ o.answered_something = ctx.answered_something
      BY <1>1, <2>1, <2>2 DEF Sound, ContextType, States, Reasons, OfferReasons, NoReason,
         BookingStates, TransferStates
    <3> HIDE DEF o
    <3>3. QED
      BY <1>1, <3>1, <3>2, SayMaps
  <2>4. CASE missed.unclear_count < MaxUnclear
    <3>1. Say("clarify", missed)
      BY <1>6, <2>1, <2>4 DEF UnclearIntent
    <3>2. Sound(missed)
      BY <1>1, <2>1, <2>2, <2>4 DEF Sound, ContextType
    <3> HIDE DEF missed
    <3>3. QED
      BY <1>1, <2>2, <3>1, <3>2, SayMaps
  <2>5. QED
    BY <2>1, <2>2, <2>3, <2>4 DEF ContextType
<1>7. ASSUME ReservationIntent(clear, msg) PROVE Turns!Next
  <2>1. \/ Say("answer", told)
        \/ OfferTransfer(clear, "change_existing_reservation")
        \/ OfferTransfer(clear, "reservation_request")
        \/ Await("extract_first", begun, msg, msg.reads)
    BY <1>7 DEF ReservationIntent
  <2> HIDE DEF clear, told, begun
  <2>2. QED
    BY <1>1, <1>2, <1>3, <1>4, <1>5, <2>1, SayMaps, OfferMaps, AwaitMaps
<1>8. \/ OfferTransfer(ctx, "escalation")
      \/ Say("out_of_scope", clear)
      \/ Say("smalltalk", clear)
      \/ ConnectCaller(ctx, "caller_requested_human", "person")
      \/ OfferTransfer(ctx, "order_request")
      \/ ReservationIntent(clear, msg)
      \/ Await(at, clear, msg, msg.reads)
      \/ UnclearIntent(ctx)
  BY DEF Classify, RouteIntent, TakenAs
<1> HIDE DEF clear, at
<1>9. QED
  BY <1>1, <1>2, <1>5, <1>6, <1>7, <1>8, SayMaps, OfferMaps, AwaitMaps, ConnectMaps

\* The answers.
LEMMA AnswerMaps ==
  ASSUME IInv, AnswerHours \/ AnswerFaq
  PROVE  Turns!Next
<1>1. Sound(ctx) /\ ctx.state = "IDENTIFY_INTENT" /\ ctx.state \notin BookingStates /\ Kept
  BY DEF IInv, AnswerHours, AnswerFaq, TurnBelongsToState, Kept, BookingStates
<1>2. CASE AnswerHours
  <2> DEFINE told == [ctx EXCEPT !.answered_something = TRUE]
             s == SessionView(ctx)
             v == SessionView(told)
  <2>1. /\ Sound(told) /\ told.state = "IDENTIFY_INTENT" /\ told.answered_something = TRUE
        /\ Say("answer", told)
    BY <1>1, <1>2 DEF Sound, ContextType, AnswerHours
  <2> HIDE DEF told
  <2>2. /\ s \in ViewType /\ v \in ViewType /\ v.answered = TRUE
        /\ v.state = "talking" /\ v.reason = "none"
    BY <1>1, <2>1, ViewOf DEF ViewType
  <2>3. /\ ctx' = told /\ pc' = "idle" /\ LastResult' = "reply" /\ bookings' = bookings
    BY <1>1, <2>1 DEF Say, Kept, LastResult
  <2>4. SessionView(ctx)' = v
    BY <2>3 DEF SessionView
  <2> HIDE DEF s, v
  <2>5. v = Turns!Informed(s)
    BY <2>2 DEF ViewType, Turns!Informed, Turns!Settled
  <2>6. Turns!Inform
    BY <1>2, <2>3, <2>4, <2>5 DEF Turns!Inform, Turns!Ends, AnswerHours, s
  <2>7. QED
    BY <2>6 DEF Turns!Next
<1>3. CASE AnswerFaq
  <2>1. AtModels /\ "unknown_answer" \in OfferReasons
    BY <1>3 DEF AnswerFaq, AtModels, OfferReasons
  <2>2. ASSUME NEW offer \in Offers,
               Say("answer",
                   [ctx EXCEPT !.answered_something = TRUE, !.pending_question = offer])
        PROVE  Turns!Next
    <3> DEFINE told == [ctx EXCEPT !.answered_something = TRUE, !.pending_question = offer]
    <3>1. Sound(told) /\ told.state = "IDENTIFY_INTENT" /\ told.answered_something = TRUE
      BY <1>1 DEF Sound, ContextType
    <3>2. Say("answer", told)
      BY <2>2
    <3> HIDE DEF told
    <3>3. QED
      BY <1>1, <2>1, <3>1, <3>2, SayMaps
  <2>3. QED
    BY <1>1, <1>3, <2>1, <2>2, OfferMaps DEF AnswerFaq
<1>4. QED
  BY <1>2, <1>3

\* Taking a booking, up to the read-back and the answer to it.
LEMMA BookingMaps ==
  ASSUME IInv,
         FirstDetails \/ MoreDetails \/ AnswerSideQuestion \/ Correction \/ ReadAgreement
  PROVE  Turns!Next
<1>1. /\ Sound(ctx) /\ ctx.state \in BookingStates /\ Kept /\ AtModels /\ ctx.draft \in Drafts
      /\ ctx.state # "TRANSFER_TO_HUMAN" /\ ctx.state \notin TransferStates
  BY DEF IInv, FirstDetails, MoreDetails, AnswerSideQuestion, Correction, ReadAgreement,
     TurnBelongsToState, Kept, AtModels, Sound, ContextType, BookingStates, TransferStates
<1> DEFINE told == [ctx EXCEPT !.answered_something = TRUE]
           back == [ctx EXCEPT !.state = "RESERVATION_COLLECTING"]
           With(d) == [ctx EXCEPT !.draft = d]
<1>2. Sound(told) /\ told.state = ctx.state /\ told.answered_something = TRUE
  BY <1>1 DEF Sound, ContextType
<1>3. /\ Sound(back) /\ back.state = "RESERVATION_COLLECTING"
      /\ back.answered_something = ctx.answered_something
  BY <1>1 DEF Sound, ContextType, States, BookingStates, TransferStates
<1>4. ASSUME NEW d \in Drafts
      PROVE  /\ Sound(With(d)) /\ With(d).state = ctx.state
             /\ With(d).answered_something = ctx.answered_something
  BY <1>1 DEF Sound, ContextType
<1>5. \A d \in Extractions(ctx.draft) : d \in Drafts /\ Prefill(d) \in Drafts
  BY <1>1, ExtractionFacts, PrefillType DEF IInv
<1>6. \/ \E d \in Drafts : PromptOrReadBack(With(d))
      \/ PromptOrReadBack(told)
      \/ \E at, said : at \notin {"hours"} /\ Await(at, ctx, msg, said)
      \/ Say("what_to_change", back)
      \/ Say("ask_again", ctx)
  <2>1. CASE FirstDetails \/ MoreDetails \/ AnswerSideQuestion
    BY <1>5, <2>1 DEF FirstDetails, MoreDetails, AnswerSideQuestion
  <2>2. ASSUME NEW reading, ActOnReading(reading)
        PROVE  \/ Await("book", ctx, msg, reading)
               \/ Say("what_to_change", back)
               \/ Say("ask_again", ctx)
    BY <2>2 DEF ActOnReading
  <2>3. CASE Correction
    BY <1>5, <2>2, <2>3 DEF Correction
  <2>4. CASE ReadAgreement
    BY <2>2, <2>4 DEF ReadAgreement
  <2>5. QED
    BY <2>1, <2>3, <2>4
<1> HIDE DEF told, back, With
<1>7. ASSUME NEW d \in Drafts, PromptOrReadBack(With(d)) PROVE Turns!Next
  BY <1>1, <1>4, <1>7, PromptMaps
<1>8. ASSUME NEW at, NEW said, Await(at, ctx, msg, said) PROVE Turns!Next
  BY <1>1, <1>8, AwaitMaps
<1>9. QED
  BY <1>1, <1>2, <1>3, <1>6, <1>7, <1>8, PromptMaps, SayMaps DEF BookingStates

\* The row is written, the state is left.
LEMMA BookMaps ==
  ASSUME IInv, Book
  PROVE  Turns!Next
<1>1. PICK rendered \in BOOLEAN :
        Say("booked", [ctx EXCEPT !.state = "IDENTIFY_INTENT", !.draft = EmptyDraft,
                                  !.known_reservation = rendered])
  BY DEF Book
<1> DEFINE c == [ctx EXCEPT !.state = "IDENTIFY_INTENT", !.draft = EmptyDraft,
                            !.known_reservation = rendered]
           s == SessionView(ctx)
           v == SessionView(c)
<1>2. /\ Sound(ctx) /\ ctx.state = "RESERVATION_CONFIRMING" /\ pc = "book"
      /\ ctx.draft \in Drafts /\ bookings \in Seq(Drafts)
      /\ bookings' = Append(bookings, ctx.draft)
  BY DEF IInv, TypeOK, Book, TurnBelongsToState, Sound, ContextType
<1>3. /\ Sound(c) /\ c.state = "IDENTIFY_INTENT"
      /\ c.answered_something = ctx.answered_something
  BY <1>2, Defaults DEF Sound, ContextType, States, BookingStates, TransferStates
<1> HIDE DEF c
<1>4. ctx' = c /\ pc' = "idle" /\ LastResult' = "booked"
  BY <1>1 DEF Say, c, LastResult
<1>5. /\ s \in ViewType /\ v \in ViewType /\ v.answered = s.answered
      /\ v.state = "talking" /\ v.reason = "none"
  BY <1>2, <1>3, ViewOf DEF ViewType
<1>6. SessionView(ctx)' = v
  BY <1>4 DEF SessionView
<1> HIDE DEF s, v
<1>7. v = Turns!Settled(s)
  BY <1>5 DEF ViewType, Turns!Settled
<1>8. Len(bookings)' = Len(bookings) + 1
  BY <1>2, AppendProperties
<1>9. Turns!Arrange
  BY <1>2, <1>4, <1>6, <1>7, <1>8 DEF Turns!Arrange, Turns!Ends, s
<1>10. QED
  BY <1>9 DEF Turns!Next

\* The reply to an offer, read by the model.
LEMMA TransferReplyMaps ==
  ASSUME IInv, ReadTransferReply
  PROVE  Turns!Next
<1>1. Sound(ctx) /\ ctx.state = "CONFIRM_TRANSFER" /\ Kept /\ AtModels
  BY DEF IInv, ReadTransferReply, TurnBelongsToState, Kept, AtModels
<1>2. /\ Sound(Dismissed(ctx)) /\ Dismissed(ctx).state = "IDENTIFY_INTENT"
      /\ Dismissed(ctx).answered_something = ctx.answered_something
  BY <1>1, StartingOver DEF BookingStates, Dismissed, Sound, ContextType
<1>3. \/ ConnectCaller(ctx, ctx.transfer_reason, "confirm")
      \/ Say("declined", Dismissed(ctx))
      \/ IdentifyIntent(Dismissed(ctx), msg)
  BY DEF ReadTransferReply, DeclineTransfer
<1>4. QED
  BY <1>1, <1>2, <1>3, ConnectMaps, SayMaps, IdentifyMaps

\* A turn that raises leaves the session with the context as it stood.
LEMMA RaiseMaps ==
  ASSUME IInv, TurnRaises
  PROVE  Turns!Next
<1>1. /\ Sound(ctx) /\ ctx' = ctx /\ pc' = "idle" /\ bookings' = bookings
      /\ LastResult' = "error"
  BY DEF IInv, TurnRaises, LastResult
<1>2. ctx.state # "TRANSFER_TO_HUMAN"
  BY DEF IInv, TurnRaises, TurnBelongsToState, FallibleAwaits
<1>3. SessionView(ctx).state # "transfer" /\ SessionView(ctx)' = SessionView(ctx)
  BY <1>1, <1>2, ViewOf DEF SessionView
<1>4. Turns!Raise
  BY <1>1, <1>3 DEF Turns!Raise, Turns!Ends
<1>5. QED
  BY <1>4 DEF Turns!Next

\* A call begins with nothing offered, nothing answered and no result.
LEMMA TurnsBegin == Init => Turns!Init
  BY DEF Init, Turns!Init, SessionView, LastResult, NoReason

\* Every step of the engine is a step of EngineTurns or a stutter.
LEMMA TurnsStep == IInv /\ [Next]_vars => [Turns!Next]_Turns!vars
<1>1. ASSUME UNCHANGED vars PROVE UNCHANGED Turns!vars
  BY <1>1 DEF vars, Turns!vars, SessionView, LastResult
<1>2. QED
  BY <1>1, TurnMaps, ClassifyMaps, AnswerMaps, BookingMaps, BookMaps, TransferReplyMaps,
     RaiseMaps DEF Next

\* The session is told of a handover, a booking and an answer exactly as the context and
\* the rows have them, and an offer is dismissed with its reason, whichever way a turn takes
\* through the engine and wherever it raises (engine.py, handle_turn; session.py,
\* _process_utterance and _update_outcome).
THEOREM EngineImplementsTurns == Spec => ImplementsTurns
  BY TurnsBegin, TurnsStep, EngineInvariant, PTL DEF Spec, Turns!Spec, ImplementsTurns
=============================================================================
