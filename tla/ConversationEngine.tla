------------------------- MODULE ConversationEngine -------------------------
(***************************************************************************)
(* The conversation state machine of one call (conversation/engine.py).    *)
(*                                                                         *)
(* A turn is ConversationEngine.handle_turn on one caller utterance.  The  *)
(* code between two awaits is one step; `pc` names the await the turn is   *)
(* suspended on ("idle" between turns), so that a raise at any await       *)
(* leaves exactly the context the code has written by then.  Utterances    *)
(* are abstracted to what the engine's word lists read in them; what the   *)
(* language model answers is a nondeterministic choice.                    *)
(***************************************************************************)
EXTENDS Integers, Sequences

CONSTANTS
  Fields,        \* the reservation details (state.py: ReservationDraft)
  Required,      \* those missing_fields() looks at
  Spoken,        \* those every read-back recites
  Phone,         \* the field that is recited only if it is the caller's number
  Values,        \* validated values of a field
  NoValue,       \* None
  Utterances,    \* what callers say, as read by the word lists
  Profiles,      \* what is known when the call starts
  MaxUnclear,    \* _MAX_UNCLEAR_BEFORE_ESCALATION
  MaxBookings    \* bound: reservations created on one call

Drafts == [Fields -> Values \cup {NoValue}]

\* No transfer reason.
NoReason == "none"
OfferReasons == {"escalation", "order_request", "repeated_unclear", "unknown_answer",
                 "change_existing_reservation", "reservation_request"}
Reasons == OfferReasons \cup {"caller_requested_human", NoReason}

States == {"GREETING", "IDENTIFY_INTENT", "RESERVATION_COLLECTING",
           "RESERVATION_CONFIRMING", "CONFIRM_TRANSFER", "TRANSFER_TO_HUMAN"}

Readings == {"confirm", "deny", "neither"}

\* The classifier's labels (intent.py, VALID_INTENTS).
Intents == {"OUT_OF_SCOPE", "SMALLTALK", "HUMAN", "ORDER", "RESERVATION", "FAQ", "UNCLEAR"}

\* How the words of a caller can have been taken: as an answer, as a wish for a
\* person; "nothing" once the assistant has spoken since.
Takings == Readings \cup {"person", "nothing"}

\* What the word lists of engine.py and smalltalk.py find in an utterance.
UtteranceType ==
  [reads : Readings, short : BOOLEAN, wants_out : BOOLEAN, farewell : BOOLEAN,
   question : BOOLEAN, identity : BOOLEAN, asks_existing : BOOLEAN,
   wants_change : BOOLEAN, hours : BOOLEAN]

\* The restaurant's booking policy, the caller's known details and past booking.
ProfileType == [collects : BOOLEAN, details : Drafts, booked_before : BOOLEAN]

\* The offer a grounded answer ended with: none, one about opening hours, another.
Offers == {"none", "hours", "topic"}

ASSUME EngineAssumption ==
  /\ Required \subseteq Fields
  /\ Spoken \subseteq Fields
  /\ Phone \in Fields
  /\ NoValue \notin Values
  /\ Utterances \subseteq UtteranceType
  /\ Profiles \subseteq ProfileType
  /\ MaxUnclear \in Nat \ {0}
  /\ MaxBookings \in Nat

VARIABLES
  profile,      \* fixed for the call
  ctx,          \* ConversationContext
  pc,           \* the await the turn in flight is suspended on
  msg,          \* the utterance of that turn
  should_transfer, \* TurnResult.should_transfer of the last turn
  bookings,     \* the reservation rows created on this call, oldest first
  heard,        \* history: what kind of line the caller heard last
  read_back,    \* history: the details recited in the read-back under discussion
  taken         \* history: how the caller's last words have been taken so far

vars == <<profile, ctx, pc, msg, should_transfer, bookings, heard, read_back, taken>>

EmptyDraft == [f \in Fields |-> NoValue]

Silence == [reads |-> "neither", short |-> FALSE, wants_out |-> FALSE,
            farewell |-> FALSE, question |-> FALSE, identity |-> FALSE,
            asks_existing |-> FALSE, wants_change |-> FALSE, hours |-> FALSE]

\* ReservationDraft.is_complete
Complete(d) == \A f \in Required : d[f] # NoValue

\* extract_reservation_fields: a validated value replaces the old one and
\* nothing already known is ever dropped.
Extractions(d) == {e \in Drafts : \A f \in Fields : d[f] # NoValue => e[f] # NoValue}

\* _prefill_known_caller_details
Prefill(d) == [f \in Fields |-> IF d[f] = NoValue THEN profile.details[f] ELSE d[f]]

\* _confirmation_text: the details a read-back recites.  A phone number is
\* mentioned only when it is the number the caller is calling from.
Recited(d) ==
  [f \in Fields |-> IF f \in Spoken \/ (f = Phone /\ d[f] = profile.details[f])
                    THEN d[f] ELSE NoValue]

-----------------------------------------------------------------------------
(* How a step of a turn ends: speaking (the turn is over) or at an await.   *)

\* _say: the turn ends with a line of the given kind, in context c.
Say(kind, c) ==
  /\ ctx' = c
  /\ heard' = kind
  /\ pc' = "idle"
  /\ msg' = Silence
  /\ should_transfer' = FALSE
  /\ read_back' = IF c.state = "RESERVATION_CONFIRMING" THEN read_back ELSE EmptyDraft
  /\ taken' = "nothing"

\* The turn goes on to the named await with context c, on what the caller said.
Await(at, c, m, said) ==
  /\ ctx' = c
  /\ pc' = at
  /\ msg' = m
  /\ taken' = said
  /\ UNCHANGED <<should_transfer, heard, read_back>>

\* _offer_transfer
OfferTransfer(c, reason) ==
  Say("offer", [c EXCEPT !.state = "CONFIRM_TRANSFER", !.transfer_reason = reason])

\* _transfer, and the agreed offer of _handle_confirm_transfer, on what the
\* caller said.
ConnectCaller(c, reason, said) ==
  /\ ctx' = [c EXCEPT !.state = "TRANSFER_TO_HUMAN", !.transfer_reason = reason]
  /\ heard' = "connecting"
  /\ pc' = "idle"
  /\ msg' = Silence
  /\ should_transfer' = TRUE
  /\ taken' = said
  /\ UNCHANGED read_back

\* _next_reservation_prompt: the next missing detail is asked for, or the whole
\* booking is read back.
PromptOrReadBack(c) ==
  /\ \/ /\ ~Complete(c.draft)
        /\ ctx' = c
        /\ heard' = "field_prompt"
        /\ UNCHANGED read_back
     \/ /\ Complete(c.draft)
        /\ ctx' = [c EXCEPT !.state = "RESERVATION_CONFIRMING"]
        /\ heard' = "read_back"
        /\ read_back' = Recited(c.draft)
  /\ pc' = "idle"
  /\ msg' = Silence
  /\ should_transfer' = FALSE
  /\ taken' = "nothing"

-----------------------------------------------------------------------------
(* Identifying what the caller wants.                                       *)

\* _answer_to_our_own_question applies and decides the turn.
AnswersOurQuestion(c, m) ==
  m.short /\ c.answered_something /\ m.reads # "neither"

\* _handle_identify_intent up to its first await.  A short reply pops the
\* pending offer even when it turns out to be neither a yes nor a no.
IdentifyIntent(c, m) ==
  LET popped == IF m.short /\ c.answered_something
                THEN [c EXCEPT !.pending_question = "none"] ELSE c
  IN  \/ /\ AnswersOurQuestion(c, m)
         /\ m.reads = "confirm"
         /\ c.pending_question = "none"
         /\ Say("invite", popped)
      \/ /\ AnswersOurQuestion(c, m)
         /\ m.reads = "confirm"
         /\ c.pending_question # "none"
         /\ Await(IF c.pending_question = "hours" THEN "hours" ELSE "faq", popped, m, m.reads)
      \/ /\ AnswersOurQuestion(c, m)
         /\ m.reads = "deny"
         /\ Say("signoff", popped)
      \/ /\ ~AnswersOurQuestion(c, m)
         /\ Await("classify", popped, m, m.reads)

\* The RESERVATION intent: _handle_reservation_intent up to its await.
ReservationIntent(c, m) ==
  \/ /\ c.known_reservation /\ m.asks_existing
     /\ Say("answer", [c EXCEPT !.answered_something = TRUE])
  \/ /\ ~(c.known_reservation /\ m.asks_existing)
     /\ m.wants_change
     /\ OfferTransfer(c, "change_existing_reservation")
  \/ /\ ~(c.known_reservation /\ m.asks_existing)
     /\ ~m.wants_change
     /\ ~profile.collects
     /\ OfferTransfer(c, "reservation_request")
  \/ /\ ~(c.known_reservation /\ m.asks_existing)
     /\ ~m.wants_change
     /\ profile.collects
     /\ Await("extract_first", [c EXCEPT !.state = "RESERVATION_COLLECTING"], m, m.reads)

\* The UNCLEAR intent, and every label the classifier garbled.
UnclearIntent(c) ==
  LET missed == [c EXCEPT !.unclear_count = @ + 1]
  IN  \/ /\ missed.unclear_count >= MaxUnclear
         /\ OfferTransfer(missed, "repeated_unclear")
      \/ /\ missed.unclear_count < MaxUnclear
         /\ Say("clarify", missed)

\* What the caller is after by the classifier's label: a person, unless they only
\* asked whether they are talking to one.
TakenAs(intent, m) == IF intent = "HUMAN" /\ ~m.identity THEN "person" ELSE m.reads

\* _route_intent
RouteIntent(c, m, intent) ==
  LET clear == [c EXCEPT !.unclear_count = 0]
  IN  \/ /\ intent = "OUT_OF_SCOPE"
         /\ Say("out_of_scope", clear)
      \/ /\ intent = "SMALLTALK" \/ (intent = "HUMAN" /\ m.identity)
         /\ Say("smalltalk", clear)
      \/ /\ intent = "HUMAN" /\ ~m.identity
         /\ ConnectCaller(c, "caller_requested_human", TakenAs(intent, m))
      \/ /\ intent = "ORDER"
         /\ OfferTransfer(c, "order_request")
      \/ /\ intent = "RESERVATION"
         /\ ReservationIntent(clear, m)
      \/ /\ intent = "FAQ"
         /\ Await(IF m.hours THEN "hours" ELSE "faq", clear, m, m.reads)
      \/ /\ intent = "UNCLEAR"
         /\ UnclearIntent(c)

\* should_escalate and classify_intent both came back; escalation wins.
Classify ==
  /\ pc = "classify"
  /\ \/ OfferTransfer(ctx, "escalation")
     \/ \E intent \in Intents : RouteIntent(ctx, msg, intent)
  /\ UNCHANGED <<profile, bookings>>

\* _handle_faq, opening hours.
AnswerHours ==
  /\ pc = "hours"
  /\ Say("answer", [ctx EXCEPT !.answered_something = TRUE])
  /\ UNCHANGED <<profile, bookings>>

\* _handle_faq, knowledge base: a grounded answer may end with an offer.
AnswerFaq ==
  /\ pc = "faq"
  /\ \/ OfferTransfer(ctx, "unknown_answer")
     \/ \E offer \in Offers :
          Say("answer", [ctx EXCEPT !.answered_something = TRUE, !.pending_question = offer])
  /\ UNCHANGED <<profile, bookings>>

-----------------------------------------------------------------------------
(* Taking a booking.                                                        *)

\* _handle_reservation_intent after its await.
FirstDetails ==
  /\ pc = "extract_first"
  /\ \E d \in Extractions(ctx.draft) : PromptOrReadBack([ctx EXCEPT !.draft = Prefill(d)])
  /\ UNCHANGED <<profile, bookings>>

\* (mutant: the half-collected booking is kept)
Abandoned_KeepsDraft(c) == [c EXCEPT !.state = "IDENTIFY_INTENT", !.unclear_count = 0]

\* _abandon_reservation before it re-runs intent, and a farewell: the
\* half-collected booking is dropped.
Abandoned(c) == [c EXCEPT !.draft = EmptyDraft, !.state = "IDENTIFY_INTENT",
                          !.unclear_count = 0]

\* _handle_reservation_collecting up to its first await.
CollectingTurn(m) ==
  \/ /\ m.farewell
     /\ Say("smalltalk", Abandoned(ctx))
  \/ /\ ~m.farewell
     /\ m.wants_out
     /\ IdentifyIntent(Abandoned(ctx), m)
  \/ /\ ~m.farewell
     /\ ~m.wants_out
     /\ Await("extract_more", ctx, m, m.reads)

\* _handle_reservation_collecting after the extraction.  A question that
\* changed nothing is answered before the booking goes on.
MoreDetails ==
  /\ pc = "extract_more"
  /\ \E d \in Extractions(ctx.draft) :
       IF d = ctx.draft /\ msg.question
       THEN IF ctx.known_reservation /\ msg.asks_existing
            THEN PromptOrReadBack([ctx EXCEPT !.answered_something = TRUE])
            ELSE Await("side_question", ctx, msg, msg.reads)
       ELSE PromptOrReadBack([ctx EXCEPT !.draft = d])
  /\ UNCHANGED <<profile, bookings>>

\* _answer_without_losing_the_booking: an answer, or "I don't have that one
\* to hand", and the booking goes on in the same breath.
AnswerSideQuestion ==
  /\ pc = "side_question"
  /\ PromptOrReadBack([ctx EXCEPT !.answered_something = TRUE])
  /\ UNCHANGED <<profile, bookings>>

\* (mutant: a short yes is acted on before the wish to leave is looked for)
ConfirmingTurn_YesFirst(m) ==
  \/ m.short /\ m.reads = "confirm" /\ Await("book", ctx, m, m.reads)
  \/ /\ ~(m.short /\ m.reads = "confirm")
     /\ IF m.wants_out THEN IdentifyIntent(Abandoned(ctx), m)
        ELSE Await("extract_correction", ctx, m, m.reads)

\* _handle_reservation_confirming up to its first await.
ConfirmingTurn(m) ==
  \/ /\ m.wants_out
     /\ IdentifyIntent(Abandoned(ctx), m)
  \/ /\ ~m.wants_out
     /\ m.short /\ m.reads = "confirm"
     /\ Await("book", ctx, m, m.reads)
  \/ /\ ~m.wants_out
     /\ ~(m.short /\ m.reads = "confirm")
     /\ Await("extract_correction", ctx, m, m.reads)

\* The caller's answer to the read-back, once it is known to change nothing.
ActOnReading(reading) ==
  \/ /\ reading = "confirm"
     /\ Await("book", ctx, msg, reading)
  \/ /\ reading = "deny"
     /\ Say("what_to_change", [ctx EXCEPT !.state = "RESERVATION_COLLECTING"])
  \/ /\ reading = "neither"
     /\ Say("ask_again", ctx)

\* _handle_reservation_confirming after the extraction.
Correction ==
  /\ pc = "extract_correction"
  /\ \E d \in Extractions(ctx.draft) :
       IF d # ctx.draft THEN PromptOrReadBack([ctx EXCEPT !.draft = d])
       ELSE IF msg.reads # "neither" THEN ActOnReading(msg.reads)
       ELSE Await("read_agreement", ctx, msg, msg.reads)
  /\ UNCHANGED <<profile, bookings>>

\* read_confirmation on an answer to the read-back.
ReadAgreement ==
  /\ pc = "read_agreement"
  /\ \E reading \in Readings : ActOnReading(reading)
  /\ UNCHANGED <<profile, bookings>>

\* (mutant: the booking state is not left)
Book_StaysConfirming ==
  /\ pc = "book"
  /\ Len(bookings) < MaxBookings
  /\ bookings' = Append(bookings, ctx.draft)
  /\ Say("booked", ctx)
  /\ UNCHANGED profile

\* _book.  The spoken sentence about the new booking may fail to render.
Book ==
  /\ pc = "book"
  /\ Complete(ctx.draft)
  /\ Len(bookings) < MaxBookings
  /\ bookings' = Append(bookings, ctx.draft)
  /\ \E rendered \in BOOLEAN :
       Say("booked", [ctx EXCEPT !.state = "IDENTIFY_INTENT", !.draft = EmptyDraft,
                                 !.known_reservation = rendered])
  /\ UNCHANGED profile

-----------------------------------------------------------------------------
(* Offering a person.                                                       *)

\* (mutant: the UNCLEAR streak outlives the offer)
Dismissed_KeepsCount(c) ==
  [c EXCEPT !.state = "IDENTIFY_INTENT", !.transfer_reason = NoReason]

\* (mutant: the reason outlives the offer)
Dismissed_KeepsReason(c) == [c EXCEPT !.state = "IDENTIFY_INTENT", !.unclear_count = 0]

\* The offer is off the table: refused, or talked past.
Dismissed(c) == [c EXCEPT !.state = "IDENTIFY_INTENT", !.transfer_reason = NoReason,
                          !.unclear_count = 0]

DeclineTransfer(c) == Say("declined", Dismissed(c))

\* (mutant: the question asked meanwhile is answered and the offer not repeated)
ConfirmTransferTurn_OfferDropped(m) ==
  IF m.identity THEN Say("smalltalk", ctx)
  ELSE IF m.short THEN Await("read_transfer", ctx, m, m.reads)
  ELSE IdentifyIntent(Dismissed(ctx), m)

\* _handle_confirm_transfer up to its first await.
ConfirmTransferTurn(m) ==
  \/ /\ m.identity
     /\ Say("offer", ctx)
  \/ /\ ~m.identity
     /\ m.short /\ m.reads = "confirm"
     /\ ConnectCaller(ctx, ctx.transfer_reason, m.reads)
  \/ /\ ~m.identity
     /\ m.short /\ m.reads = "deny"
     /\ DeclineTransfer(ctx)
  \/ /\ ~m.identity
     /\ m.short /\ m.reads = "neither"
     /\ Await("read_transfer", ctx, m, m.reads)
  \/ /\ ~m.identity
     /\ ~m.short
     /\ IdentifyIntent(Dismissed(ctx), m)

\* (mutant: whatever is not a refusal counts as a yes)
ReadTransferReply_YesUnlessNo ==
  /\ pc = "read_transfer"
  /\ \E reading \in Readings :
       \/ reading # "deny" /\ ConnectCaller(ctx, ctx.transfer_reason, reading)
       \/ reading = "deny" /\ DeclineTransfer(ctx)
  /\ UNCHANGED <<profile, bookings>>

\* read_confirmation on an answer to the offer.
ReadTransferReply ==
  /\ pc = "read_transfer"
  /\ \E reading \in Readings :
       \/ reading = "confirm" /\ ConnectCaller(ctx, ctx.transfer_reason, reading)
       \/ reading = "deny" /\ DeclineTransfer(ctx)
       \/ reading = "neither" /\ IdentifyIntent(Dismissed(ctx), msg)
  /\ UNCHANGED <<profile, bookings>>

-----------------------------------------------------------------------------
\* handle_turn: dispatch on the state.
Turn(m) ==
  /\ pc = "idle"
  /\ \/ /\ ctx.state \in {"GREETING", "IDENTIFY_INTENT"}
        /\ IdentifyIntent([ctx EXCEPT !.state = "IDENTIFY_INTENT"], m)
     \/ /\ ctx.state = "RESERVATION_COLLECTING"
        /\ CollectingTurn(m)
     \/ /\ ctx.state = "RESERVATION_CONFIRMING"
        /\ ConfirmingTurn(m)
     \/ /\ ctx.state = "CONFIRM_TRANSFER"
        /\ ConfirmTransferTurn(m)
     \/ /\ ctx.state = "TRANSFER_TO_HUMAN"
        /\ Say("connecting", ctx)
  /\ UNCHANGED <<profile, bookings>>

\* The awaits that can raise: the model or the database failed.  The session
\* speaks one of its trouble lines and the next turn finds the context as the
\* failed one left it.  read_confirmation swallows its errors.
FallibleAwaits == {"classify", "hours", "faq", "extract_first", "extract_more",
                   "side_question", "extract_correction", "book"}

TurnRaises ==
  /\ pc \in FallibleAwaits
  /\ pc' = "idle"
  /\ msg' = Silence
  /\ heard' = "trouble"
  /\ should_transfer' = FALSE
  /\ taken' = "nothing"
  /\ UNCHANGED <<profile, ctx, bookings, read_back>>

Init ==
  /\ profile \in Profiles
  /\ ctx = [state |-> "GREETING", draft |-> EmptyDraft, unclear_count |-> 0,
            pending_question |-> "none", answered_something |-> FALSE,
            known_reservation |-> profile.booked_before, transfer_reason |-> NoReason]
  /\ pc = "idle"
  /\ msg = Silence
  /\ should_transfer = FALSE
  /\ bookings = <<>>
  /\ heard = "greeting"
  /\ read_back = EmptyDraft
  /\ taken = "nothing"

Next ==
  \/ \E m \in Utterances : Turn(m)
  \/ Classify
  \/ AnswerHours
  \/ AnswerFaq
  \/ FirstDetails
  \/ MoreDetails
  \/ AnswerSideQuestion
  \/ Correction
  \/ ReadAgreement
  \/ Book
  \/ ReadTransferReply
  \/ TurnRaises

Spec == Init /\ [][Next]_vars
-----------------------------------------------------------------------------
(* Properties.                                                              *)

Awaits == FallibleAwaits \cup {"read_agreement", "read_transfer"}

Heard == {"greeting", "invite", "signoff", "out_of_scope", "smalltalk", "answer",
          "clarify", "field_prompt", "read_back", "what_to_change",
          "ask_again", "booked", "offer", "declined", "connecting", "trouble"}

ContextType ==
  [state : States, draft : Drafts, unclear_count : 0 .. MaxUnclear,
   pending_question : Offers, answered_something : BOOLEAN,
   known_reservation : BOOLEAN, transfer_reason : Reasons]

\* Every variable holds a value the code can give it; the UNCLEAR counter of
\* the engine never passes its limit.
TypeOK ==
  /\ profile \in Profiles
  /\ ctx \in ContextType
  /\ pc \in Awaits \cup {"idle"}
  /\ msg \in IF pc = "idle" THEN {Silence} ELSE Utterances
  /\ should_transfer \in BOOLEAN
  /\ bookings \in Seq(Drafts)
  /\ heard \in Heard
  /\ read_back \in Drafts
  /\ taken \in Takings

\* Details collected for one booking never survive it: outside the two booking
\* states the draft is empty, whichever of the many exits was taken and
\* wherever a turn raised, so a later booking never starts from a stale one.
DraftOnlyWhileBooking ==
  ctx.state \notin {"RESERVATION_COLLECTING", "RESERVATION_CONFIRMING"}
    => ctx.draft = EmptyDraft

\* A transfer reason is held exactly while a transfer is offered or under way:
\* the session files the outcome of the call under it.
ReasonWhileTransferring ==
  ctx.transfer_reason # NoReason <=> ctx.state \in {"CONFIRM_TRANSFER", "TRANSFER_TO_HUMAN"}

\* Once the limit of misunderstood turns is reached the caller has been offered
\* a person, and the count restarts before the conversation goes on without one.
UnclearCallerIsOffered ==
  ctx.unclear_count >= MaxUnclear => ctx.state \in {"CONFIRM_TRANSFER", "TRANSFER_TO_HUMAN"}

\* While the engine waits for a yes to a booking, the booking is complete and
\* what the caller last heard read back is this booking and no earlier version.
AwaitingAgreementToReadBack ==
  ctx.state = "RESERVATION_CONFIRMING" =>
    Complete(ctx.draft) /\ read_back = Recited(ctx.draft)

\* When a booking is to be agreed to or a handover to be accepted, the caller's last
\* line was the question their yes or no will answer (or an apology for a failed turn
\* that left the question open).  Topics offered in an answer are not promised this: the
\* pending question they leave outlives the turn it was asked in (IdentifyIntent).
AgreementAnswersItsQuestion ==
  pc = "idle" =>
    /\ ctx.state = "RESERVATION_CONFIRMING" => heard \in {"read_back", "ask_again", "trouble"}
    /\ ctx.state = "CONFIRM_TRANSFER" => heard \in {"offer", "trouble"}

\* A turn suspended on an await resumes in the state it was suspended in, and
\* what reaches _book was read as a yes, and was never a refusal nor a wish to leave
\* the booking.
TurnBelongsToState ==
  /\ pc \in {"classify", "hours", "faq"} => ctx.state = "IDENTIFY_INTENT"
  /\ pc \in {"extract_first", "extract_more", "side_question"} =>
       ctx.state = "RESERVATION_COLLECTING"
  /\ pc \in {"extract_correction", "read_agreement", "book"} =>
       ctx.state = "RESERVATION_CONFIRMING" /\ ~msg.wants_out
  /\ pc = "read_agreement" => msg.reads = "neither"
  /\ pc = "book" => msg.reads # "deny" /\ taken = "confirm"
  /\ pc = "read_transfer" => ctx.state = "CONFIRM_TRANSFER"

\* A reservation row is only ever written for a complete booking, recited to the
\* caller as it is written, in answer to words that hold no refusal and no wish
\* to abandon it.
BookedOnlyAsAgreed ==
  [][bookings' # bookings =>
       /\ ctx.state = "RESERVATION_CONFIRMING"
       /\ bookings' = Append(bookings, ctx.draft)
       /\ Complete(ctx.draft)
       /\ \A f \in Spoken : ctx.draft[f] = read_back[f]
       /\ msg.reads # "deny"
       /\ ~msg.wants_out]_vars

\* should_transfer, on which the session closes the media stream, is raised in
\* the very turn that enters TRANSFER_TO_HUMAN and in no other, and the state is
\* never left again.
HandedOverOnce ==
  [][/\ (should_transfer' /\ ~should_transfer) <=>
           (ctx'.state = "TRANSFER_TO_HUMAN" /\ ctx.state # "TRANSFER_TO_HUMAN")
     /\ ctx.state = "TRANSFER_TO_HUMAN" => ctx'.state = "TRANSFER_TO_HUMAN"]_vars

-----------------------------------------------------------------------------
\* The engine implements CallerConsent: what the caller has been asked to agree
\* to is the pending read-back or the pending offer.
Aloud(d) == [f \in Spoken |-> d[f]]

AskedOfCaller ==
  [about |-> CASE ctx.state = "RESERVATION_CONFIRMING" -> "booking"
               [] ctx.state = "CONFIRM_TRANSFER" -> "transfer"
               [] OTHER -> "nothing",
   details |-> IF ctx.state = "RESERVATION_CONFIRMING" THEN Aloud(read_back)
               ELSE Aloud(EmptyDraft)]

Consent == INSTANCE CallerConsent WITH
  Details <- [Spoken -> Values \cup {NoValue}],
  NoDetails <- Aloud(EmptyDraft),
  asked <- AskedOfCaller,
  said <- taken,
  booked <- [i \in 1 .. Len(bookings) |-> Aloud(bookings[i])],
  connected <- ctx.state = "TRANSFER_TO_HUMAN"

\* Bookings and handovers happen only by the caller's consent (CallerConsent): a yes to
\* this read-back, a yes to the offer, a wish for a person; as the word lists and the
\* model have read the caller's words since the question was put.
ImplementsConsent == Consent!Spec

-----------------------------------------------------------------------------
\* The engine implements what the call session takes it for (EngineTurns).  What the session
\* looks at of a context, and what the last turn came to:
SessionView(c) ==
  [state |-> CASE c.state = "CONFIRM_TRANSFER" -> "offering"
               [] c.state = "TRANSFER_TO_HUMAN" -> "transfer"
               [] OTHER -> "talking",
   reason |-> CASE c.transfer_reason = NoReason -> "none"
                [] c.transfer_reason \in {"order_request", "reservation_request"} -> "routine"
                [] c.transfer_reason = "escalation" -> "escalation"
                [] OTHER -> "other",
   answered |-> c.answered_something]

LastResult ==
  CASE should_transfer -> "transfer"
    [] ~should_transfer /\ heard = "greeting" -> "none"
    [] ~should_transfer /\ heard = "booked" -> "booked"
    [] ~should_transfer /\ heard = "trouble" -> "error"
    [] OTHER -> "reply"

Turns == INSTANCE EngineTurns WITH
  context <- SessionView(ctx),
  waits <- IF pc \in {"hours", "book"} THEN "database" ELSE "models",
  result <- LastResult,
  booked <- Len(bookings)

\* Whatever turn the conversation takes and wherever it fails, the session is told of a
\* handover, a booking or an answer exactly as the context and the rows have it, and an
\* offer is dismissed with its reason, never half (TurnResult, _process_utterance).
ImplementsTurns == Turns!Spec
=============================================================================
