---------------------------- MODULE CallerConsent ----------------------------
(***************************************************************************)
(* What the conversation promises its caller, whatever it does in between: *)
(* a table is booked only as it was last put to the caller and on their    *)
(* yes, and the call is handed over only on their yes to the offer or on   *)
(* their wish for a person.  A yes counts for the question it was given    *)
(* to: putting another one forgets it.  The engine is shown to implement   *)
(* this (ConversationEngine!Consent).                                      *)
(***************************************************************************)
EXTENDS Sequences

CONSTANTS Details,   \* what can be read back to a caller about a booking
          NoDetails  \* nothing has been read back

VARIABLES asked,     \* what the caller has been asked to agree to
          said,      \* how they have been understood since the assistant last spoke
          booked,    \* the bookings made, each as it was read back
          connected  \* the caller has been handed to a person

vars == <<asked, said, booked, connected>>

Nothing == [about |-> "nothing", details |-> NoDetails]
Transfer == [about |-> "transfer", details |-> NoDetails]
Proposal(d) == [about |-> "booking", details |-> d]

Init == asked = Nothing /\ said = "nothing" /\ booked = <<>> /\ connected = FALSE

\* The assistant puts something to the caller, in place of what it asked before.
Ask(question) ==
  /\ ~connected
  /\ asked' = question
  /\ said' = "nothing"
  /\ UNCHANGED <<booked, connected>>

\* The caller speaks, or is understood better; they may talk past the question.
Hear ==
  /\ said' \in {"confirm", "deny", "neither", "person", "nothing"}
  /\ asked' \in {asked, Nothing}
  /\ UNCHANGED <<booked, connected>>

\* The caller has agreed to the booking that was read back to them.
AgreeToBooking ==
  /\ asked.about = "booking"
  /\ said = "confirm"
  /\ booked' = Append(booked, asked.details)
  /\ asked' = Nothing
  /\ said' = "nothing"
  /\ UNCHANGED connected

\* The caller accepts the offer of a person.
AgreeToTransfer ==
  /\ asked = Transfer
  /\ said' = "confirm"
  /\ connected' = TRUE
  /\ asked' = Nothing
  /\ UNCHANGED booked

\* The caller asks for a person with nothing else put to them.
DemandPerson ==
  /\ asked = Nothing
  /\ said' = "person"
  /\ connected' = TRUE
  /\ UNCHANGED <<asked, booked>>

Next ==
  \/ \E d \in Details : Ask(Proposal(d))
  \/ Ask(Transfer)
  \/ Ask(Nothing)
  \/ Hear
  \/ AgreeToBooking
  \/ AgreeToTransfer
  \/ DemandPerson

Spec == Init /\ [][Next]_vars
=============================================================================
