------------------------ MODULE MCConversationEngine ------------------------
(* Small instances of ConversationEngine for TLC. *)
EXTENDS ConversationEngine

CONSTANTS p1, p2, phone, slot, none

MCRequired == {phone, slot}

\* Every reading and length, with no phrase the word lists look for, with one,
\* or with two that meet in one handler.
MCUtterances ==
  { [reads |-> r, short |-> b, wants_out |-> "wants_out" \in F,
     farewell |-> "farewell" \in F, question |-> "question" \in F,
     identity |-> "identity" \in F, asks_existing |-> "asks_existing" \in F,
     wants_change |-> "wants_change" \in F, hours |-> "hours" \in F] :
      r \in Readings, b \in BOOLEAN,
      F \in {{}, {"identity"}, {"hours"}, {"farewell"}, {"question"}, {"asks_existing"},
             {"farewell", "wants_out"}, {"wants_out", "wants_change"},
             {"wants_change", "asks_existing"}, {"question", "asks_existing"}} }

Profile(collects, booked_before, number) ==
  [collects |-> collects, booked_before |-> booked_before,
   details |-> [f \in Fields |-> IF f = phone THEN number ELSE none]]

\* A known number and a withheld one, with and without a booking to come; the
\* restaurant takes bookings by phone or does not.
MCProfiles ==
  {Profile(TRUE, FALSE, p1), Profile(TRUE, TRUE, none), Profile(FALSE, TRUE, p1)}
=============================================================================
