----------------------------- MODULE EngineTurns -----------------------------
(***************************************************************************)
(* The conversation engine as the call session takes it to be: a turn may  *)
(* wait for the models or for the database and ends in a reply, a handover *)
(* or an error.  ConversationEngine is shown to implement this, and what   *)
(* CallSession lets the engine answer is made of the same operators        *)
(* (EngineResults): neither relies on more than the other has been shown   *)
(* to give.                                                                *)
(***************************************************************************)
EXTENDS Integers, EngineResults

VARIABLES
  context,  \* what the session looks at of the ConversationContext
  waits,    \* what a turn waits for, if one does
  result,   \* what the last turn came to
  booked    \* how many reservations have been created

vars == <<context, waits, result, booked>>

Init ==
  /\ context = [state |-> "talking", reason |-> "none", answered |-> FALSE]
  /\ waits = "models" /\ result = "none" /\ booked = 0

Ends(kind, c) == context' = c /\ waits' = "models" /\ result' = kind

\* An offer is dismissed before the models are asked.
Listen == waits = "models" /\ context' \in Listened(context) /\ UNCHANGED <<waits, result, booked>>

Reply ==
  /\ waits = "models"
  /\ \E c \in Replies(context) : Ends("reply", c)
  /\ UNCHANGED booked

Connect ==
  /\ waits = "models"
  /\ \E c \in Connected(context) : Ends("transfer", c)
  /\ UNCHANGED booked

\* The turn goes on to the opening hours or to a booking.
Query ==
  /\ waits = "models" /\ context.state # "transfer"
  /\ context' \in Listened(context) /\ waits' = "database"
  /\ UNCHANGED <<result, booked>>

Inform == waits = "database" /\ Ends("reply", Informed(context)) /\ UNCHANGED booked

Arrange == waits = "database" /\ Ends("booked", Settled(context)) /\ booked' = booked + 1

\* A call that is being handed over cannot fail any more.
Raise == context.state # "transfer" /\ Ends("error", context) /\ UNCHANGED booked

Next == Listen \/ Reply \/ Connect \/ Query \/ Inform \/ Arrange \/ Raise

Spec == Init /\ [][Next]_vars
=============================================================================
