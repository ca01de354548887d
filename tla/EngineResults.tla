---------------------------- MODULE EngineResults ----------------------------
(***************************************************************************)
(* What a turn of the conversation engine may make of the part of the      *)
(* context that the call session looks at: the state, the reason of a      *)
(* transfer, and whether anything has been answered.  The states of a      *)
(* booking, and those before one, are all "talking" to the session.        *)
(***************************************************************************)

Routine == "routine"        \* _ROUTINE_TRANSFER_REASONS
Reasons == {Routine, "escalation", "other"}

\* The context as a reply leaves it; the reason is that of an offer, if it makes one.
Replied(s, r) ==
  [s EXCEPT !.state = r.state, !.answered = r.answered,
            !.reason = IF r.state = "offering" THEN r.reason ELSE "none"]

\* What the engine may make of the context with a reply that hands nobody over.
Replies(s) ==
  IF s.state = "transfer" THEN {s}
  ELSE {Replied(s, r) : r \in [state : {"talking", "offering"}, reason : Reasons,
                               answered : {s.answered, TRUE}]}

\* The engine hands over: an accepted offer, or a caller who asked for a person.
Connected(s) ==
  IF s.state = "transfer" THEN {}
  ELSE {[s EXCEPT !.state = "transfer", !.reason = IF s.state = "offering" THEN @ ELSE "other"]}

\* Nothing is offered any more.
Settled(s) == [s EXCEPT !.state = "talking", !.reason = "none"]

\* Before a turn waits for anything, an offer that the caller talked past is dismissed.
Listened(s) == IF s.state = "offering" THEN {s, Settled(s)} ELSE {s}

\* The caller was told the opening hours.
Informed(s) == [Settled(s) EXCEPT !.answered = TRUE]
=============================================================================
