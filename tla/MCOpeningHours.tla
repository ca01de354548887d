--------------------------- MODULE MCOpeningHours ---------------------------
(* Small instances of OpeningHours for TLC. *)
EXTENDS OpeningHours
NineToFive == Hours(1, 2)
Late == Hours(2, 1)
AroundTheClock == Hours(0, 0)
\* A day that is shut, one that closes before midnight, one that closes after, and one whose
\* times are those a key of a shut day could be mistaken for.
SomeEntries == {Closed, NineToFive, Late, AroundTheClock}
SomeEdits == {AroundTheClock}
=============================================================================
