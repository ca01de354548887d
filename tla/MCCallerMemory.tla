--------------------------- MODULE MCCallerMemory ---------------------------
(* Small instances of CallerMemory for TLC. *)
EXTENDS CallerMemory, TLC
Symmetric == Permutations(Lines) \cup Permutations(Restaurants) \cup Permutations(Numbers)
=============================================================================
