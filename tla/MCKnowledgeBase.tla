-------------------------- MODULE MCKnowledgeBase --------------------------
(* Small instances of KnowledgeBase for TLC. *)
EXTENDS KnowledgeBase

CONSTANTS d1, r1, r2, r3, r4

\* Two chunks, then three, then one.
MCChunkCount == <<2, 3, 1>>
=============================================================================
