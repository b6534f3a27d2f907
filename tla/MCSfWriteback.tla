--------------------------- MODULE MCSfWriteback ---------------------------
(* Small instances of SfWriteback, with one call that fails or one import    *)
(* that gets in between, among three things that happen in all: the bound is *)
(* on how many, never on which or in what order.                             *)
EXTENDS SfWriteback

CONSTANTS a, b, e1

ThreeEvents == failures + twins <= 1 /\ edits + sfEdits + failures + twins <= 3
=============================================================================
