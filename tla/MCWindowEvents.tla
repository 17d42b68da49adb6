--------------------------- MODULE MCWindowEvents ---------------------------
(* Documents are interchangeable. *)
EXTENDS WindowEvents

CONSTANTS letter, sheet, alert

Symmetry == Permutations(Documents)
============================================================================
