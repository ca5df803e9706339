------------------------- MODULE MCReadingReceipts -------------------------
(* Two documents and up to three sends: a rejected send, its fallback and  *)
(* one more send of the same or of the other document.                     *)
EXTENDS ReadingReceipts, TLC

CONSTANTS d1, d2

MCDocuments == {d1, d2}
Symmetry == Permutations(MCDocuments)
=============================================================================
