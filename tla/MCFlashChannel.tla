--------------------------- MODULE MCFlashChannel ---------------------------
(* FlashChannel for TLC: the callers are interchangeable.                  *)
EXTENDS FlashChannel, TLC

Symmetry == Permutations(Callers)

=============================================================================
