--------------------------- MODULE MCStreamBuffer ---------------------------
(* Small instances of StreamBuffer. *)
EXTENDS StreamBuffer, TLC

Symmetry == Permutations(Blocks) \cup Permutations(Refs)
=============================================================================
