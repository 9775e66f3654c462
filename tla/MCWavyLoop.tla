----------------------------- MODULE MCWavyLoop -----------------------------
(* Small instances of WavyLoop. *)
EXTENDS WavyLoop, TLC

Symmetry == Permutations(Fds) \cup Permutations(Workers) \cup Permutations(Callers)
=============================================================================
