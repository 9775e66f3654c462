---------------------------- MODULE MCWavyKqueue ----------------------------
(* Small instances of WavyKqueue. *)
EXTENDS WavyKqueue, TLC

(* The callers and the workers are alike. *)
Symmetry == Permutations(Callers) \cup Permutations(Workers)
=============================================================================
