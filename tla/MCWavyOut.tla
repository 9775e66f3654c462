------------------------------ MODULE MCWavyOut ------------------------------
(* Small instances of WavyOut. *)
EXTENDS WavyOut, TLC

Symmetry == Permutations(Fds) \cup Permutations(Writers) \cup Permutations(Workers)

W(n) == push_write(<<>>, n)

(* One byte, three bytes, a byte and a finalizer, a buffer of two bytes    *)
(* and two finalizers, a write of no bytes alone and after a byte, and an  *)
(* empty buffer, so that every way execute can stop is met.                *)
MCRequests == {W(1), W(3), push_finalize(W(1)),
               push_finalize(push_write(push_finalize(W(1)), 1)),
               W(0), push_finalize(push_write(W(1), 0)), <<>>}

(* Few and short, for several descriptors. *)
MCShortRequests == {W(2), push_finalize(W(1))}
=============================================================================
