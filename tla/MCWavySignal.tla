---------------------------- MODULE MCWavySignal ----------------------------
(* Small instances of WavySignal. *)
EXTENDS WavySignal, TLC

CONSTANTS h1, h2, s1, s2

(* One handler for each of two signals. *)
MCSigno == (h1 :> s1) @@ (h2 :> s2)
=============================================================================
