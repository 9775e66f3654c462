----------------------------- MODULE MCWavyConn -----------------------------
(* Small instances of WavyConn. *)
EXTENDS WavyConn, TLC
=============================================================================
