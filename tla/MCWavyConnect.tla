--------------------------- MODULE MCWavyConnect ----------------------------
(* Small instances of WavyConnect. *)
EXTENDS WavyConnect, TLC

CONSTANTS c1, c2, c3

(* No timeout; one second; a second and five microseconds. *)
MCSec == [c \in Conns |-> IF c = c1 THEN 0 ELSE 1]
MCNsec == [c \in Conns |-> IF c = c3 THEN 5000 ELSE 0]
=============================================================================
