---------------------------- MODULE MCWavyTimer -----------------------------
(* Small instances of WavyTimer. *)
EXTENDS WavyTimer, TLC

CONSTANTS t1, t2

(* A periodic timer that starts with its interval, and a one-shot timer. *)
MCValue == [t \in Timers |-> IF t = t1 THEN -1 ELSE 1]
MCInterval == [t \in Timers |-> IF t = t1 THEN 1 ELSE 0]
=============================================================================
