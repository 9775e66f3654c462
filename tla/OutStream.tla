------------------------------ MODULE OutStream ------------------------------
(***************************************************************************)
(* What the write path promises its callers, without mutexes, threads,     *)
(* queues or registrations: every descriptor has one stream, to which      *)
(* calls append.  Its bytes reach the socket, and its finalizers run, one  *)
(* after the other from the front.  Only a failure of the connection, or   *)
(* a write of no bytes, discards what is left of it; then the finalizers   *)
(* in that part run at some later time, or none of them ever does.         *)
(*                                                                         *)
(* WavyOut implements this specification (WavyOut!ImplementsStream).       *)
(***************************************************************************)
EXTENDS Xfer

CONSTANTS
  Fds,        \* connected sockets
  Requests    \* the transfer buffers callers pass

VARIABLES
  todo,       \* what is left of each stream
  late,       \* finalizers of discarded parts that still run
  wire,       \* positions of the bytes the socket accepted, in order
  broken,     \* the connection is reset
  accepted,   \* bytes asked for so far
  nfin,       \* finalizers asked for so far
  finalized,  \* the finalizers that ran, in order
  dropped     \* the finalizers that will never run

vars == <<todo, late, wire, broken, accepted, nfin, finalized, dropped>>

(* Finalizer e runs now. *)
Ran(f, e) ==
  finalized' = [finalized EXCEPT ![f] =
                  Append(@, [fin |-> e.fin, pos |-> e.pos, sent |-> Len(wire[f])])]

-----------------------------------------------------------------------------
(* A call appends its buffer to the stream. *)
Ask(f, b) ==
  /\ todo' = [todo EXCEPT ![f] = @ \o Rebase(b, accepted[f], nfin[f])]
  /\ accepted' = [accepted EXCEPT ![f] = @ + Size(b)]
  /\ nfin' = [nfin EXCEPT ![f] = @ + Finalizers(b)]
  /\ UNCHANGED <<late, wire, broken, finalized, dropped>>

(* The socket takes the next n bytes. *)
Deliver(f, n) ==
  LET e == Head(todo[f])
      rest == IF n = e.len THEN <<>>
              ELSE <<El("data", e.pos + n, e.len - n, e.fin)>>
  IN
  /\ e.type = "data" /\ 0 < n /\ n <= e.len /\ ~broken[f]
  /\ wire' = [wire EXCEPT ![f] = @ \o [i \in 1..n |-> e.pos + i]]
  /\ todo' = [todo EXCEPT ![f] = rest \o Tail(@)]
  /\ UNCHANGED <<late, broken, accepted, nfin, finalized, dropped>>

(* The finalizer at the front runs. *)
Run(f) ==
  /\ Head(todo[f]).type = "finalize"
  /\ Ran(f, Head(todo[f]))
  /\ todo' = [todo EXCEPT ![f] = Tail(@)]
  /\ UNCHANGED <<late, wire, broken, accepted, nfin, dropped>>

(* The write at the front fails: the rest of the stream is discarded. *)
Discard(f) ==
  /\ Head(todo[f]).type = "data"
  /\ broken[f] \/ Head(todo[f]).len = 0
  /\ todo' = [todo EXCEPT ![f] = <<>>]
  /\ \/ /\ late' = [late EXCEPT ![f] = @ \cup FinsOf(todo[f])]
        /\ UNCHANGED dropped
     \/ /\ dropped' = [dropped EXCEPT ![f] = @ \cup FinalizersIn(todo[f])]
        /\ UNCHANGED late
  /\ UNCHANGED <<wire, broken, accepted, nfin, finalized>>

(* A finalizer of a discarded part runs. *)
RunLate(f) ==
  /\ \E e \in late[f] : Ran(f, e) /\ late' = [late EXCEPT ![f] = @ \ {e}]
  /\ UNCHANGED <<todo, wire, broken, accepted, nfin, dropped>>

Reset(f) ==
  /\ broken' = [broken EXCEPT ![f] = TRUE]
  /\ UNCHANGED <<todo, late, wire, accepted, nfin, finalized, dropped>>

Init ==
  /\ todo = [f \in Fds |-> <<>>] /\ late = [f \in Fds |-> {}]
  /\ wire = [f \in Fds |-> <<>>] /\ broken = [f \in Fds |-> FALSE]
  /\ accepted = [f \in Fds |-> 0] /\ nfin = [f \in Fds |-> 0]
  /\ finalized = [f \in Fds |-> <<>>] /\ dropped = [f \in Fds |-> {}]

Next ==
  \E f \in Fds :
    \/ \E b \in Requests : Ask(f, b)
    \/ todo[f] # <<>> /\ (Run(f) \/ Discard(f) \/ \E n \in 1..Head(todo[f]).len : Deliver(f, n))
    \/ RunLate(f) \/ Reset(f)

Spec == Init /\ [][Next]_vars

=============================================================================
