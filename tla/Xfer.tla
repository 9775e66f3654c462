-------------------------------- MODULE Xfer --------------------------------
(***************************************************************************)
(* The transfer buffer mp::wavy::xfer (mp/wavy.hmpl, mpsrc/wavy_out.cc): a *)
(* sequence of elements, each one a run of bytes (XF_IOVEC, XF_SENDFILE)   *)
(* or a finalizer (XF_FINALIZE).  Where the bytes live is irrelevant to    *)
(* the write path; which bytes they are is not.  A byte is therefore named *)
(* by its position in the stream the callers asked for: an element covers  *)
(* the len positions after pos.  Finalizers are numbered the same way: fin *)
(* counts the finalizers pushed so far, a finalizer element included, so   *)
(* it is the number of a finalizer element.                                *)
(***************************************************************************)
EXTENDS Integers, Sequences

El(type, pos, len, fin) == [type |-> type, pos |-> pos, len |-> len, fin |-> fin]
Element == [type : {"data", "finalize"}, pos : Nat, len : Nat, fin : Nat]

(* The position after the last byte, and the number of finalizers. *)
Size(b) == IF b = <<>> THEN 0 ELSE b[Len(b)].pos + b[Len(b)].len
Finalizers(b) == IF b = <<>> THEN 0 ELSE b[Len(b)].fin

(* push_write, push_writev and push_sendfile differ in where the n bytes   *)
(* come from only.                                                         *)
push_write(b, n) == Append(b, El("data", Size(b), n, Finalizers(b)))
push_finalize(b) == Append(b, El("finalize", Size(b), 0, Finalizers(b) + 1))

(* Mutant of migrate: the elements are put in front. *)
migrate_in_front(b, to) == b \o to

(* migrate(to): the elements move to the end of the other buffer. *)
migrate(b, to) == to \o b

(* Mutants of Trim: the base stays, the length is reduced twice, the rest  *)
(* of the element is dropped.                                              *)
Trim_length_only(b, n) ==
  LET e == Head(b) IN <<El(e.type, e.pos, e.len - n, e.fin)>> \o Tail(b)
Trim_twice(b, n) ==
  LET e == Head(b) IN <<El(e.type, e.pos + n, e.len - 2 * n, e.fin)>> \o Tail(b)
Trim_drops(b, n) == Tail(b)

(* The head element after n of its bytes have been written. *)
Trim(b, n) ==
  LET e == Head(b) IN <<El(e.type, e.pos + n, e.len - n, e.fin)>> \o Tail(b)

(* The buffer as part of a stream that has a bytes and k finalizers. *)
Rebase(b, a, k) ==
  [i \in 1..Len(b) |-> El(b[i].type, b[i].pos + a, b[i].len, b[i].fin + k)]

(* The finalizer elements of a buffer. *)
FinsOf(b) == {b[i] : i \in {j \in 1..Len(b) : b[j].type = "finalize"}}

(* The numbers of the finalizers in the buffer. *)
FinalizersIn(b) == {b[i].fin : i \in {j \in 1..Len(b) : b[j].type = "finalize"}}

-----------------------------------------------------------------------------
(* d is the element that belongs right after position p and finalizer k.   *)
Follows(p, k, d) ==
  /\ d.pos = p
  /\ d.fin = IF d.type = "finalize" THEN k + 1 ELSE k

(* Consecutive elements are consecutive in the stream. *)
Chained(b) ==
  \A i \in 1..(Len(b) - 1) : Follows(b[i].pos + b[i].len, b[i].fin, b[i + 1])

(* A part of a stream, and one that starts it: what the push_ operations   *)
(* build.                                                                  *)
IsPart(b) ==
  /\ b \in Seq(Element)
  /\ Chained(b)
  /\ \A i \in 1..Len(b) : b[i].type = "finalize" => b[i].len = 0
IsXfer(b) == IsPart(b) /\ (b # <<>> => Follows(0, 0, b[1]))

=============================================================================
