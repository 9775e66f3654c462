----------------------------- MODULE WavyKernel -----------------------------
(***************************************************************************)
(* mp::wavy::kernel over epoll (mpsrc/wavy_kernel_epoll.h).  A kernel is   *)
(* the interest list of one epoll instance: a function from descriptors to *)
(*                                                                         *)
(*   "none"   not in the list;                                             *)
(*   "armed"  registered, and the next readiness will be reported;         *)
(*   "fired"  registered with EPOLLONESHOT and already reported once: it   *)
(*            stays silent until reactivate() arms it again.               *)
(*                                                                         *)
(* Every registration the library makes is one-shot, so the list needs no  *)
(* event mask.  The return codes are dropped, as all callers drop them.    *)
(***************************************************************************)
EXTENDS Integers, Sequences, FiniteSets

Interest == {"none", "armed", "fired"}

(* EPOLL_CTL_ADD with EPOLLONESHOT; EEXIST leaves the list alone. *)
add_fd(k, fd) == IF k[fd] = "none" THEN [k EXCEPT ![fd] = "armed"] ELSE k

(* EPOLL_CTL_DEL; ENOENT and EBADF leave the list alone. *)
remove(k, fd) == [k EXCEPT ![fd] = "none"]

(* Mutants of reactivate: the result is not applied; a removed descriptor  *)
(* is registered again.                                                    *)
reactivate_forgets(k, fd) == k
reactivate_registers(k, fd) == [k EXCEPT ![fd] = "armed"]

(* EPOLL_CTL_MOD with the mask kept in the event; ENOENT changes nothing. *)
reactivate(k, fd) == IF k[fd] = "none" THEN k ELSE [k EXCEPT ![fd] = "armed"]

(* The orders in which epoll_wait may report a set of descriptors. *)
Orders(S) ==
  {s \in [1..Cardinality(S) -> S] : \A i, j \in DOMAIN s : i # j => s[i] # s[j]}

(* What one epoll_wait may report: a nonempty batch of at most max armed   *)
(* descriptors whose level is high, in any order.                          *)
Batches(k, level, max) ==
  UNION {Orders(S) : S \in {B \in SUBSET {fd \in level : k[fd] = "armed"} :
                              B # {} /\ Cardinality(B) <= max}}

(* Mutant of wait: the registration was made without EPOLLONESHOT. *)
wait_level(k, batch) == k

(* The effect of epoll_wait on the list: what it reports is disarmed. *)
wait(k, batch) ==
  [fd \in DOMAIN k |->
     IF \E i \in DOMAIN batch : batch[i] = fd THEN "fired" ELSE k[fd]]

=============================================================================
