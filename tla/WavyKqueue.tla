----------------------------- MODULE WavyKqueue -----------------------------
(***************************************************************************)
(* mp::wavy::kernel over kqueue (mpsrc/wavy_kernel_kqueue.h), with the     *)
(* timers and signals that use it.                                         *)
(*                                                                         *)
(* A kqueue is a table of registrations, one per filter and key: the       *)
(* identifier of the timer or the number of the signal (or a descriptor,   *)
(* which is left out: descriptors are used as with epoll, see WavyLoop).   *)
(* Every registration is EV_ONESHOT: reporting it deletes it, and          *)
(* reactivate adds it anew, whether or not somebody removed it meanwhile.  *)
(*                                                                         *)
(* Timers and signals have no descriptor.  The kernel gives them an        *)
(* identifier above the largest descriptor (alloc_xident), from a table    *)
(* that threads use without a lock.  The loop is reduced as in WavyTimer.  *)
(***************************************************************************)
EXTENDS Integers, FiniteSets

CONSTANTS
  Periodic, Oneshot,  \* timers with and without an interval
  Signals,            \* handlers of signals, each of a signal of its own
  Workers, Callers,
  None,
  MP_WAVY_KERNEL_KQUEUE_XIDENT_MAX,
  Wrap                \* m_xident_index is counted modulo Wrap, 2^32 in the code

XMAX == MP_WAVY_KERNEL_KQUEUE_XIDENT_MAX
Timers == Periodic \cup Oneshot
Handlers == Timers \cup Signals
Threads == Workers \cup Callers
Xidents == 0..(XMAX - 1)

ASSUME KqueueAssumption ==
  /\ XMAX \in Nat \ {0} /\ Wrap \in Nat \ {0} /\ Wrap % XMAX = 0
  /\ Workers \cap Callers = {} /\ IsFiniteSet(Callers)
  /\ Timers \cap Signals = {} /\ Xidents \cap Handlers = {} /\ None \notin Handlers \cup Xidents

(* Keys of registrations: identifiers of timers, and signals, named by     *)
(* their handlers.                                                         *)
Keys == Xidents \cup Signals

VARIABLES
  m_xident,       \* per identifier: taken
  m_xident_index,
  kq,             \* per key: None, or the registration
  m_state,        \* per identifier: the handler
  xident,         \* per handler: its identifier, from registration to ~timer
  added,          \* per handler: "no", "adding", "yes", "removed"
  events,         \* events reported and not yet taken
  pc,
  x, probes,      \* per caller: identifier tried, tries made
  freeThroughout, \* per caller: identifiers free since alloc_xident was called
  hold,           \* per thread: the handlers that it has shared pointers to
  arg,            \* per thread: the handler that it adds or destroys
  ev,             \* per worker: its event
  later,          \* per caller: the key that it has yet to delete
  outside         \* the program removes handlers from outside their callback

xidentVars == <<m_xident, m_xident_index, xident>>
allocVars == <<x, probes, freeThroughout>>
handlerVars == <<m_state, added>>
restVars == <<later, outside>>
vars == <<xidentVars, allocVars, kq, handlerVars, events, pc, hold, arg, ev, restVars>>

At(t, step) == pc' = [pc EXCEPT ![t] = step]

(* What a registration is made under, for a handler with identifier i. *)
Key(hd, i) == IF hd \in Timers THEN i ELSE hd

(* What an event tells: its key, where it goes, and for whom it was asked, *)
(* which stands for the interval that a timer keeps in udata.              *)
Registration(hd, i) == [key |-> Key(hd, i), ident |-> i, from |-> hd]

(* What a call left behind is forgotten. *)
AllocOver(c) ==
  /\ x' = [x EXCEPT ![c] = 0] /\ probes' = [probes EXCEPT ![c] = 0]
  /\ freeThroughout' = [freeThroughout EXCEPT ![c] = {}]

EV_ADD(r) == kq' = [kq EXCEPT ![r.key] = r]
EV_DELETE(k) == kq' = [kq EXCEPT ![k] = None]

-----------------------------------------------------------------------------
(* alloc_xident and free_xident.                                           *)

add(c, hd) ==
  /\ pc[c] = "idle" /\ added[hd] = "no"
  /\ added' = [added EXCEPT ![hd] = "adding"]
  /\ arg' = [arg EXCEPT ![c] = hd]
  /\ freeThroughout' = [freeThroughout EXCEPT ![c] = {i \in Xidents : ~m_xident[i]}]
  /\ At(c, "fetch_and_add")
  /\ UNCHANGED <<xidentVars, x, probes, kq, m_state, events, hold, ev, restVars>>

FetchAndAdd(c) ==
  /\ pc[c] = "fetch_and_add"
  /\ x' = [x EXCEPT ![c] = m_xident_index % XMAX]
  /\ m_xident_index' = (m_xident_index + 1) % Wrap
  /\ At(c, "compare_and_swap")
  /\ UNCHANGED <<m_xident, xident, probes, freeThroughout, kq, handlerVars, events,
                 hold, arg, ev, restVars>>

(* Mutants: every identifier is tried once; a taken one is taken again. *)
MaxProbes_once == XMAX
Swaps_always(c) == TRUE

MaxProbes == XMAX * 2

Swaps(c) == ~m_xident[x[c]]

(* A free identifier is taken; else the next one is tried, or EMFILE. *)
CompareAndSwap(c) ==
  /\ pc[c] = "compare_and_swap"
  /\ IF Swaps(c)
     THEN /\ m_xident' = [m_xident EXCEPT ![x[c]] = TRUE]
          /\ freeThroughout' = [d \in Callers |-> freeThroughout[d] \ {x[c]}]
          /\ At(c, "set_event") /\ UNCHANGED probes
     ELSE /\ probes' = [probes EXCEPT ![c] = @ + 1]
          /\ At(c, IF probes[c] + 1 < MaxProbes THEN "fetch_and_add" ELSE "EMFILE")
          /\ UNCHANGED <<m_xident, freeThroughout>>
  /\ UNCHANGED <<m_xident_index, xident, x, kq, handlerVars, events, hold, arg, ev, restVars>>

(* The test and the write of free_xident are one step: the entry belongs   *)
(* to the caller until it is cleared.                                      *)
free_xident(i) == m_xident' = [m_xident EXCEPT ![i] = FALSE]

-----------------------------------------------------------------------------
(* add_timer and add_signal.                                               *)

(* set_event with EV_ADD|EV_ONESHOT, and the handler is made. *)
SetEvent(c) ==
  /\ pc[c] = "set_event"
  /\ EV_ADD(Registration(arg[c], x[c]))
  /\ xident' = [xident EXCEPT ![arg[c]] = x[c]]
  /\ hold' = [hold EXCEPT ![c] = {arg[c]}]
  /\ At(c, "set_handler") /\ AllocOver(c)
  /\ UNCHANGED <<m_xident, m_xident_index, handlerVars, events, arg, ev, restVars>>

(* The constructor of the handler throws; the caller may try again. *)
Throws(c) ==
  /\ added' = [added EXCEPT ![arg[c]] = "no"]
  /\ arg' = [arg EXCEPT ![c] = None]
  /\ At(c, "idle") /\ AllocOver(c)
  /\ UNCHANGED <<m_xident_index, xident, kq, m_state, events, hold, ev, restVars>>

(* kevent fails: the identifier is given back. *)
SetEventFails(c) ==
  /\ pc[c] = "set_event"
  /\ free_xident(x[c])
  /\ Throws(c)

AllocFails(c) ==
  /\ pc[c] = "EMFILE"
  /\ Throws(c)
  /\ UNCHANGED m_xident

set_handler(c) ==
  /\ pc[c] = "set_handler"
  /\ m_state' = [m_state EXCEPT ![xident[arg[c]]] = arg[c]]
  /\ At(c, "return")
  /\ UNCHANGED <<xidentVars, allocVars, kq, added, events, hold, arg, ev, restVars>>

AddReturns(c) ==
  /\ pc[c] = "return"
  /\ added' = [added EXCEPT ![arg[c]] = "yes"]
  /\ At(c, "drop")
  /\ UNCHANGED <<xidentVars, allocVars, kq, m_state, events, hold, arg, ev, restVars>>

-----------------------------------------------------------------------------
(* remove_timer, remove_signal, ~timer and ~signal.                        *)

(* reset_handler leaves the thread with what m_state had. *)
Reset(t, i) ==
  /\ m_state' = [m_state EXCEPT ![i] = None]
  /\ hold' = [hold EXCEPT ![t] = @ \cup ({m_state[i]} \ {None})]

(* A handler that is still there is removed by identifier, in m_state and  *)
(* then in the kernel.  remove_signal deletes, before that, the            *)
(* registration of a signal numbered like the identifier: there is no such *)
(* signal, and the registration stays.                                     *)
remove(c, hd) ==
  /\ outside /\ pc[c] = "idle" /\ added[hd] = "yes"
  /\ \E i \in Xidents : m_state[i] = hd
  /\ added' = [added EXCEPT ![hd] = "removed"]
  /\ Reset(c, xident[hd])
  /\ later' = [later EXCEPT ![c] = IF hd \in Signals THEN None ELSE xident[hd]]
  /\ At(c, "drop")
  /\ UNCHANGED <<xidentVars, allocVars, kq, events, arg, ev, outside>>

(* The last shared pointer. *)
Last(t, hd) ==
  /\ \A i \in Xidents : m_state[i] # hd
  /\ \A u \in Threads \ {t} : hd \notin hold[u]

(* The thread lets go of a handler; the last one destroys it. *)
Drop(t) ==
  /\ pc[t] = "drop"
  /\ \E hd \in hold[t] :
       /\ hold' = [hold EXCEPT ![t] = @ \ {hd}]
       /\ IF Last(t, hd)
          THEN At(t, "~handler") /\ arg' = [arg EXCEPT ![t] = hd]
          ELSE UNCHANGED <<pc, arg>>
  /\ UNCHANGED <<xidentVars, allocVars, kq, handlerVars, events, ev, restVars>>

(* EV_DELETE of a timer; for a signal it finds nothing, as above. *)
Destroy(t) ==
  /\ pc[t] = "~handler"
  /\ IF arg[t] \in Signals THEN UNCHANGED kq ELSE EV_DELETE(xident[arg[t]])
  /\ At(t, "free_xident")
  /\ UNCHANGED <<xidentVars, allocVars, handlerVars, events, hold, arg, ev, restVars>>

Free(t) ==
  /\ pc[t] = "free_xident"
  /\ free_xident(xident[arg[t]])
  /\ xident' = [xident EXCEPT ![arg[t]] = None]
  /\ At(t, "drop")
  /\ UNCHANGED <<m_xident_index, allocVars, kq, handlerVars, events, hold, arg, ev, restVars>>

(* The call is over, but for kernel::remove_timer, by identifier. *)
Dropped(t) ==
  /\ pc[t] = "drop" /\ hold[t] = {}
  /\ IF later[t] = None THEN UNCHANGED kq ELSE EV_DELETE(later[t])
  /\ later' = [later EXCEPT ![t] = None] /\ arg' = [arg EXCEPT ![t] = None]
  /\ ev' = [w \in Workers |-> IF w = t THEN None ELSE ev[w]]
  /\ At(t, "idle")
  /\ UNCHANGED <<xidentVars, allocVars, handlerVars, events, hold, outside>>

-----------------------------------------------------------------------------
(* kevent, and a worker with an event (thread_main, process_handler).      *)

(* Mutant of Reported: the registration is made without EV_ONESHOT. *)
Reported_level(k) == kq

(* EV_ONESHOT: what is reported is deleted. *)
Reported(k) == [kq EXCEPT ![k] = None]

(* kernel::wait reports an expired timer or a signal. *)
wait(k) ==
  /\ kq[k] # None
  /\ events' = events \cup {kq[k]}
  /\ kq' = Reported(k)
  /\ UNCHANGED <<xidentVars, allocVars, handlerVars, pc, hold, arg, ev, restVars>>

(* shared_handler h = m_state[ident]; without one, remove does nothing. *)
Dispatch(w) ==
  /\ pc[w] = "idle"
  /\ \E e \in events :
       /\ events' = events \ {e}
       /\ ev' = [ev EXCEPT ![w] = e]
       /\ hold' = [hold EXCEPT ![w] = {m_state[e.ident]} \ {None}]
       /\ At(w, IF m_state[e.ident] = None THEN "reset_handler" ELSE "call")
  /\ UNCHANGED <<xidentVars, allocVars, kq, handlerVars, arg, restVars>>

(* A timer without an interval does not continue; kernel::remove, for one  *)
(* that does not, has nothing to do.                                       *)
Callback(w) ==
  /\ pc[w] = "call"
  /\ \E cont \in BOOLEAN :
       /\ cont => hold[w] \cap Oneshot = {}
       /\ At(w, IF cont THEN "reactivate" ELSE "reset_handler")
  /\ UNCHANGED <<xidentVars, allocVars, kq, handlerVars, events, hold, arg, ev, restVars>>

(* The registration is added again, as the event has it. *)
reactivate(w) ==
  /\ pc[w] = "reactivate"
  /\ EV_ADD(ev[w])
  /\ At(w, "drop")
  /\ UNCHANGED <<xidentVars, allocVars, handlerVars, events, hold, arg, ev, restVars>>

reset_handler(w) ==
  /\ pc[w] = "reset_handler"
  /\ Reset(w, ev[w].ident)
  /\ At(w, "drop")
  /\ UNCHANGED <<xidentVars, allocVars, kq, added, events, arg, ev, restVars>>

-----------------------------------------------------------------------------
Init ==
  /\ m_xident = [i \in Xidents |-> FALSE] /\ m_xident_index = 0
  /\ kq = [k \in Keys |-> None] /\ m_state = [i \in Xidents |-> None]
  /\ xident = [hd \in Handlers |-> None] /\ added = [hd \in Handlers |-> "no"]
  /\ events = {} /\ pc = [t \in Threads |-> "idle"]
  /\ x = [c \in Callers |-> 0] /\ probes = [c \in Callers |-> 0]
  /\ freeThroughout = [c \in Callers |-> {}]
  /\ hold = [t \in Threads |-> {}] /\ arg = [t \in Threads |-> None]
  /\ ev = [w \in Workers |-> None] /\ later = [t \in Threads |-> None]
  /\ outside \in BOOLEAN

Release(t) == Drop(t) \/ Destroy(t) \/ Free(t) \/ Dropped(t)

CallerStep(c) ==
  \/ \E hd \in Handlers : add(c, hd) \/ remove(c, hd)
  \/ FetchAndAdd(c) \/ CompareAndSwap(c)
  \/ SetEvent(c) \/ SetEventFails(c) \/ AllocFails(c)
  \/ set_handler(c) \/ AddReturns(c)

WorkerStep(w) ==
  Dispatch(w) \/ Callback(w) \/ reactivate(w) \/ reset_handler(w)

(* Every handler came and went. *)
Quiescent ==
  /\ \A t \in Threads : pc[t] = "idle"
  /\ UNCHANGED vars

Next ==
  \/ \E c \in Callers : CallerStep(c)
  \/ \E w \in Workers : WorkerStep(w)
  \/ \E t \in Threads : Release(t)
  \/ \E k \in Keys : wait(k)
  \/ Quiescent

Spec == Init /\ [][Next]_vars

-----------------------------------------------------------------------------
(* Properties.                                                             *)

(* alloc_xident reports EMFILE only if every identifier was taken at some  *)
(* moment of the call, as long as at most one other thread allocates: a    *)
(* thread that has fetched an index and not yet swapped hides one          *)
(* identifier from one round, and there are two rounds.  Threads take and  *)
(* free identifiers meanwhile.                                             *)
NoSpuriousEMFILE ==
  Cardinality(Callers) <= 2 =>
    \A c \in Callers : pc[c] = "EMFILE" => freeThroughout[c] = {}

(* An identifier belongs to one timer or signal from its registration to   *)
(* the end of its destructor.  A timer's registration is gone when its     *)
(* identifier is given back, although reactivate registers again what was  *)
(* removed meanwhile: the worker that does so still holds the timer.       *)
XidentOwned ==
  /\ \A a \in Handlers : xident[a] # None =>
       /\ m_xident[xident[a]]
       /\ \A b \in Handlers \ {a} : xident[b] # xident[a]
  /\ \A t \in Threads : pc[t] = "free_xident" /\ arg[t] \in Timers => kq[xident[arg[t]]] = None

(* If handlers end in their own callbacks only, an event reaches the       *)
(* handler it was asked for or none, however soon its identifier is used   *)
(* again.                                                                  *)
OwnEvent ==
  ~outside => \A w \in Workers : pc[w] = "call" => hold[w] = {ev[w].from}

-----------------------------------------------------------------------------
(* The inductive invariant behind these properties.                        *)

AllocPCs == {"fetch_and_add", "compare_and_swap", "set_event", "EMFILE"}
AddPCs == AllocPCs \cup {"set_handler", "return"}
DestroyPCs == {"~handler", "free_xident"}
WorkPCs == {"call", "reactivate", "reset_handler"}
Registrations == {Registration(hd, i) : hd \in Handlers, i \in Xidents}

TypeOK ==
  /\ m_xident \in [Xidents -> BOOLEAN] /\ m_xident_index \in 0..(Wrap - 1)
  /\ kq \in [Keys -> Registrations \cup {None}] /\ m_state \in [Xidents -> Handlers \cup {None}]
  /\ xident \in [Handlers -> Xidents \cup {None}]
  /\ added \in [Handlers -> {"no", "adding", "yes", "removed"}] /\ events \subseteq Registrations
  /\ pc \in [Threads -> {"idle", "drop"} \cup AddPCs \cup DestroyPCs \cup WorkPCs]
  /\ x \in [Callers -> Xidents] /\ probes \in [Callers -> Nat]
  /\ freeThroughout \in [Callers -> SUBSET Xidents]
  /\ hold \in [Threads -> SUBSET Handlers] /\ arg \in [Threads -> Handlers \cup {None}]
  /\ ev \in [Workers -> Registrations \cup {None}] /\ later \in [Threads -> Xidents \cup {None}]
  /\ outside \in BOOLEAN

(* Who is inside which call; a handler is added by one caller. *)
CallsOK ==
  /\ \A w \in Workers : pc[w] \notin AddPCs /\ (pc[w] \in WorkPCs => ev[w] \in Registrations)
  /\ \A c \in Callers :
       /\ pc[c] \notin WorkPCs /\ (pc[c] \notin AllocPCs => probes[c] = 0)
       /\ pc[c] \in AddPCs =>
            /\ arg[c] \in Handlers /\ added[arg[c]] = "adding"
            /\ \A d \in Callers \ {c} : pc[d] \in AddPCs => arg[d] # arg[c]
       /\ pc[c] \in AllocPCs => xident[arg[c]] = None
       /\ pc[c] \in {"set_handler", "return"} => arg[c] \in hold[c]

(* What m_state or a thread holds has an identifier; the thread that       *)
(* destroys a handler is the only one that has it.                         *)
LiveOK ==
  /\ \A hd \in Handlers : added[hd] = "no" => xident[hd] = None
  /\ \A i \in Xidents : m_state[i] # None => xident[m_state[i]] = i
  /\ \A t \in Threads : \A hd \in hold[t] : xident[hd] # None
  /\ \A t \in Threads : pc[t] \in DestroyPCs =>
       /\ arg[t] \in Handlers /\ xident[arg[t]] # None
       /\ \A i \in Xidents : m_state[i] # arg[t]
       /\ \A u \in Threads : arg[t] \notin hold[u]
       /\ \A u \in Threads \ {t} : pc[u] \in DestroyPCs => arg[u] # arg[t]

(* An identifier that was taken and not yet registered is its caller's. *)
TakenOK ==
  \A c \in Callers : pc[c] = "set_event" =>
    /\ m_xident[x[c]] /\ \A hd \in Handlers : xident[hd] # x[c]
    /\ \A d \in Callers \ {c} : pc[d] = "set_event" => x[d] # x[c]

(* A registration is under its key, and a worker that calls a handler or   *)
(* registers it again holds the handler that has the identifier.           *)
RegisteredOK ==
  /\ \A k \in Keys : kq[k] # None => kq[k].key = k
  /\ \A w \in Workers : pc[w] \in {"call", "reactivate"} =>
       \E hd \in hold[w] : xident[hd] = ev[w].ident

(* If handlers end in their own callbacks only, a registration, an event   *)
(* and a worker with an event are one of these, for a handler that is, or  *)
(* is about to be, in m_state under the identifier of the event.           *)
Current(r) ==
  /\ xident[r.from] = r.ident
  /\ m_state[r.ident] = r.from \/ \E c \in Callers : pc[c] = "set_handler" /\ arg[c] = r.from
OneToken ==
  ~outside =>
    /\ \A k \in Keys : kq[k] # None => Current(kq[k]) /\ kq[k] \notin events
    /\ \A r \in events : Current(r)
    /\ \A w \in Workers : pc[w] \in WorkPCs =>
         /\ Current(ev[w]) /\ ev[w] \notin events
         /\ \A k \in Keys : kq[k] # None => kq[k] # ev[w]
         /\ \A v \in Workers \ {w} : pc[v] \in WorkPCs => ev[v] # ev[w]

(* How far the index is from an identifier that stays free.  A caller that *)
(* has not met it has made fewer tries than the way to it leaves; if the   *)
(* other caller has fetched it, the index must come round once more.       *)
Distance(i) ==
  LET r == m_xident_index % XMAX IN IF r <= i THEN i - r ELSE i - r + XMAX
Tries(c) == IF pc[c] = "compare_and_swap" THEN probes[c] + 1 ELSE probes[c]
Fetched(c, i) == pc[c] = "compare_and_swap" /\ x[c] = i
ProbesOK ==
  \A c \in Callers :
    /\ \A i \in freeThroughout[c] : ~m_xident[i]
    /\ pc[c] \in {"fetch_and_add", "compare_and_swap", "EMFILE"} =>
         \A i \in freeThroughout[c] : ~Fetched(c, i) =>
           \/ Tries(c) + Distance(i) < XMAX
           \/ Tries(c) + Distance(i) < 2 * XMAX /\ \E d \in Callers \ {c} : Fetched(d, i)
    /\ pc[c] = "EMFILE" => probes[c] >= 2 * XMAX

KqueueInv ==
  /\ TypeOK /\ CallsOK /\ LiveOK /\ TakenOK /\ RegisteredOK /\ XidentOwned
  /\ OneToken /\ OwnEvent
  /\ Cardinality(Callers) <= 2 => ProbesOK

=============================================================================
