----------------------------- MODULE WavyTimer ------------------------------
(***************************************************************************)
(* Timers of the event loop (mpsrc/wavy_timer.cc, mpsrc/wavy_timer.h and   *)
(* the timer part of mpsrc/wavy_kernel_epoll.h).  A timer is a handler     *)
(* that owns a timerfd.  The handler is held by m_state, by the worker     *)
(* that runs it and by the thread that adds it; when the last of them      *)
(* drops it, the descriptor is closed, epoll forgets it and its number may *)
(* be given to the next timer.  Events carry the number only.              *)
(*                                                                         *)
(* Of the loop (WavyLoop) this module keeps what happens to one event:     *)
(* it is reported, taken by a worker, dispatched through m_state, and its  *)
(* descriptor is re-armed or removed.  Expiry is a step of its own: there  *)
(* is no clock.                                                            *)
(***************************************************************************)
EXTENDS WavyKernel

CONSTANTS
  Timers,       \* the timers that the program adds, each once
  Fds,          \* descriptor numbers
  Workers, Callers,
  None,
  Value,        \* per timer: value_sec; negative: none
  Interval,     \* per timer: interval_sec; not positive: none
  MaxExpiry     \* bound: expiries of a periodic timer

ASSUME TimerAssumption ==
  /\ Value \in [Timers -> Int] /\ Interval \in [Timers -> Int]
  /\ Workers \cap Callers = {} /\ None \notin Timers \cup Fds
  /\ MaxExpiry \in Nat

VARIABLES
  file,         \* per number: the timer whose timerfd is open under it
  m_kernel, m_state,
  events,       \* per number: events reported and not yet taken
  left, ready,  \* per timer: expiries to come; the timerfd is readable
  added,        \* per timer: "no", "adding", "yes", "removed"
  calls,        \* per timer: calls of its callback
  running,
  early,        \* the program adds its timers before it starts the workers
  pc, ident, h  \* per thread: step, number, handler held

timerVars == <<left, ready, calls>>
vars == <<file, m_kernel, m_state, events, timerVars, added, running, early, pc, ident, h>>

Threads == Workers \cup Callers
At(t, step) == pc' = [pc EXCEPT ![t] = step]

(* it_value of the timerfd: add_timer(double, double) passes no value for  *)
(* a negative one, and kernel::add_timer then takes the interval.  Zero    *)
(* leaves the timer disarmed.                                              *)
FirstExpiry(t) ==
  IF Value[t] >= 0 THEN Value[t] ELSE IF Interval[t] > 0 THEN Interval[t] ELSE 0

m_periodic(t) == Interval[t] > 0

Expiries(t) ==
  IF FirstExpiry(t) = 0 THEN 0 ELSE IF m_periodic(t) THEN MaxExpiry ELSE 1

(* Mutant of Held: the worker keeps a plain pointer. *)
Held_plain(state, hold) ==
  {state[f] : f \in Fds} \cup {hold[c] : c \in Callers}

(* The handlers that some shared_handler points to. *)
Held(state, hold) == {state[f] : f \in Fds} \cup {hold[t] : t \in Threads}

(* ~timer: descriptors of handlers that nobody holds any more are closed.  *)
Close(kernel, state, hold) ==
  LET closed == {f \in Fds : file[f] # None /\ file[f] \notin Held(state, hold)} IN
  /\ m_state' = state /\ h' = hold
  /\ file' = [f \in Fds |-> IF f \in closed THEN None ELSE file[f]]
  /\ m_kernel' = [f \in Fds |-> IF f \in closed THEN "none" ELSE kernel[f]]

-----------------------------------------------------------------------------
(* add_timer and remove_timer.                                             *)

(* timer_handler(): the timerfd is created, set and registered. *)
add_timer(c, t) ==
  /\ pc[c] = "idle" /\ added[t] = "no" /\ (early => ~running)
  /\ \E f \in Fds :
       /\ file[f] = None
       /\ file' = [file EXCEPT ![f] = t]
       /\ m_kernel' = add_fd(m_kernel, f)
       /\ ident' = [ident EXCEPT ![c] = f]
  /\ h' = [h EXCEPT ![c] = t]
  /\ left' = [left EXCEPT ![t] = Expiries(t)]
  /\ added' = [added EXCEPT ![t] = "adding"]
  /\ At(c, "set_handler")
  /\ UNCHANGED <<m_state, events, ready, calls, running, early>>

set_handler(c) ==
  /\ pc[c] = "set_handler"
  /\ Close(m_kernel, [m_state EXCEPT ![ident[c]] = h[c]], h)
  /\ At(c, "return")
  /\ UNCHANGED <<events, timerVars, added, running, early, ident>>

(* return sh->ident(), and sh is dropped. *)
AddReturns(c) ==
  /\ pc[c] = "return"
  /\ added' = [added EXCEPT ![h[c]] = "yes"]
  /\ Close(m_kernel, m_state, [h EXCEPT ![c] = None])
  /\ At(c, "idle")
  /\ UNCHANGED <<events, timerVars, running, early, ident>>

(* remove_timer of a timer that is still open: reset_handler first. *)
remove_timer(c, t) ==
  /\ pc[c] = "idle" /\ added[t] = "yes"
  /\ \E f \in Fds :
       /\ file[f] = t
       /\ Close(m_kernel, [m_state EXCEPT ![f] = None], h)
       /\ ident' = [ident EXCEPT ![c] = f]
  /\ added' = [added EXCEPT ![t] = "removed"]
  /\ At(c, "kernel_remove")
  /\ UNCHANGED <<events, timerVars, running, early>>

(* kernel::remove_timer, by number: whatever has it now. *)
KernelRemove(c) ==
  /\ pc[c] = "kernel_remove"
  /\ m_kernel' = remove(m_kernel, ident[c])
  /\ At(c, "idle")
  /\ UNCHANGED <<file, m_state, events, timerVars, added, running, early, ident, h>>

start ==
  /\ ~running /\ running' = TRUE
  /\ early => \A t \in Timers : added[t] # "adding"
  /\ UNCHANGED <<file, m_kernel, m_state, events, timerVars, added, early, pc, ident, h>>

-----------------------------------------------------------------------------
(* The operating system.                                                   *)

Expire(t) ==
  /\ left[t] > 0 /\ \E f \in Fds : file[f] = t
  /\ left' = [left EXCEPT ![t] = @ - 1]
  /\ ready' = [ready EXCEPT ![t] = TRUE]
  /\ UNCHANGED <<file, m_kernel, m_state, events, calls, added, running, early, pc, ident, h>>

(* epoll_wait reports one readable timerfd. *)
Report(f) ==
  /\ running /\ m_kernel[f] = "armed" /\ file[f] # None /\ ready[file[f]]
  /\ m_kernel' = wait(m_kernel, <<f>>)
  /\ events' = [events EXCEPT ![f] = @ + 1]
  /\ UNCHANGED <<file, m_state, timerVars, added, running, early, pc, ident, h>>

-----------------------------------------------------------------------------
(* A worker with an event (thread_main, process_handler).                  *)

(* shared_handler h = m_state[ident]: the worker may find none. *)
Dispatch(w) ==
  /\ pc[w] = "idle"
  /\ \E f \in Fds :
       /\ events[f] > 0
       /\ events' = [events EXCEPT ![f] = @ - 1]
       /\ ident' = [ident EXCEPT ![w] = f]
       /\ h' = [h EXCEPT ![w] = m_state[f]]
       /\ At(w, IF m_state[f] = None THEN "remove" ELSE "call")
  /\ UNCHANGED <<file, m_kernel, m_state, timerVars, added, running, early>>

(* Mutant of Continues: m_periodic is not looked at. *)
Continues_always(t) == BOOLEAN

(* m_callback() && m_periodic. *)
Continues(t) == IF m_periodic(t) THEN BOOLEAN ELSE {FALSE}

(* timer_handler::operator(): read_timer, then the callback. *)
Callback(w) ==
  /\ pc[w] = "call"
  /\ ready' = [ready EXCEPT ![h[w]] = FALSE]
  /\ calls' = [calls EXCEPT ![h[w]] = @ + 1]
  /\ \E cont \in Continues(h[w]) : At(w, IF cont THEN "reactivate" ELSE "remove")
  /\ UNCHANGED <<file, m_kernel, m_state, events, left, added, running, early, ident, h>>

Reactivate(w) ==
  /\ pc[w] = "reactivate"
  /\ m_kernel' = reactivate(m_kernel, ident[w])
  /\ At(w, "drop")
  /\ UNCHANGED <<file, m_state, events, timerVars, added, running, early, ident, h>>

Remove(w) ==
  /\ pc[w] = "remove"
  /\ m_kernel' = remove(m_kernel, ident[w])
  /\ At(w, "reset_handler")
  /\ UNCHANGED <<file, m_state, events, timerVars, added, running, early, ident, h>>

reset_handler(w) ==
  /\ pc[w] = "reset_handler"
  /\ Close(m_kernel, [m_state EXCEPT ![ident[w]] = None], h)
  /\ At(w, "drop")
  /\ UNCHANGED <<events, timerVars, added, running, early, ident>>

(* h goes out of scope. *)
Drop(w) ==
  /\ pc[w] = "drop"
  /\ Close(m_kernel, m_state, [h EXCEPT ![w] = None])
  /\ At(w, "idle")
  /\ UNCHANGED <<events, timerVars, added, running, early, ident>>

-----------------------------------------------------------------------------
Init ==
  /\ file = [f \in Fds |-> None]
  /\ m_kernel = [f \in Fds |-> "none"] /\ m_state = [f \in Fds |-> None]
  /\ events = [f \in Fds |-> 0]
  /\ left = [t \in Timers |-> 0] /\ ready = [t \in Timers |-> FALSE]
  /\ calls = [t \in Timers |-> 0] /\ added = [t \in Timers |-> "no"]
  /\ running = FALSE /\ early \in BOOLEAN
  /\ pc = [t \in Threads |-> "idle"]
  /\ ident = [t \in Threads |-> None] /\ h = [t \in Threads |-> None]

CallerStep(c) ==
  \/ \E t \in Timers : add_timer(c, t) \/ remove_timer(c, t)
  \/ set_handler(c) \/ AddReturns(c) \/ KernelRemove(c)

WorkerStep(w) ==
  \/ Dispatch(w) \/ Callback(w) \/ Reactivate(w) \/ Remove(w)
  \/ reset_handler(w) \/ Drop(w)

(* Nothing is under way, and nothing more will expire. *)
Quiescent ==
  /\ running /\ \A t \in Threads : pc[t] = "idle"
  /\ \A f \in Fds : events[f] = 0
  /\ UNCHANGED vars

Next ==
  \/ \E c \in Callers : CallerStep(c)
  \/ \E w \in Workers : WorkerStep(w)
  \/ \E t \in Timers : Expire(t)
  \/ \E f \in Fds : Report(f)
  \/ start \/ Quiescent

Spec == Init /\ [][Next]_vars

(* Threads go on inside a call, workers poll and take events. *)
Fairness ==
  /\ \A w \in Workers : WF_vars(WorkerStep(w))
  /\ \A f \in Fds : WF_vars(Report(f))
  /\ \A c \in Callers : WF_vars(set_handler(c) \/ AddReturns(c) \/ KernelRemove(c))
  /\ WF_vars(start)

LiveSpec == Spec /\ Fairness

-----------------------------------------------------------------------------
(* Properties.                                                             *)

(* While a worker runs a timer, or is about to re-arm or to remove it by   *)
(* number, the number still belongs to that timer, although others may     *)
(* remove timers and add new ones meanwhile.                               *)
OpenWhileCalled ==
  \A w \in Workers : h[w] # None => file[ident[w]] = h[w]

(* If timers are added before the workers start, every expiry is answered: *)
(* the callback is called, or the timer is closed.                         *)
TimersFire ==
  \A t \in Timers : early /\ ready[t] ~> (~ready[t] \/ t \notin {file[f] : f \in Fds})

(* A timer that was removed, and one without an interval after its call,   *)
(* gives its descriptor back, whoever is using it.                         *)
TimersEnd ==
  \A t \in Timers : added[t] = "removed" \/ (calls[t] > 0 /\ ~m_periodic(t)) ~>
                     t \notin {file[f] : f \in Fds}

-----------------------------------------------------------------------------
(* The inductive invariant behind OpenWhileCalled.                         *)

TypeOK ==
  /\ file \in [Fds -> Timers \cup {None}] /\ m_state \in [Fds -> Timers \cup {None}]
  /\ m_kernel \in [Fds -> Interest] /\ events \in [Fds -> Nat]
  /\ left \in [Timers -> Nat] /\ ready \in [Timers -> BOOLEAN] /\ calls \in [Timers -> Nat]
  /\ added \in [Timers -> {"no", "adding", "yes", "removed"}]
  /\ running \in BOOLEAN /\ early \in BOOLEAN
  /\ pc \in [Threads -> {"idle", "set_handler", "return", "kernel_remove", "call",
                         "reactivate", "remove", "reset_handler", "drop"}]
  /\ ident \in [Threads -> Fds \cup {None}] /\ h \in [Threads -> Timers \cup {None}]

(* A thread inside a call has a number, and a handler unless there was     *)
(* none for its event.                                                     *)
CallsOK ==
  \A t \in Threads :
    /\ pc[t] # "idle" => ident[t] \in Fds
    /\ pc[t] \in {"idle", "kernel_remove"} => h[t] = None
    /\ pc[t] \in {"set_handler", "return", "call", "reactivate"} => h[t] # None

(* A number is open for one timer, and as long as something holds the      *)
(* timer; what m_state and the threads hold is open under their number,    *)
(* and no other number is registered.                                      *)
OpenOK ==
  /\ \A f \in Fds :
       /\ file[f] # None => added[file[f]] # "no" /\ file[f] \in Held(m_state, h)
       /\ \A g \in Fds : file[f] # None /\ file[g] = file[f] => g = f
       /\ m_state[f] # None => file[f] = m_state[f]
       /\ m_kernel[f] # "none" => file[f] # None
  /\ \A t \in Threads : h[t] # None => file[ident[t]] = h[t]

TimerInv == TypeOK /\ CallsOK /\ OpenOK

=============================================================================
