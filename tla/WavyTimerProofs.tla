-------------------------- MODULE WavyTimerProofs ---------------------------
(***************************************************************************)
(* While a worker runs a timer, or is about to re-arm or to remove it by   *)
(* number, the number still belongs to that timer, for any number of       *)
(* timers, descriptors, workers and callers: TimerInv (WavyTimer) is an    *)
(* inductive invariant.  A number is closed when the last shared pointer   *)
(* goes; that the number a thread uses is the one its pointer keeps open   *)
(* has to be carried through every exchange of m_state and of pointers.    *)
(***************************************************************************)
EXTENDS WavyTimer, TLAPS

(* What some shared_handler points to, member by member. *)
LEMMA HeldMember ==
  ASSUME NEW state, NEW hold
  PROVE  /\ \A f \in Fds : state[f] \in Held(state, hold)
         /\ \A t \in Threads : hold[t] \in Held(state, hold)
BY DEF Held

(* What Close leaves open. *)
LEMMA CloseKeeps ==
  ASSUME TimerInv, NEW kernel, NEW state, NEW hold, Close(kernel, state, hold), TypeOK',
         \A f \in Fds : state[f] # None => file[f] = state[f],
         \A t \in Threads : hold[t] # None => ident'[t] \in Fds /\ file[ident'[t]] = hold[t],
         \A f \in Fds : kernel[f] # "none" => file[f] # None,
         \A t \in Timers : added[t] # "no" => added'[t] # "no"
  PROVE  OpenOK'
<1>1. TypeOK /\ OpenOK /\ None \notin Timers
  BY TimerAssumption DEF TimerInv
<1>2. m_state' = state /\ h' = hold
  BY DEF Close
<1>3. PICK C : C = {f \in Fds : file[f] # None /\ file[f] \notin Held(state, hold)}
  OBVIOUS
<1>4. \A f \in Fds : file'[f] = IF f \in C THEN None ELSE file[f]
  BY <1>3 DEF Close
<1>5. \A f \in Fds : m_kernel'[f] = IF f \in C THEN "none" ELSE kernel[f]
  BY <1>3 DEF Close
<1>6. ASSUME NEW f \in Fds, file'[f] # None
      PROVE  added'[file'[f]] # "no" /\ file'[f] \in Held(state, hold)
  <2>1. file'[f] = file[f] /\ f \notin C /\ file[f] \in Timers
    BY <1>1, <1>4, <1>6 DEF TypeOK
  <2>2. QED
    BY <1>1, <1>3, <1>6, <2>1 DEF OpenOK
<1>7. ASSUME NEW f \in Fds, NEW g \in Fds, file'[f] # None, file'[g] = file'[f]
      PROVE  g = f
  BY <1>1, <1>4, <1>7 DEF OpenOK
<1>8. ASSUME NEW f \in Fds, state[f] # None PROVE file'[f] = state[f]
  BY <1>3, <1>4, <1>8, HeldMember
<1>9. ASSUME NEW f \in Fds, m_kernel'[f] # "none" PROVE file'[f] # None
  BY <1>4, <1>5, <1>9
<1>10. ASSUME NEW t \in Threads, hold[t] # None PROVE file'[ident'[t]] = hold[t]
  BY <1>3, <1>4, <1>10, HeldMember
<1>11. Held(m_state', h') = Held(state, hold)
  BY <1>2
<1>12. Held(m_state, h)' = Held(m_state', h')
  BY DEF Held
<1>13. QED
  BY <1>2, <1>6, <1>7, <1>8, <1>9, <1>10, <1>11, <1>12 DEF OpenOK

(* Close keeps the types. *)
LEMMA CloseTypes ==
  ASSUME TypeOK, NEW kernel \in [Fds -> Interest], NEW state, NEW hold, Close(kernel, state, hold)
  PROVE  /\ m_state' = state /\ h' = hold
         /\ file' \in [Fds -> Timers \cup {None}] /\ m_kernel' \in [Fds -> Interest]
<1>1. PICK C : C = {f \in Fds : file[f] # None /\ file[f] \notin Held(state, hold)}
  OBVIOUS
<1>2. /\ file' = [f \in Fds |-> IF f \in C THEN None ELSE file[f]]
      /\ m_kernel' = [f \in Fds |-> IF f \in C THEN "none" ELSE kernel[f]]
      /\ m_state' = state /\ h' = hold
  BY <1>1 DEF Close
<1>3. "none" \in Interest
  BY DEF Interest
<1>4. QED
  BY <1>2, <1>3 DEF TypeOK

(* Types. *)
LEMMA TypesKept ==
  ASSUME TimerInv, Next
  PROVE  TypeOK'
<1> USE TimerAssumption DEF timerVars, Threads, At, TypeOK, CallsOK
<1>1. TypeOK /\ CallsOK /\ OpenOK
  BY DEF TimerInv
<1>2. ASSUME NEW c \in Callers, NEW t \in Timers, add_timer(c, t) PROVE TypeOK'
  BY <1>2, <1>1 DEF add_timer, add_fd, Interest, Expiries
<1>3. ASSUME NEW c \in Callers, NEW t \in Timers, remove_timer(c, t) PROVE TypeOK'
  <2>1. PICK f \in Fds : /\ Close(m_kernel, [m_state EXCEPT ![f] = None], h)
                         /\ ident' = [ident EXCEPT ![c] = f]
    BY <1>3 DEF remove_timer
  <2>2. PICK state : state = [m_state EXCEPT ![f] = None]
    OBVIOUS
  <2>3. state \in [Fds -> Timers \cup {None}] /\ Close(m_kernel, state, h)
    BY <1>1, <2>1, <2>2
  <2>4. /\ m_state' = state /\ h' = h
        /\ file' \in [Fds -> Timers \cup {None}] /\ m_kernel' \in [Fds -> Interest]
    BY <1>1, <2>3, CloseTypes
  <2>5. QED
    BY <1>1, <1>3, <2>1, <2>3, <2>4 DEF remove_timer
<1>4. ASSUME NEW c \in Callers, set_handler(c) PROVE TypeOK'
  <2>1. PICK state, hold : state = [m_state EXCEPT ![ident[c]] = h[c]] /\ hold = h
    OBVIOUS
  <2>2. state \in [Fds -> Timers \cup {None}] /\ hold \in [Threads -> Timers \cup {None}]
    BY <1>1, <1>4, <2>1 DEF set_handler
  <2>3. Close(m_kernel, state, hold)
    BY <1>4, <2>1 DEF set_handler
  <2>4. /\ m_state' = state /\ h' = hold
        /\ file' \in [Fds -> Timers \cup {None}] /\ m_kernel' \in [Fds -> Interest]
    BY <1>1, <2>3, CloseTypes
  <2>5. QED
    BY <1>1, <1>4, <2>2, <2>4 DEF set_handler
<1>5. ASSUME NEW c \in Callers, AddReturns(c) PROVE TypeOK'
  <2>1. PICK state, hold : state = m_state /\ hold = [h EXCEPT ![c] = None]
    OBVIOUS
  <2>2. state \in [Fds -> Timers \cup {None}] /\ hold \in [Threads -> Timers \cup {None}]
    BY <1>1, <1>5, <2>1 DEF AddReturns
  <2>3. Close(m_kernel, state, hold)
    BY <1>5, <2>1 DEF AddReturns
  <2>4. /\ m_state' = state /\ h' = hold
        /\ file' \in [Fds -> Timers \cup {None}] /\ m_kernel' \in [Fds -> Interest]
    BY <1>1, <2>3, CloseTypes
  <2>5. QED
    BY <1>1, <1>5, <2>2, <2>4 DEF AddReturns
<1>6. ASSUME NEW c \in Callers, KernelRemove(c) PROVE TypeOK'
  BY <1>6, <1>1 DEF KernelRemove, remove, Interest
<1>7. ASSUME NEW w \in Workers, Dispatch(w) PROVE TypeOK'
  BY <1>7, <1>1 DEF Dispatch
<1>8. ASSUME NEW w \in Workers, Callback(w) PROVE TypeOK'
  BY <1>8, <1>1 DEF Callback, Continues
<1>9. ASSUME NEW w \in Workers, Reactivate(w) PROVE TypeOK'
  BY <1>9, <1>1 DEF Reactivate, reactivate, Interest
<1>10. ASSUME NEW w \in Workers, Remove(w) PROVE TypeOK'
  BY <1>10, <1>1 DEF Remove, remove, Interest
<1>11. ASSUME NEW w \in Workers, reset_handler(w) PROVE TypeOK'
  <2>1. PICK state, hold : state = [m_state EXCEPT ![ident[w]] = None] /\ hold = h
    OBVIOUS
  <2>2. state \in [Fds -> Timers \cup {None}] /\ hold \in [Threads -> Timers \cup {None}]
    BY <1>1, <1>11, <2>1 DEF reset_handler
  <2>3. Close(m_kernel, state, hold)
    BY <1>11, <2>1 DEF reset_handler
  <2>4. /\ m_state' = state /\ h' = hold
        /\ file' \in [Fds -> Timers \cup {None}] /\ m_kernel' \in [Fds -> Interest]
    BY <1>1, <2>3, CloseTypes
  <2>5. QED
    BY <1>1, <1>11, <2>2, <2>4 DEF reset_handler
<1>12. ASSUME NEW w \in Workers, Drop(w) PROVE TypeOK'
  <2>1. PICK state, hold : state = m_state /\ hold = [h EXCEPT ![w] = None]
    OBVIOUS
  <2>2. state \in [Fds -> Timers \cup {None}] /\ hold \in [Threads -> Timers \cup {None}]
    BY <1>1, <1>12, <2>1 DEF Drop
  <2>3. Close(m_kernel, state, hold)
    BY <1>12, <2>1 DEF Drop
  <2>4. /\ m_state' = state /\ h' = hold
        /\ file' \in [Fds -> Timers \cup {None}] /\ m_kernel' \in [Fds -> Interest]
    BY <1>1, <2>3, CloseTypes
  <2>5. QED
    BY <1>1, <1>12, <2>2, <2>4 DEF Drop
<1>13. ASSUME NEW t \in Timers, Expire(t) PROVE TypeOK'
  BY <1>13, <1>1 DEF Expire
<1>14. ASSUME NEW f \in Fds, Report(f) PROVE TypeOK'
  BY <1>14, <1>1 DEF Report, wait, Interest
<1>15. ASSUME start PROVE TypeOK'
  BY <1>15, <1>1 DEF start
<1>16. ASSUME Quiescent PROVE TypeOK'
  BY <1>16, <1>1 DEF Quiescent, vars
<1>17. QED
  BY <1>2, <1>3, <1>4, <1>5, <1>6, <1>7, <1>8, <1>9, <1>10, <1>11, <1>12, <1>13, <1>14,
     <1>15, <1>16
     DEF Next, CallerStep, WorkerStep
(* Numbers and handlers of calls. *)
LEMMA CallsKept ==
  ASSUME TimerInv, Next
  PROVE  CallsOK'
<1> USE TimerAssumption DEF timerVars, Threads, At, TypeOK, CallsOK
<1>1. TypeOK /\ CallsOK /\ OpenOK
  BY DEF TimerInv
<1>2. ASSUME NEW c \in Callers, NEW t \in Timers, add_timer(c, t) PROVE CallsOK'
  BY <1>2, <1>1 DEF add_timer
<1>3. ASSUME NEW c \in Callers, NEW t \in Timers, remove_timer(c, t) PROVE CallsOK'
  BY <1>3, <1>1 DEF remove_timer, Close
<1>4. ASSUME NEW c \in Callers, set_handler(c) PROVE CallsOK'
  BY <1>4, <1>1 DEF set_handler, Close
<1>5. ASSUME NEW c \in Callers, AddReturns(c) PROVE CallsOK'
  BY <1>5, <1>1 DEF AddReturns, Close
<1>6. ASSUME NEW c \in Callers, KernelRemove(c) PROVE CallsOK'
  BY <1>6, <1>1 DEF KernelRemove
<1>7. ASSUME NEW w \in Workers, Dispatch(w) PROVE CallsOK'
  BY <1>7, <1>1 DEF Dispatch
<1>8. ASSUME NEW w \in Workers, Callback(w) PROVE CallsOK'
  BY <1>8, <1>1 DEF Callback
<1>9. ASSUME NEW w \in Workers, Reactivate(w) PROVE CallsOK'
  BY <1>9, <1>1 DEF Reactivate
<1>10. ASSUME NEW w \in Workers, Remove(w) PROVE CallsOK'
  BY <1>10, <1>1 DEF Remove
<1>11. ASSUME NEW w \in Workers, reset_handler(w) PROVE CallsOK'
  BY <1>11, <1>1 DEF reset_handler, Close
<1>12. ASSUME NEW w \in Workers, Drop(w) PROVE CallsOK'
  BY <1>12, <1>1 DEF Drop, Close
<1>13. ASSUME NEW t \in Timers, Expire(t) PROVE CallsOK'
  BY <1>13, <1>1 DEF Expire
<1>14. ASSUME NEW f \in Fds, Report(f) PROVE CallsOK'
  BY <1>14, <1>1 DEF Report
<1>15. ASSUME start PROVE CallsOK'
  BY <1>15, <1>1 DEF start
<1>16. ASSUME Quiescent PROVE CallsOK'
  BY <1>16, <1>1 DEF Quiescent, vars
<1>17. QED
  BY <1>2, <1>3, <1>4, <1>5, <1>6, <1>7, <1>8, <1>9, <1>10, <1>11, <1>12, <1>13, <1>14,
     <1>15, <1>16
     DEF Next, CallerStep, WorkerStep
(* What is open. *)
LEMMA OpenKept ==
  ASSUME TimerInv, Next
  PROVE  OpenOK'
<1> USE TimerAssumption DEF timerVars, Threads, At, TypeOK, CallsOK
<1>1. TypeOK /\ CallsOK /\ OpenOK
  BY DEF TimerInv
<1>2. TypeOK'
  BY TypesKept
<1>3. ASSUME NEW c \in Callers, NEW t \in Timers, add_timer(c, t) PROVE OpenOK'
  BY <1>3, <1>1 DEF add_timer, OpenOK, Held, add_fd
<1>4. ASSUME NEW c \in Callers, NEW t \in Timers, remove_timer(c, t) PROVE OpenOK'
  <2>1. PICK f \in Fds : /\ Close(m_kernel, [m_state EXCEPT ![f] = None], h)
                         /\ ident' = [ident EXCEPT ![c] = f]
    BY <1>4 DEF remove_timer
  <2>2. PICK state : state = [m_state EXCEPT ![f] = None]
    OBVIOUS
  <2>3. \A g \in Fds : state[g] # None => file[g] = state[g]
    BY <1>1, <2>2 DEF OpenOK
  <2>4. \A u \in Threads : h[u] # None => ident'[u] \in Fds /\ file[ident'[u]] = h[u]
    BY <1>1, <1>4, <2>1 DEF remove_timer, OpenOK
  <2>5. \A u \in Timers : added[u] # "no" => added'[u] # "no"
    BY <1>1, <1>4 DEF remove_timer
  <2>6. \A g \in Fds : m_kernel[g] # "none" => file[g] # None
    BY <1>1 DEF OpenOK
  <2>7. Close(m_kernel, state, h)
    BY <2>1, <2>2
  <2>8. QED
    BY <1>2, <2>3, <2>4, <2>5, <2>6, <2>7, CloseKeeps
<1>5. ASSUME NEW c \in Callers, set_handler(c) PROVE OpenOK'
  <2>1. PICK state, hold : state = [m_state EXCEPT ![ident[c]] = h[c]] /\ hold = h
    OBVIOUS
  <2>2. Close(m_kernel, state, hold)
    BY <1>5, <2>1 DEF set_handler
  <2>3. \A f \in Fds : state[f] # None => file[f] = state[f]
    BY <1>1, <1>5, <2>1 DEF set_handler, OpenOK
  <2>4. \A t \in Threads : hold[t] # None => ident'[t] \in Fds /\ file[ident'[t]] = hold[t]
    BY <1>1, <1>5, <2>1 DEF set_handler, OpenOK
  <2>5. \A t \in Timers : added[t] # "no" => added'[t] # "no"
    BY <1>1, <1>5 DEF set_handler
  <2>6. \A f \in Fds : m_kernel[f] # "none" => file[f] # None
    BY <1>1 DEF OpenOK
  <2>7. QED
    BY <1>2, <2>2, <2>3, <2>4, <2>5, <2>6, CloseKeeps
<1>6. ASSUME NEW c \in Callers, AddReturns(c) PROVE OpenOK'
  <2>1. PICK state, hold : state = m_state /\ hold = [h EXCEPT ![c] = None]
    OBVIOUS
  <2>2. Close(m_kernel, state, hold)
    BY <1>6, <2>1 DEF AddReturns
  <2>3. \A f \in Fds : state[f] # None => file[f] = state[f]
    BY <1>1, <1>6, <2>1 DEF AddReturns, OpenOK
  <2>4. \A t \in Threads : hold[t] # None => ident'[t] \in Fds /\ file[ident'[t]] = hold[t]
    BY <1>1, <1>6, <2>1 DEF AddReturns, OpenOK
  <2>5. \A t \in Timers : added[t] # "no" => added'[t] # "no"
    BY <1>1, <1>6 DEF AddReturns
  <2>6. \A f \in Fds : m_kernel[f] # "none" => file[f] # None
    BY <1>1 DEF OpenOK
  <2>7. QED
    BY <1>2, <2>2, <2>3, <2>4, <2>5, <2>6, CloseKeeps
<1>7. ASSUME NEW c \in Callers, KernelRemove(c) PROVE OpenOK'
  BY <1>7, <1>1 DEF KernelRemove, OpenOK, Held, remove
<1>8. ASSUME NEW w \in Workers, Dispatch(w) PROVE OpenOK'
  BY <1>8, <1>1 DEF Dispatch, OpenOK, Held
<1>9. ASSUME NEW w \in Workers, Callback(w) PROVE OpenOK'
  BY <1>9, <1>1 DEF Callback, OpenOK, Held
<1>10. ASSUME NEW w \in Workers, Reactivate(w) PROVE OpenOK'
  BY <1>10, <1>1 DEF Reactivate, OpenOK, Held, reactivate
<1>11. ASSUME NEW w \in Workers, Remove(w) PROVE OpenOK'
  BY <1>11, <1>1 DEF Remove, OpenOK, Held, remove
<1>12. ASSUME NEW w \in Workers, reset_handler(w) PROVE OpenOK'
  <2>1. PICK state, hold : state = [m_state EXCEPT ![ident[w]] = None] /\ hold = h
    OBVIOUS
  <2>2. Close(m_kernel, state, hold)
    BY <1>12, <2>1 DEF reset_handler
  <2>3. \A f \in Fds : state[f] # None => file[f] = state[f]
    BY <1>1, <1>12, <2>1 DEF reset_handler, OpenOK
  <2>4. \A t \in Threads : hold[t] # None => ident'[t] \in Fds /\ file[ident'[t]] = hold[t]
    BY <1>1, <1>12, <2>1 DEF reset_handler, OpenOK
  <2>5. \A t \in Timers : added[t] # "no" => added'[t] # "no"
    BY <1>1, <1>12 DEF reset_handler
  <2>6. \A f \in Fds : m_kernel[f] # "none" => file[f] # None
    BY <1>1 DEF OpenOK
  <2>7. QED
    BY <1>2, <2>2, <2>3, <2>4, <2>5, <2>6, CloseKeeps
<1>13. ASSUME NEW w \in Workers, Drop(w) PROVE OpenOK'
  <2>1. PICK state, hold : state = m_state /\ hold = [h EXCEPT ![w] = None]
    OBVIOUS
  <2>2. Close(m_kernel, state, hold)
    BY <1>13, <2>1 DEF Drop
  <2>3. \A f \in Fds : state[f] # None => file[f] = state[f]
    BY <1>1, <1>13, <2>1 DEF Drop, OpenOK
  <2>4. \A t \in Threads : hold[t] # None => ident'[t] \in Fds /\ file[ident'[t]] = hold[t]
    BY <1>1, <1>13, <2>1 DEF Drop, OpenOK
  <2>5. \A t \in Timers : added[t] # "no" => added'[t] # "no"
    BY <1>1, <1>13 DEF Drop
  <2>6. \A f \in Fds : m_kernel[f] # "none" => file[f] # None
    BY <1>1 DEF OpenOK
  <2>7. QED
    BY <1>2, <2>2, <2>3, <2>4, <2>5, <2>6, CloseKeeps
<1>14. ASSUME NEW t \in Timers, Expire(t) PROVE OpenOK'
  BY <1>14, <1>1 DEF Expire, OpenOK, Held
<1>15. ASSUME NEW f \in Fds, Report(f) PROVE OpenOK'
  BY <1>15, <1>1 DEF Report, OpenOK, Held, wait
<1>16. ASSUME start PROVE OpenOK'
  BY <1>16, <1>1 DEF start, OpenOK, Held
<1>17. ASSUME Quiescent PROVE OpenOK'
  BY <1>17, <1>1 DEF Quiescent, vars, OpenOK, Held
<1>18. QED
  BY <1>3, <1>4, <1>5, <1>6, <1>7, <1>8, <1>9, <1>10, <1>11, <1>12, <1>13, <1>14, <1>15,
     <1>16, <1>17
     DEF Next, CallerStep, WorkerStep

(* The initial state satisfies the invariant. *)
LEMMA TimerInit ==
  ASSUME Init
  PROVE  TimerInv
<1>1. TypeOK
  BY TimerAssumption DEF Init, TypeOK, Interest
<1>2. CallsOK /\ OpenOK
  BY TimerAssumption DEF Init, CallsOK, OpenOK
<1>3. QED
  BY <1>1, <1>2 DEF TimerInv

(* The inductive invariant holds, for any timers, numbers and threads. *)
THEOREM TimerCorrect == Spec => []TimerInv
<1>1. Init => TimerInv
  BY TimerInit
<1>2. TimerInv /\ [Next]_vars => TimerInv'
  <2>1. ASSUME TimerInv, Next PROVE TimerInv'
    BY <2>1, TypesKept, CallsKept, OpenKept DEF TimerInv
  <2>2. ASSUME TimerInv, UNCHANGED vars PROVE TimerInv'
    BY <2>2 DEF vars, timerVars, TimerInv, TypeOK, CallsOK, OpenOK, Held
  <2>3. QED
    BY <2>1, <2>2
<1>3. QED
  BY <1>1, <1>2, PTL DEF Spec

(* While a worker has a timer's handler, the number that it will re-arm or *)
(* remove is that timer's.                                                 *)
THEOREM AlwaysOpenWhileCalled == Spec => []OpenWhileCalled
<1>1. TimerInv => OpenWhileCalled
  BY DEF TimerInv, OpenOK, OpenWhileCalled, Threads
<1>2. QED
  BY <1>1, TimerCorrect, PTL

(* No timerfd is leaked: one that is open is held by m_state, by a worker  *)
(* or by the caller that adds it; and none is registered with epoll once   *)
(* it is closed.                                                           *)
THEOREM NoTimerLeaked ==
  Spec => [](\A f \in Fds : /\ file[f] # None => file[f] \in Held(m_state, h)
                            /\ m_kernel[f] # "none" => file[f] # None)
<1>1. TimerInv => \A f \in Fds : /\ file[f] # None => file[f] \in Held(m_state, h)
                                 /\ m_kernel[f] # "none" => file[f] # None
  BY DEF TimerInv, OpenOK
<1>2. QED
  BY <1>1, TimerCorrect, PTL

=============================================================================
