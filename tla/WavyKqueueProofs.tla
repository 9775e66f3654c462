-------------------------- MODULE WavyKqueueProofs --------------------------
(***************************************************************************)
(* The identifiers of timers and signals over kqueue, for any number of    *)
(* handlers, identifiers, workers and callers: KqueueInv (WavyKqueue) is   *)
(* an inductive invariant.  An identifier has one owner, an event reaches  *)
(* the handler that it was asked for if handlers end in their callbacks    *)
(* only, and alloc_xident does not give up while an identifier is free if  *)
(* at most two threads allocate.                                           *)
(***************************************************************************)
EXTENDS WavyKqueue, FiniteSetTheorems, TLAPS

-----------------------------------------------------------------------------
(* Registrations.                                                          *)

(* The fields of a registration. *)
LEMMA RegistrationFields ==
  ASSUME NEW hd \in Handlers, NEW i \in Xidents
  PROVE  /\ Registration(hd, i) \in Registrations /\ Registration(hd, i).key \in Keys
         /\ Registration(hd, i).ident = i /\ Registration(hd, i).from = hd
         /\ Registration(hd, i).key = Key(hd, i)
BY DEF Registration, Registrations, Key, Keys, Handlers

(* A registration is known by whom it was asked for and its identifier,    *)
(* and one under an identifier goes there.                                 *)
LEMMA RegistrationFacts ==
  ASSUME NEW r \in Registrations
  PROVE  /\ r.key \in Keys /\ r.ident \in Xidents /\ r.from \in Handlers
         /\ r = Registration(r.from, r.ident) /\ (r.key \in Xidents => r.key = r.ident)
<1>1. PICK hd \in Handlers, i \in Xidents : r = Registration(hd, i)
  BY DEF Registrations
<1>2. r.key = Key(hd, i) /\ r.ident = i /\ r.from = hd /\ r.key \in Keys
  BY <1>1, RegistrationFields
<1>3. r.key \in Xidents => r.key = r.ident
  BY <1>2, KqueueAssumption DEF Key, Handlers
<1>4. QED
  BY <1>1, <1>2, <1>3

-----------------------------------------------------------------------------
(* Types and calls.                                                        *)

(* The index stays below Wrap, and names an identifier. *)
LEMMA IndexFacts ==
  ASSUME NEW n \in 0..(Wrap - 1)
  PROVE  n \in Nat /\ (n + 1) % Wrap \in 0..(Wrap - 1) /\ n % XMAX \in Xidents
<1>1. Wrap \in Nat /\ Wrap > 0 /\ XMAX \in Nat /\ XMAX > 0 /\ n \in Nat
  BY KqueueAssumption
<1>2. QED
  BY <1>1 DEF Xidents

(* An entry of a table is set. *)
LEMMA SetTrue ==
  ASSUME NEW S, NEW f \in [S -> BOOLEAN], NEW i \in S
  PROVE  [f EXCEPT ![i] = TRUE] \in [S -> BOOLEAN]
OBVIOUS

(* reset_handler and what it leaves. *)
LEMMA ResetTypes ==
  ASSUME TypeOK, NEW t \in Threads, NEW i \in Xidents, Reset(t, i)
  PROVE  m_state' \in [Xidents -> Handlers \cup {None}] /\ hold' \in [Threads -> SUBSET Handlers]
<1>1. m_state[i] \in Handlers \cup {None}
  BY DEF TypeOK
<1>2. hold[t] \cup ({m_state[i]} \ {None}) \in SUBSET Handlers
  BY <1>1 DEF TypeOK
<1>3. m_state' \in [Xidents -> Handlers \cup {None}]
  BY DEF TypeOK, Reset
<1>4. hold' \in [Threads -> SUBSET Handlers]
  BY <1>2 DEF TypeOK, Reset
<1>5. QED
  BY <1>3, <1>4

(* The end of alloc_xident. *)
LEMMA AllocOverTypes ==
  ASSUME TypeOK, NEW c \in Callers, AllocOver(c)
  PROVE  /\ x' \in [Callers -> Xidents] /\ probes' \in [Callers -> Nat]
         /\ freeThroughout' \in [Callers -> SUBSET Xidents]
<1>1. 0 \in Xidents
  BY KqueueAssumption DEF Xidents
<1>2. x' \in [Callers -> Xidents] /\ probes' \in [Callers -> Nat]
  BY <1>1 DEF AllocOver, TypeOK
<1>3. freeThroughout' \in [Callers -> SUBSET Xidents]
  BY DEF AllocOver, TypeOK
<1>4. QED
  BY <1>2, <1>3

(* The handler that is removed is in m_state under its identifier. *)
LEMMA RemovedThere ==
  ASSUME LiveOK, TypeOK, NEW c \in Callers, NEW hd \in Handlers, remove(c, hd)
  PROVE  xident[hd] \in Xidents /\ m_state[xident[hd]] = hd
BY KqueueAssumption DEF remove, LiveOK, TypeOK

(* Types. *)
LEMMA TypesKept ==
  ASSUME KqueueInv, Next
  PROVE  TypeOK'
<1> USE KqueueAssumption
        DEF xidentVars, allocVars, handlerVars, restVars, Threads, At, AllocPCs, AddPCs,
            DestroyPCs, WorkPCs, TypeOK, CallsOK
<1>1. TypeOK /\ CallsOK /\ LiveOK /\ TakenOK /\ RegisteredOK /\ XidentOwned
  BY DEF KqueueInv
<1>2. ASSUME NEW c \in Callers, NEW hd \in Handlers, add(c, hd) PROVE TypeOK'
  BY <1>2, <1>1 DEF add
<1>3. ASSUME NEW c \in Callers, NEW hd \in Handlers, remove(c, hd) PROVE TypeOK'
  <2>1. xident[hd] \in Xidents
    BY <1>1, <1>3, RemovedThere
  <2>2. m_state' \in [Xidents -> Handlers \cup {None}] /\ hold' \in [Threads -> SUBSET Handlers]
    BY <1>1, <1>3, <2>1, ResetTypes DEF remove
  <2>3. later' \in [Threads -> Xidents \cup {None}]
    BY <1>1, <1>3, <2>1 DEF remove
  <2>4. QED
    BY <1>1, <1>3, <2>2, <2>3 DEF remove
<1>4. ASSUME NEW c \in Callers, FetchAndAdd(c) PROVE TypeOK'
  <2>1. (m_xident_index + 1) % Wrap \in 0..(Wrap - 1) /\ m_xident_index % XMAX \in Xidents
    BY <1>1, IndexFacts
  <2>2. QED
    BY <1>1, <1>4, <2>1 DEF FetchAndAdd
<1>5. ASSUME NEW c \in Callers, CompareAndSwap(c) PROVE TypeOK'
  <2>1. m_xident' \in [Xidents -> BOOLEAN]
    <3>1. m_xident' = [m_xident EXCEPT ![x[c]] = TRUE] \/ m_xident' = m_xident
      BY <1>5 DEF CompareAndSwap
    <3>2. m_xident \in [Xidents -> BOOLEAN] /\ x[c] \in Xidents
      BY <1>1
    <3>3. QED
      BY <3>1, <3>2, SetTrue
  <2>2. freeThroughout' \in [Callers -> SUBSET Xidents]
    BY <1>1, <1>5 DEF CompareAndSwap
  <2>3. probes' \in [Callers -> Nat]
    BY <1>1, <1>5 DEF CompareAndSwap
  <2>4. pc' \in [Threads -> {"idle", "drop"} \cup AddPCs \cup DestroyPCs \cup WorkPCs]
    BY <1>1, <1>5 DEF CompareAndSwap
  <2>5. QED
    BY <1>1, <1>5, <2>1, <2>2, <2>3, <2>4 DEF CompareAndSwap
<1>6. ASSUME NEW c \in Callers, SetEvent(c) PROVE TypeOK'
  <2>1. AllocOver(c) /\ arg[c] \in Handlers /\ x[c] \in Xidents
    BY <1>1, <1>6 DEF SetEvent
  <2>2. /\ x' \in [Callers -> Xidents] /\ probes' \in [Callers -> Nat]
        /\ freeThroughout' \in [Callers -> SUBSET Xidents]
    BY <1>1, <2>1, AllocOverTypes
  <2>3. PICK r \in Registrations : r = Registration(arg[c], x[c]) /\ r.key \in Keys
    BY <2>1, RegistrationFields
  <2>4. kq' = [kq EXCEPT ![r.key] = r]
    BY <1>6, <2>3 DEF SetEvent, EV_ADD
  <2>5. kq' \in [Keys -> Registrations \cup {None}]
    BY <1>1, <2>3, <2>4
  <2>6. xident' \in [Handlers -> Xidents \cup {None}] /\ hold' \in [Threads -> SUBSET Handlers]
    BY <1>1, <1>6, <2>1 DEF SetEvent
  <2>7. QED
    BY <1>1, <1>6, <2>2, <2>5, <2>6 DEF SetEvent
<1>7. ASSUME NEW c \in Callers, SetEventFails(c) PROVE TypeOK'
  <2>1. AllocOver(c) /\ At(c, "idle") /\ arg[c] \in Handlers
    BY <1>1, <1>7 DEF SetEventFails, Throws
  <2>2. /\ x' \in [Callers -> Xidents] /\ probes' \in [Callers -> Nat]
        /\ freeThroughout' \in [Callers -> SUBSET Xidents]
    BY <1>1, <2>1, AllocOverTypes
  <2>3. m_xident' \in [Xidents -> BOOLEAN]
    BY <1>1, <1>7 DEF SetEventFails, free_xident
  <2>4. QED
    BY <1>1, <1>7, <2>1, <2>2, <2>3 DEF SetEventFails, Throws
<1>8. ASSUME NEW c \in Callers, AllocFails(c) PROVE TypeOK'
  <2>1. AllocOver(c) /\ At(c, "idle") /\ arg[c] \in Handlers
    BY <1>1, <1>8 DEF AllocFails, Throws
  <2>2. /\ x' \in [Callers -> Xidents] /\ probes' \in [Callers -> Nat]
        /\ freeThroughout' \in [Callers -> SUBSET Xidents]
    BY <1>1, <2>1, AllocOverTypes
  <2>3. m_xident' \in [Xidents -> BOOLEAN]
    BY <1>1, <1>8 DEF AllocFails
  <2>4. QED
    BY <1>1, <1>8, <2>1, <2>2, <2>3 DEF AllocFails, Throws
<1>9. ASSUME NEW c \in Callers, set_handler(c) PROVE TypeOK'
  BY <1>9, <1>1 DEF set_handler
<1>10. ASSUME NEW c \in Callers, AddReturns(c) PROVE TypeOK'
  BY <1>10, <1>1 DEF AddReturns
<1>11. ASSUME NEW w \in Workers, Dispatch(w) PROVE TypeOK'
  <2>1. PICK e \in events : /\ events' = events \ {e} /\ ev' = [ev EXCEPT ![w] = e]
                            /\ hold' = [hold EXCEPT ![w] = {m_state[e.ident]} \ {None}]
                            /\ At(w, IF m_state[e.ident] = None THEN "reset_handler" ELSE "call")
    BY <1>11 DEF Dispatch
  <2>2. e \in Registrations /\ e.ident \in Xidents
    BY <1>1, <2>1, RegistrationFacts
  <2>3. {m_state[e.ident]} \ {None} \in SUBSET Handlers
    BY <1>1, <2>2
  <2>4. hold' \in [Threads -> SUBSET Handlers] /\ ev' \in [Workers -> Registrations \cup {None}]
    BY <1>1, <2>1, <2>2, <2>3
  <2>5. QED
    BY <1>1, <1>11, <2>1, <2>4 DEF Dispatch
<1>12. ASSUME NEW w \in Workers, Callback(w) PROVE TypeOK'
  BY <1>12, <1>1 DEF Callback
<1>13. ASSUME NEW w \in Workers, reactivate(w) PROVE TypeOK'
  <2>1. ev[w] \in Registrations
    BY <1>1, <1>13 DEF reactivate
  <2>2. ev[w].key \in Keys
    BY <2>1, RegistrationFacts
  <2>3. kq' \in [Keys -> Registrations \cup {None}]
    BY <1>1, <1>13, <2>1, <2>2 DEF reactivate, EV_ADD
  <2>4. QED
    BY <1>1, <1>13, <2>3 DEF reactivate
<1>14. ASSUME NEW w \in Workers, reset_handler(w) PROVE TypeOK'
  <2>1. ev[w] \in Registrations
    BY <1>1, <1>14 DEF reset_handler
  <2>2. ev[w].ident \in Xidents
    BY <2>1, RegistrationFacts
  <2>3. m_state' \in [Xidents -> Handlers \cup {None}] /\ hold' \in [Threads -> SUBSET Handlers]
    BY <1>1, <1>14, <2>2, ResetTypes DEF reset_handler
  <2>4. QED
    BY <1>1, <1>14, <2>3 DEF reset_handler
<1>15. ASSUME NEW t \in Threads, Drop(t) PROVE TypeOK'
  BY <1>15, <1>1 DEF Drop
<1>16. ASSUME NEW t \in Threads, Destroy(t) PROVE TypeOK'
  BY <1>16, <1>1 DEF Destroy, EV_DELETE
<1>17. ASSUME NEW t \in Threads, Free(t) PROVE TypeOK'
  BY <1>17, <1>1 DEF Free, free_xident
<1>18. ASSUME NEW t \in Threads, Dropped(t) PROVE TypeOK'
  <2>1. kq' \in [Keys -> Registrations \cup {None}]
    BY <1>1, <1>18 DEF Dropped, EV_DELETE
  <2>2. ev' \in [Workers -> Registrations \cup {None}]
    BY <1>1, <1>18 DEF Dropped
  <2>3. QED
    BY <1>1, <1>18, <2>1, <2>2 DEF Dropped
<1>19. ASSUME NEW k \in Keys, wait(k) PROVE TypeOK'
  BY <1>19, <1>1 DEF wait, Reported
<1>20. ASSUME Quiescent PROVE TypeOK'
  BY <1>20, <1>1 DEF Quiescent, vars
<1>21. QED
  BY <1>2, <1>3, <1>4, <1>5, <1>6, <1>7, <1>8, <1>9, <1>10, <1>11, <1>12, <1>13, <1>14,
     <1>15, <1>16, <1>17, <1>18, <1>19, <1>20
     DEF Next, CallerStep, WorkerStep, Release
(* Calls. *)
LEMMA CallsKept ==
  ASSUME KqueueInv, Next
  PROVE  CallsOK'
<1> USE KqueueAssumption
        DEF xidentVars, allocVars, handlerVars, restVars, Threads, At, AllocPCs, AddPCs,
            DestroyPCs, WorkPCs, TypeOK, CallsOK
<1>1. TypeOK /\ CallsOK /\ LiveOK /\ TakenOK /\ RegisteredOK /\ XidentOwned
  BY DEF KqueueInv
<1>2. ASSUME NEW c \in Callers, NEW hd \in Handlers, add(c, hd) PROVE CallsOK'
  BY <1>2, <1>1 DEF add, LiveOK
<1>3. ASSUME NEW c \in Callers, NEW hd \in Handlers, remove(c, hd) PROVE CallsOK'
  BY <1>3, <1>1 DEF remove, Reset
<1>4. ASSUME NEW c \in Callers, FetchAndAdd(c) PROVE CallsOK'
  BY <1>4, <1>1 DEF FetchAndAdd
<1>5. ASSUME NEW c \in Callers, CompareAndSwap(c) PROVE CallsOK'
  BY <1>5, <1>1 DEF CompareAndSwap, Swaps
<1>6. ASSUME NEW c \in Callers, SetEvent(c) PROVE CallsOK'
  BY <1>6, <1>1 DEF SetEvent, AllocOver, EV_ADD
<1>7. ASSUME NEW c \in Callers, SetEventFails(c) PROVE CallsOK'
  BY <1>7, <1>1 DEF SetEventFails, free_xident, Throws, AllocOver
<1>8. ASSUME NEW c \in Callers, AllocFails(c) PROVE CallsOK'
  BY <1>8, <1>1 DEF AllocFails, Throws, AllocOver
<1>9. ASSUME NEW c \in Callers, set_handler(c) PROVE CallsOK'
  BY <1>9, <1>1 DEF set_handler
<1>10. ASSUME NEW c \in Callers, AddReturns(c) PROVE CallsOK'
  BY <1>10, <1>1 DEF AddReturns
<1>11. ASSUME NEW w \in Workers, Dispatch(w) PROVE CallsOK'
  BY <1>11, <1>1 DEF Dispatch
<1>12. ASSUME NEW w \in Workers, Callback(w) PROVE CallsOK'
  BY <1>12, <1>1 DEF Callback
<1>13. ASSUME NEW w \in Workers, reactivate(w) PROVE CallsOK'
  BY <1>13, <1>1 DEF reactivate, EV_ADD
<1>14. ASSUME NEW w \in Workers, reset_handler(w) PROVE CallsOK'
  BY <1>14, <1>1 DEF reset_handler, Reset
<1>15. ASSUME NEW t \in Threads, Drop(t) PROVE CallsOK'
  BY <1>15, <1>1 DEF Drop
<1>16. ASSUME NEW t \in Threads, Destroy(t) PROVE CallsOK'
  BY <1>16, <1>1 DEF Destroy, EV_DELETE
<1>17. ASSUME NEW t \in Threads, Free(t) PROVE CallsOK'
  BY <1>17, <1>1 DEF Free, free_xident
<1>18. ASSUME NEW t \in Threads, Dropped(t) PROVE CallsOK'
  BY <1>18, <1>1 DEF Dropped, EV_DELETE
<1>19. ASSUME NEW k \in Keys, wait(k) PROVE CallsOK'
  BY <1>19, <1>1 DEF wait, Reported
<1>20. ASSUME Quiescent PROVE CallsOK'
  BY <1>20, <1>1 DEF Quiescent, vars
<1>21. QED
  BY <1>2, <1>3, <1>4, <1>5, <1>6, <1>7, <1>8, <1>9, <1>10, <1>11, <1>12, <1>13, <1>14,
     <1>15, <1>16, <1>17, <1>18, <1>19, <1>20
     DEF Next, CallerStep, WorkerStep, Release
-----------------------------------------------------------------------------
(* Handlers and their identifiers.                                         *)

(* What is held has an identifier, and is destroyed alone. *)
LEMMA LiveKept ==
  ASSUME KqueueInv, Next
  PROVE  LiveOK'
<1> USE KqueueAssumption
        DEF xidentVars, allocVars, handlerVars, restVars, Threads, At, AllocPCs, AddPCs,
            DestroyPCs, WorkPCs, TypeOK, CallsOK, LiveOK
<1>1. TypeOK /\ CallsOK /\ LiveOK /\ TakenOK /\ RegisteredOK /\ XidentOwned
  BY DEF KqueueInv
<1>2. TypeOK' /\ CallsOK'
  BY TypesKept, CallsKept
<1>3. ASSUME NEW c \in Callers, NEW hd \in Handlers, add(c, hd) PROVE LiveOK'
  BY <1>3, <1>1 DEF add
<1>4. ASSUME NEW c \in Callers, NEW hd \in Handlers, remove(c, hd) PROVE LiveOK'
  BY <1>4, <1>1 DEF remove, Reset
<1>5. ASSUME NEW c \in Callers, FetchAndAdd(c) PROVE LiveOK'
  BY <1>5, <1>1 DEF FetchAndAdd
<1>6. ASSUME NEW c \in Callers, CompareAndSwap(c) PROVE LiveOK'
  BY <1>6, <1>1 DEF CompareAndSwap, Swaps
<1>7. ASSUME NEW c \in Callers, SetEvent(c) PROVE LiveOK'
  BY <1>7, <1>1 DEF SetEvent, AllocOver, EV_ADD
<1>8. ASSUME NEW c \in Callers, SetEventFails(c) PROVE LiveOK'
  BY <1>8, <1>1 DEF SetEventFails, free_xident, Throws, AllocOver
<1>9. ASSUME NEW c \in Callers, AllocFails(c) PROVE LiveOK'
  BY <1>9, <1>1 DEF AllocFails, Throws, AllocOver
<1>10. ASSUME NEW c \in Callers, set_handler(c) PROVE LiveOK'
  BY <1>10, <1>1 DEF set_handler
<1>11. ASSUME NEW c \in Callers, AddReturns(c) PROVE LiveOK'
  BY <1>11, <1>1 DEF AddReturns
<1>12. ASSUME NEW w \in Workers, Dispatch(w) PROVE LiveOK'
  <2>1. PICK e \in events : /\ ev' = [ev EXCEPT ![w] = e]
                            /\ hold' = [hold EXCEPT ![w] = {m_state[e.ident]} \ {None}]
                            /\ At(w, IF m_state[e.ident] = None THEN "reset_handler" ELSE "call")
    BY <1>12 DEF Dispatch
  <2>2. PICK i \in Xidents : i = e.ident
    BY <1>1, <2>1, RegistrationFacts
  <2>3. hold' = [hold EXCEPT ![w] = {m_state[i]} \ {None}]
    BY <2>1, <2>2
  <2>4. PICK S : S = {m_state[i]} \ {None}
    OBVIOUS
  <2>5. /\ \A hd \in S : xident[hd] = i /\ hd = m_state[i]
        /\ hold'[w] = S /\ \A u \in Threads : u # w => hold'[u] = hold[u]
    BY <1>1, <2>3, <2>4
  <2>6. i # None
    BY KqueueAssumption
  <2>7. QED
    BY <1>1, <1>12, <2>1, <2>5, <2>6 DEF Dispatch
<1>13. ASSUME NEW w \in Workers, Callback(w) PROVE LiveOK'
  BY <1>13, <1>1 DEF Callback
<1>14. ASSUME NEW w \in Workers, reactivate(w) PROVE LiveOK'
  BY <1>14, <1>1 DEF reactivate, EV_ADD
<1>15. ASSUME NEW w \in Workers, reset_handler(w) PROVE LiveOK'
  <2>1. PICK i \in Xidents : i = ev[w].ident
    BY <1>1, <1>15, RegistrationFacts DEF reset_handler
  <2>2. Reset(w, i)
    BY <1>15, <2>1 DEF reset_handler
  <2>3. QED
    BY <1>1, <1>15, <2>2 DEF reset_handler, Reset
<1>16. ASSUME NEW t \in Threads, Drop(t) PROVE LiveOK'
  BY <1>16, <1>1 DEF Drop, Last
<1>17. ASSUME NEW t \in Threads, Destroy(t) PROVE LiveOK'
  BY <1>17, <1>1 DEF Destroy, EV_DELETE
<1>18. ASSUME NEW t \in Threads, Free(t) PROVE LiveOK'
  BY <1>18, <1>1 DEF Free, free_xident
<1>19. ASSUME NEW t \in Threads, Dropped(t) PROVE LiveOK'
  BY <1>19, <1>1 DEF Dropped, EV_DELETE
<1>20. ASSUME NEW k \in Keys, wait(k) PROVE LiveOK'
  BY <1>20, <1>1 DEF wait, Reported
<1>21. ASSUME Quiescent PROVE LiveOK'
  BY <1>21, <1>1 DEF Quiescent, vars
<1>22. QED
  BY <1>3, <1>4, <1>5, <1>6, <1>7, <1>8, <1>9, <1>10, <1>11, <1>12, <1>13, <1>14, <1>15,
     <1>16, <1>17, <1>18, <1>19, <1>20, <1>21
     DEF Next, CallerStep, WorkerStep, Release
(* Identifiers taken and not registered. *)
LEMMA TakenKept ==
  ASSUME KqueueInv, Next
  PROVE  TakenOK'
<1> USE KqueueAssumption
        DEF xidentVars, allocVars, handlerVars, restVars, Threads, At, AllocPCs, AddPCs,
            DestroyPCs, WorkPCs, TypeOK, CallsOK, TakenOK, XidentOwned, LiveOK
<1>1. TypeOK /\ CallsOK /\ LiveOK /\ TakenOK /\ RegisteredOK /\ XidentOwned
  BY DEF KqueueInv
<1>2. TypeOK' /\ CallsOK'
  BY TypesKept, CallsKept
<1>3. ASSUME NEW c \in Callers, NEW hd \in Handlers, add(c, hd) PROVE TakenOK'
  BY <1>3, <1>1 DEF add
<1>4. ASSUME NEW c \in Callers, NEW hd \in Handlers, remove(c, hd) PROVE TakenOK'
  BY <1>4, <1>1 DEF remove, Reset
<1>5. ASSUME NEW c \in Callers, FetchAndAdd(c) PROVE TakenOK'
  BY <1>5, <1>1 DEF FetchAndAdd
<1>6. ASSUME NEW c \in Callers, CompareAndSwap(c) PROVE TakenOK'
  BY <1>6, <1>1 DEF CompareAndSwap, Swaps
<1>7. ASSUME NEW c \in Callers, SetEvent(c) PROVE TakenOK'
  BY <1>7, <1>1 DEF SetEvent, AllocOver, EV_ADD
<1>8. ASSUME NEW c \in Callers, SetEventFails(c) PROVE TakenOK'
  BY <1>8, <1>1 DEF SetEventFails, free_xident, Throws, AllocOver
<1>9. ASSUME NEW c \in Callers, AllocFails(c) PROVE TakenOK'
  BY <1>9, <1>1 DEF AllocFails, Throws, AllocOver
<1>10. ASSUME NEW c \in Callers, set_handler(c) PROVE TakenOK'
  BY <1>10, <1>1 DEF set_handler
<1>11. ASSUME NEW c \in Callers, AddReturns(c) PROVE TakenOK'
  BY <1>11, <1>1 DEF AddReturns
<1>12. ASSUME NEW w \in Workers, Dispatch(w) PROVE TakenOK'
  BY <1>12, <1>1 DEF Dispatch
<1>13. ASSUME NEW w \in Workers, Callback(w) PROVE TakenOK'
  BY <1>13, <1>1 DEF Callback
<1>14. ASSUME NEW w \in Workers, reactivate(w) PROVE TakenOK'
  BY <1>14, <1>1 DEF reactivate, EV_ADD
<1>15. ASSUME NEW w \in Workers, reset_handler(w) PROVE TakenOK'
  BY <1>15, <1>1 DEF reset_handler, Reset
<1>16. ASSUME NEW t \in Threads, Drop(t) PROVE TakenOK'
  BY <1>16, <1>1 DEF Drop
<1>17. ASSUME NEW t \in Threads, Destroy(t) PROVE TakenOK'
  BY <1>17, <1>1 DEF Destroy, EV_DELETE
<1>18. ASSUME NEW t \in Threads, Free(t) PROVE TakenOK'
  BY <1>18, <1>1 DEF Free, free_xident
<1>19. ASSUME NEW t \in Threads, Dropped(t) PROVE TakenOK'
  BY <1>19, <1>1 DEF Dropped, EV_DELETE
<1>20. ASSUME NEW k \in Keys, wait(k) PROVE TakenOK'
  BY <1>20, <1>1 DEF wait, Reported
<1>21. ASSUME Quiescent PROVE TakenOK'
  BY <1>21, <1>1 DEF Quiescent, vars
<1>22. QED
  BY <1>3, <1>4, <1>5, <1>6, <1>7, <1>8, <1>9, <1>10, <1>11, <1>12, <1>13, <1>14, <1>15,
     <1>16, <1>17, <1>18, <1>19, <1>20, <1>21
     DEF Next, CallerStep, WorkerStep, Release
(* Identifiers have one owner. *)
LEMMA OwnedKept ==
  ASSUME KqueueInv, Next
  PROVE  XidentOwned'
<1> USE KqueueAssumption
        DEF xidentVars, allocVars, handlerVars, restVars, Threads, At, AllocPCs, AddPCs,
            DestroyPCs, WorkPCs, TypeOK, CallsOK, TakenOK, XidentOwned, LiveOK, RegisteredOK
<1>1. TypeOK /\ CallsOK /\ LiveOK /\ TakenOK /\ RegisteredOK /\ XidentOwned
  BY DEF KqueueInv
<1>2. TypeOK' /\ CallsOK'
  BY TypesKept, CallsKept
<1>3. ASSUME NEW c \in Callers, NEW hd \in Handlers, add(c, hd) PROVE XidentOwned'
  BY <1>3, <1>1 DEF add
<1>4. ASSUME NEW c \in Callers, NEW hd \in Handlers, remove(c, hd) PROVE XidentOwned'
  BY <1>4, <1>1 DEF remove, Reset
<1>5. ASSUME NEW c \in Callers, FetchAndAdd(c) PROVE XidentOwned'
  BY <1>5, <1>1 DEF FetchAndAdd
<1>6. ASSUME NEW c \in Callers, CompareAndSwap(c) PROVE XidentOwned'
  BY <1>6, <1>1 DEF CompareAndSwap, Swaps
<1>7. ASSUME NEW c \in Callers, SetEvent(c) PROVE XidentOwned'
  <2>1. PICK a \in Handlers, i \in Xidents : a = arg[c] /\ i = x[c]
    BY <1>1, <1>7 DEF SetEvent
  <2>2. /\ xident' = [xident EXCEPT ![a] = i] /\ m_xident' = m_xident /\ xident[a] = None
        /\ m_xident[i] /\ \A b \in Handlers : xident[b] # i
    BY <1>1, <1>7, <2>1 DEF SetEvent
  <2>3. \A b \in Handlers : xident'[b] # None =>
          m_xident'[xident'[b]] /\ \A d \in Handlers \ {b} : xident'[d] # xident'[b]
    BY <1>1, <2>2
  <2>4. PICK r \in Registrations : r = Registration(a, i)
    BY RegistrationFields
  <2>5. r.key \in Keys /\ r.ident = i /\ (r.key \in Xidents => r.key = i)
    BY <2>4, RegistrationFields, RegistrationFacts
  <2>6. kq' = [kq EXCEPT ![r.key] = r]
    BY <1>7, <2>1, <2>4 DEF SetEvent, EV_ADD
  <2>7. ASSUME NEW u \in Threads, pc'[u] = "free_xident", arg'[u] \in Timers
        PROVE  kq'[xident'[arg'[u]]] = None
    <3>1. u # c /\ pc[u] = "free_xident" /\ arg'[u] = arg[u]
      BY <1>1, <1>7, <2>7 DEF SetEvent
    <3>2. PICK b \in Handlers : b = arg[u] /\ xident[b] # None /\ xident[b] \in Xidents
      BY <1>1, <3>1
    <3>3. b # a /\ xident'[b] = xident[b] /\ xident[b] # i
      BY <1>1, <2>2, <3>2
    <3>4. kq[xident[b]] = None /\ xident[b] \in Keys
      BY <1>1, <2>7, <3>1, <3>2 DEF Keys
    <3>5. r.key # xident[b]
      BY <2>5, <3>2, <3>3
    <3>6. QED
      BY <1>1, <2>6, <3>1, <3>2, <3>3, <3>4, <3>5
  <2>8. QED
    BY <2>3, <2>7
<1>8. ASSUME NEW c \in Callers, SetEventFails(c) PROVE XidentOwned'
  BY <1>8, <1>1 DEF SetEventFails, free_xident, Throws, AllocOver
<1>9. ASSUME NEW c \in Callers, AllocFails(c) PROVE XidentOwned'
  BY <1>9, <1>1 DEF AllocFails, Throws, AllocOver
<1>10. ASSUME NEW c \in Callers, set_handler(c) PROVE XidentOwned'
  BY <1>10, <1>1 DEF set_handler
<1>11. ASSUME NEW c \in Callers, AddReturns(c) PROVE XidentOwned'
  BY <1>11, <1>1 DEF AddReturns
<1>12. ASSUME NEW w \in Workers, Dispatch(w) PROVE XidentOwned'
  BY <1>12, <1>1 DEF Dispatch
<1>13. ASSUME NEW w \in Workers, Callback(w) PROVE XidentOwned'
  BY <1>13, <1>1 DEF Callback
<1>14. ASSUME NEW w \in Workers, reactivate(w) PROVE XidentOwned'
  <2>1. PICK r \in Registrations : r = ev[w]
    BY <1>1, <1>14 DEF reactivate
  <2>2. r.key \in Keys /\ (r.key \in Xidents => r.key = r.ident)
    BY RegistrationFacts
  <2>3. kq' = [kq EXCEPT ![r.key] = r] /\ UNCHANGED <<xident, m_xident, arg>>
    BY <1>14, <2>1 DEF reactivate, EV_ADD
  <2>4. PICK hd \in hold[w] : xident[hd] = r.ident
    BY <1>1, <1>14, <2>1 DEF reactivate
  <2>5. ASSUME NEW u \in Threads, pc'[u] = "free_xident", arg'[u] \in Timers
        PROVE  kq'[xident'[arg'[u]]] = None
    <3>1. u # w /\ pc[u] = "free_xident"
      BY <1>1, <1>14, <2>5 DEF reactivate
    <3>2. PICK b \in Handlers : b = arg[u] /\ xident[b] \in Xidents /\ b \notin hold[w]
      BY <1>1, <3>1
    <3>3. b # hd /\ hd \in Handlers /\ xident[b] # xident[hd]
      BY <1>1, <2>4, <3>2
    <3>4. kq[xident[b]] = None /\ xident[b] \in Keys
      BY <1>1, <2>3, <2>5, <3>1, <3>2 DEF Keys
    <3>5. QED
      BY <1>1, <2>2, <2>3, <2>4, <3>2, <3>3, <3>4
  <2>6. QED
    BY <1>1, <2>3, <2>5
<1>15. ASSUME NEW w \in Workers, reset_handler(w) PROVE XidentOwned'
  BY <1>15, <1>1 DEF reset_handler, Reset
<1>16. ASSUME NEW t \in Threads, Drop(t) PROVE XidentOwned'
  BY <1>16, <1>1 DEF Drop
<1>17. ASSUME NEW t \in Threads, Destroy(t) PROVE XidentOwned'
  <2>1. UNCHANGED <<xident, m_xident, arg>>
    BY <1>17 DEF Destroy
  <2>2. ASSUME NEW u \in Threads, pc'[u] = "free_xident", arg'[u] \in Timers
        PROVE  kq'[xident'[arg'[u]]] = None
    <3>1. PICK b \in Handlers : b = arg[u] /\ xident[b] \in Xidents /\ xident[b] \in Keys
      BY <1>1, <1>17, <2>1, <2>2 DEF Destroy, Keys
    <3>2. CASE u = t
      <4>1. arg[t] \notin Signals \/ UNCHANGED kq
        BY <1>17 DEF Destroy
      <4>2. CASE arg[t] \in Signals
        <5>1. FALSE
          BY <2>1, <2>2, <3>2, <4>2
        <5>2. QED
          BY <5>1
      <4>3. CASE arg[t] \notin Signals
        <5>1. kq' = [kq EXCEPT ![xident[b]] = None]
          BY <1>17, <3>1, <3>2, <4>3 DEF Destroy, EV_DELETE
        <5>2. QED
          BY <1>1, <2>1, <3>1, <5>1
      <4>4. QED
        BY <4>2, <4>3
    <3>3. CASE u # t
      <4>1. pc[u] = "free_xident"
        BY <1>1, <1>17, <2>2, <3>3 DEF Destroy
      <4>2. kq[xident[b]] = None
        BY <1>1, <2>1, <2>2, <3>1, <4>1
      <4>3. kq'[xident[b]] = None
        BY <1>1, <1>17, <3>1, <4>2 DEF Destroy, EV_DELETE
      <4>4. QED
        BY <2>1, <3>1, <4>3
    <3>4. QED
      BY <3>2, <3>3
  <2>3. QED
    BY <1>1, <2>1, <2>2
<1>18. ASSUME NEW t \in Threads, Free(t) PROVE XidentOwned'
  BY <1>18, <1>1 DEF Free, free_xident
<1>19. ASSUME NEW t \in Threads, Dropped(t) PROVE XidentOwned'
  <2>1. UNCHANGED <<xident, m_xident>>
    BY <1>19 DEF Dropped
  <2>2. \A k \in Keys : kq[k] = None => kq'[k] = None
    BY <1>1, <1>19 DEF Dropped, EV_DELETE
  <2>3. ASSUME NEW u \in Threads, pc'[u] = "free_xident", arg'[u] \in Timers
        PROVE  kq'[xident'[arg'[u]]] = None
    <3>1. u # t /\ pc[u] = "free_xident" /\ arg'[u] = arg[u]
      BY <1>1, <1>19, <2>3 DEF Dropped
    <3>2. xident[arg[u]] \in Keys /\ kq[xident[arg[u]]] = None
      BY <1>1, <2>3, <3>1 DEF Keys
    <3>3. QED
      BY <2>1, <2>2, <3>1, <3>2
  <2>4. QED
    BY <1>1, <2>1, <2>3
<1>20. ASSUME NEW k \in Keys, wait(k) PROVE XidentOwned'
  BY <1>20, <1>1 DEF wait, Reported
<1>21. ASSUME Quiescent PROVE XidentOwned'
  BY <1>21, <1>1 DEF Quiescent, vars
<1>22. QED
  BY <1>3, <1>4, <1>5, <1>6, <1>7, <1>8, <1>9, <1>10, <1>11, <1>12, <1>13, <1>14, <1>15,
     <1>16, <1>17, <1>18, <1>19, <1>20, <1>21
     DEF Next, CallerStep, WorkerStep, Release
(* Registrations and the handlers that workers call. *)
LEMMA RegisteredKept ==
  ASSUME KqueueInv, Next
  PROVE  RegisteredOK'
<1> USE KqueueAssumption
        DEF xidentVars, allocVars, handlerVars, restVars, Threads, At, AllocPCs, AddPCs,
            DestroyPCs, WorkPCs, TypeOK, CallsOK, LiveOK, RegisteredOK
<1>1. TypeOK /\ CallsOK /\ LiveOK /\ TakenOK /\ RegisteredOK /\ XidentOwned
  BY DEF KqueueInv
<1>2. TypeOK' /\ CallsOK'
  BY TypesKept, CallsKept
<1>3. ASSUME NEW c \in Callers, NEW hd \in Handlers, add(c, hd) PROVE RegisteredOK'
  BY <1>3, <1>1 DEF add
<1>4. ASSUME NEW c \in Callers, NEW hd \in Handlers, remove(c, hd) PROVE RegisteredOK'
  BY <1>4, <1>1 DEF remove, Reset
<1>5. ASSUME NEW c \in Callers, FetchAndAdd(c) PROVE RegisteredOK'
  BY <1>5, <1>1 DEF FetchAndAdd
<1>6. ASSUME NEW c \in Callers, CompareAndSwap(c) PROVE RegisteredOK'
  BY <1>6, <1>1 DEF CompareAndSwap, Swaps
<1>7. ASSUME NEW c \in Callers, SetEvent(c) PROVE RegisteredOK'
  BY <1>7, <1>1 DEF SetEvent, AllocOver, EV_ADD
<1>8. ASSUME NEW c \in Callers, SetEventFails(c) PROVE RegisteredOK'
  BY <1>8, <1>1 DEF SetEventFails, free_xident, Throws, AllocOver
<1>9. ASSUME NEW c \in Callers, AllocFails(c) PROVE RegisteredOK'
  BY <1>9, <1>1 DEF AllocFails, Throws, AllocOver
<1>10. ASSUME NEW c \in Callers, set_handler(c) PROVE RegisteredOK'
  BY <1>10, <1>1 DEF set_handler
<1>11. ASSUME NEW c \in Callers, AddReturns(c) PROVE RegisteredOK'
  BY <1>11, <1>1 DEF AddReturns
<1>12. ASSUME NEW w \in Workers, Dispatch(w) PROVE RegisteredOK'
  <2>1. PICK e \in events : /\ ev' = [ev EXCEPT ![w] = e]
                            /\ hold' = [hold EXCEPT ![w] = {m_state[e.ident]} \ {None}]
                            /\ At(w, IF m_state[e.ident] = None THEN "reset_handler" ELSE "call")
    BY <1>12 DEF Dispatch
  <2>2. PICK i \in Xidents : i = e.ident
    BY <1>1, <2>1, RegistrationFacts
  <2>3. hold' = [hold EXCEPT ![w] = {m_state[i]} \ {None}]
    BY <2>1, <2>2
  <2>4. kq' = kq /\ xident' = xident
    BY <1>12 DEF Dispatch
  <2>5. ASSUME NEW v \in Workers, pc'[v] \in {"call", "reactivate"}
        PROVE  \E hd \in hold'[v] : xident'[hd] = ev'[v].ident
    <3>1. CASE v = w
      <4>1. m_state[i] # None /\ xident[m_state[i]] = i
        BY <1>1, <2>1, <2>2, <2>5, <3>1
      <4>2. PICK S : S = {m_state[i]} \ {None}
        OBVIOUS
      <4>3. hold'[v] = S /\ ev'[v] = e
        <5>1. hold'[w] = S
          BY <1>1, <2>3, <4>2
        <5>2. ev'[w] = e
          BY <1>1, <2>1
        <5>3. QED
          BY <3>1, <5>1, <5>2
      <4>4. m_state[i] \in S
        BY <4>1, <4>2
      <4>5. QED
        BY <2>2, <2>4, <4>1, <4>3, <4>4
    <3>2. CASE v # w
      <4>1. pc'[v] = pc[v] /\ hold'[v] = hold[v] /\ ev'[v] = ev[v]
        BY <1>1, <2>1, <3>2
      <4>2. QED
        BY <1>1, <2>4, <2>5, <4>1
    <3>3. QED
      BY <3>1, <3>2
  <2>6. QED
    BY <1>1, <2>4, <2>5
<1>13. ASSUME NEW w \in Workers, Callback(w) PROVE RegisteredOK'
  BY <1>13, <1>1 DEF Callback
<1>14. ASSUME NEW w \in Workers, reactivate(w) PROVE RegisteredOK'
  BY <1>14, <1>1 DEF reactivate, EV_ADD
<1>15. ASSUME NEW w \in Workers, reset_handler(w) PROVE RegisteredOK'
  BY <1>15, <1>1 DEF reset_handler, Reset
<1>16. ASSUME NEW t \in Threads, Drop(t) PROVE RegisteredOK'
  BY <1>16, <1>1 DEF Drop
<1>17. ASSUME NEW t \in Threads, Destroy(t) PROVE RegisteredOK'
  BY <1>17, <1>1 DEF Destroy, EV_DELETE
<1>18. ASSUME NEW t \in Threads, Free(t) PROVE RegisteredOK'
  BY <1>18, <1>1 DEF Free, free_xident
<1>19. ASSUME NEW t \in Threads, Dropped(t) PROVE RegisteredOK'
  <2>1. xident' = xident /\ hold' = hold
    BY <1>19 DEF Dropped
  <2>2. \A k \in Keys : kq'[k] = kq[k] \/ kq'[k] = None
    BY <1>1, <1>19 DEF Dropped, EV_DELETE
  <2>3. \A v \in Workers : pc'[v] \in {"call", "reactivate"} => pc'[v] = pc[v] /\ ev'[v] = ev[v]
    BY <1>1, <1>19 DEF Dropped
  <2>4. QED
    BY <1>1, <2>1, <2>2, <2>3
<1>20. ASSUME NEW k \in Keys, wait(k) PROVE RegisteredOK'
  BY <1>20, <1>1 DEF wait, Reported
<1>21. ASSUME Quiescent PROVE RegisteredOK'
  BY <1>21, <1>1 DEF Quiescent, vars
<1>22. QED
  BY <1>3, <1>4, <1>5, <1>6, <1>7, <1>8, <1>9, <1>10, <1>11, <1>12, <1>13, <1>14, <1>15,
     <1>16, <1>17, <1>18, <1>19, <1>20, <1>21
     DEF Next, CallerStep, WorkerStep, Release
-----------------------------------------------------------------------------
(* Events and the handlers they were asked for.                            *)

(* The identifier of a current registration is that of one handler. *)
LEMMA CurrentOwner ==
  ASSUME KqueueInv, NEW r \in Registrations, Current(r), NEW hd \in Handlers, xident[hd] = r.ident
  PROVE  hd = r.from
<1>1. r.ident \in Xidents /\ r.from \in Handlers
  BY RegistrationFacts
<1>2. QED
  BY <1>1, KqueueAssumption DEF KqueueInv, XidentOwned, Current

(* Two current registrations of one identifier are the same. *)
LEMMA CurrentSame ==
  ASSUME KqueueInv, NEW r \in Registrations, Current(r), NEW s \in Registrations, Current(s),
         r.ident = s.ident
  PROVE  r = s
<1>1. s.from \in Handlers /\ xident[s.from] = r.ident
  BY RegistrationFacts DEF Current
<1>2. s.from = r.from
  BY <1>1, CurrentOwner
<1>3. QED
  BY <1>2, RegistrationFacts

(* Nobody destroys the handler of a current registration. *)
LEMMA CurrentLives ==
  ASSUME KqueueInv, NEW r \in Registrations, Current(r), NEW t \in Threads, pc[t] \in DestroyPCs
  PROVE  arg[t] # r.from
<1>1. r.ident \in Xidents /\ r.from \in Handlers
  BY RegistrationFacts
<1>2. CASE m_state[r.ident] = r.from
  BY <1>1, <1>2 DEF KqueueInv, LiveOK
<1>3. ASSUME NEW c \in Callers, pc[c] = "set_handler", arg[c] = r.from PROVE arg[t] # r.from
  BY <1>3 DEF KqueueInv, CallsOK, LiveOK, Threads
<1>4. QED
  BY <1>2, <1>3 DEF Current

(* A registration stays current, but for the worker that resets its handler. *)
LEMMA CurrentKept ==
  ASSUME KqueueInv, ~outside, NEW r \in Registrations, Current(r),
         \A w \in Workers : reset_handler(w) => r # ev[w], Next
  PROVE  Current(r)'
<1> USE KqueueAssumption
        DEF xidentVars, allocVars, handlerVars, restVars, Threads, At, AllocPCs, AddPCs,
            DestroyPCs, WorkPCs, TypeOK, CallsOK, LiveOK, XidentOwned
<1>1. TypeOK /\ CallsOK /\ LiveOK /\ XidentOwned /\ OneToken
  BY DEF KqueueInv
<1>2. r.ident \in Xidents /\ r.from \in Handlers /\ Current(r)
  BY RegistrationFacts
<1>3. ASSUME NEW c \in Callers, NEW hd \in Handlers, add(c, hd) PROVE Current(r)'
  BY <1>3, <1>1, <1>2 DEF add, Current
<1>4. ASSUME NEW c \in Callers, NEW hd \in Handlers, remove(c, hd) PROVE Current(r)'
  BY <1>4 DEF remove
<1>5. ASSUME NEW c \in Callers, FetchAndAdd(c) PROVE Current(r)'
  BY <1>5, <1>1, <1>2 DEF FetchAndAdd, Current
<1>6. ASSUME NEW c \in Callers, CompareAndSwap(c) PROVE Current(r)'
  BY <1>6, <1>1, <1>2 DEF CompareAndSwap, Current, Swaps
<1>7. ASSUME NEW c \in Callers, SetEvent(c) PROVE Current(r)'
  <2>1. xident' = [xident EXCEPT ![arg[c]] = x[c]] /\ m_state' = m_state /\ arg' = arg
    BY <1>7 DEF SetEvent
  <2>2. xident[arg[c]] = None /\ arg[c] # r.from
    BY <1>1, <1>2, <1>7 DEF SetEvent, Current
  <2>3. xident'[r.from] = xident[r.from]
    BY <1>1, <1>2, <2>1, <2>2
  <2>4. \A d \in Callers : pc[d] = "set_handler" => pc'[d] = "set_handler"
    BY <1>1, <1>7 DEF SetEvent
  <2>5. QED
    BY <1>2, <2>1, <2>3, <2>4 DEF Current
<1>8. ASSUME NEW c \in Callers, SetEventFails(c) PROVE Current(r)'
  BY <1>8, <1>1, <1>2 DEF SetEventFails, Current, free_xident, Throws, AllocOver
<1>9. ASSUME NEW c \in Callers, AllocFails(c) PROVE Current(r)'
  BY <1>9, <1>1, <1>2 DEF AllocFails, Current, Throws, AllocOver
<1>10. ASSUME NEW c \in Callers, set_handler(c) PROVE Current(r)'
  <2>1. PICK a \in Handlers, i \in Xidents : a = arg[c] /\ i = xident[a]
    BY <1>1, <1>10 DEF set_handler
  <2>2. m_state' = [m_state EXCEPT ![i] = a] /\ xident' = xident /\ arg' = arg
    BY <1>10, <2>1 DEF set_handler
  <2>3. i = r.ident => a = r.from
    BY <2>1, CurrentOwner
  <2>4. CASE a = r.from
    BY <1>1, <1>2, <2>1, <2>2, <2>4 DEF Current
  <2>5. CASE a # r.from
    <3>1. \A d \in Callers : pc[d] = "set_handler" /\ arg[d] = r.from => pc'[d] = "set_handler"
      BY <1>1, <1>10, <2>1, <2>5 DEF set_handler
    <3>2. m_state'[r.ident] = m_state[r.ident]
      BY <1>1, <1>2, <2>2, <2>3, <2>5
    <3>3. QED
      BY <2>2, <3>1, <3>2 DEF Current
  <2>6. QED
    BY <2>4, <2>5
<1>11. ASSUME NEW c \in Callers, AddReturns(c) PROVE Current(r)'
  BY <1>11, <1>1, <1>2 DEF AddReturns, Current
<1>12. ASSUME NEW w \in Workers, Dispatch(w) PROVE Current(r)'
  BY <1>12, <1>1, <1>2 DEF Dispatch, Current
<1>13. ASSUME NEW w \in Workers, Callback(w) PROVE Current(r)'
  BY <1>13, <1>1, <1>2 DEF Callback, Current
<1>14. ASSUME NEW w \in Workers, reactivate(w) PROVE Current(r)'
  BY <1>14, <1>1, <1>2 DEF reactivate, Current, EV_ADD
<1>15. ASSUME NEW w \in Workers, reset_handler(w) PROVE Current(r)'
  <2>1. PICK s \in Registrations : s = ev[w]
    BY <1>1, <1>15 DEF reset_handler
  <2>2. Current(s) /\ r # s
    BY <1>1, <1>15, <2>1 DEF reset_handler, OneToken
  <2>3. s.ident # r.ident /\ s.ident \in Xidents
    BY <2>2, CurrentSame, RegistrationFacts
  <2>4. m_state'[r.ident] = m_state[r.ident]
    BY <1>1, <1>2, <1>15, <2>1, <2>3 DEF reset_handler, Reset
  <2>5. \A d \in Callers : pc[d] = "set_handler" => pc'[d] = "set_handler"
    BY <1>1, <1>15 DEF reset_handler
  <2>6. QED
    BY <1>15, <2>4, <2>5 DEF reset_handler, Current
<1>16. ASSUME NEW t \in Threads, Drop(t) PROVE Current(r)'
  BY <1>16, <1>1, <1>2 DEF Drop, Current
<1>17. ASSUME NEW t \in Threads, Destroy(t) PROVE Current(r)'
  BY <1>17, <1>1, <1>2 DEF Destroy, Current, EV_DELETE
<1>18. ASSUME NEW t \in Threads, Free(t) PROVE Current(r)'
  <2>1. arg[t] # r.from
    BY <1>18, CurrentLives DEF Free
  <2>2. xident'[r.from] = xident[r.from]
    BY <1>1, <1>2, <1>18, <2>1 DEF Free
  <2>3. \A d \in Callers : pc[d] = "set_handler" => pc'[d] = "set_handler"
    BY <1>1, <1>18 DEF Free
  <2>4. QED
    BY <1>18, <2>2, <2>3 DEF Free, Current
<1>19. ASSUME NEW t \in Threads, Dropped(t) PROVE Current(r)'
  BY <1>19, <1>1, <1>2 DEF Dropped, Current, EV_DELETE
<1>20. ASSUME NEW k \in Keys, wait(k) PROVE Current(r)'
  BY <1>20, <1>1, <1>2 DEF wait, Current, Reported
<1>21. ASSUME Quiescent PROVE Current(r)'
  BY <1>21, <1>1, <1>2 DEF Quiescent, vars, Current
<1>22. QED
  BY <1>3, <1>4, <1>5, <1>6, <1>7, <1>8, <1>9, <1>10, <1>11, <1>12, <1>13, <1>14, <1>15,
     <1>16, <1>17, <1>18, <1>19, <1>20, <1>21
     DEF Next, CallerStep, WorkerStep, Release
(* A step that makes no new event or registration. *)
LEMMA TokensFrame ==
  ASSUME KqueueInv, ~outside, outside' = outside,
         \A r \in Registrations : Current(r) => Current(r)',
         \A k \in Keys : kq'[k] = kq[k] \/ kq'[k] = None, events' = events,
         \A w \in Workers : pc'[w] \in WorkPCs => pc[w] \in WorkPCs /\ ev'[w] = ev[w]
  PROVE  OneToken'
<1>1. TypeOK /\ CallsOK /\ OneToken
  BY DEF KqueueInv
<1>2. ASSUME NEW k \in Keys, kq'[k] # None
      PROVE  Current(kq[k])' /\ kq'[k] = kq[k] /\ kq[k] \notin events
  <2>1. kq'[k] = kq[k]
    BY <1>2
  <2>2. kq[k] \in Registrations /\ Current(kq[k]) /\ kq[k] \notin events
    BY <1>1, <1>2, <2>1 DEF TypeOK, OneToken
  <2>3. PICK r \in Registrations : r = kq[k]
    BY <2>2
  <2>4. Current(r)'
    BY <2>2, <2>3
  <2>5. Current(kq[k])' <=> Current(r)'
    BY <2>1, <2>3 DEF Current
  <2>6. QED
    BY <2>1, <2>2, <2>4, <2>5
<1>3. ASSUME NEW r \in events' PROVE Current(r)'
  BY <1>1, <1>3 DEF TypeOK, OneToken
<1>4. ASSUME NEW w \in Workers, pc'[w] \in WorkPCs
      PROVE  /\ Current(ev[w])' /\ ev'[w] \notin events'
             /\ \A k \in Keys : kq'[k] # None => kq'[k] # ev'[w]
             /\ \A v \in Workers \ {w} : pc'[v] \in WorkPCs => ev'[v] # ev'[w]
  <2>1. pc[w] \in WorkPCs /\ ev'[w] = ev[w]
    BY <1>4
  <2>2. PICK r \in Registrations : r = ev[w] /\ Current(r)
    BY <1>1, <2>1 DEF CallsOK, OneToken
  <2>3. Current(r)'
    BY <2>2
  <2>4. Current(ev[w])' <=> Current(r)'
    BY <2>1, <2>2 DEF Current
  <2>5. QED
    BY <1>1, <2>1, <2>3, <2>4 DEF OneToken
<1>5. QED
  BY <1>2, <1>3, <1>4 DEF OneToken

(* Every step keeps one event or registration for each handler. *)
LEMMA TokensKept ==
  ASSUME KqueueInv, ~outside, Next
  PROVE  OneToken'
<1> USE KqueueAssumption
        DEF xidentVars, allocVars, handlerVars, restVars, Threads, At, AllocPCs, AddPCs,
            DestroyPCs, WorkPCs, TypeOK, CallsOK
<1>1. TypeOK /\ CallsOK /\ LiveOK /\ RegisteredOK /\ XidentOwned /\ OneToken
  BY DEF KqueueInv
<1>2. ~outside
  OBVIOUS
<1>3. ASSUME NEW c \in Callers, NEW hd \in Handlers, add(c, hd) PROVE OneToken'
  <2>1. outside' = outside /\ events' = events
    BY <1>3 DEF add
  <2>2. \A k \in Keys : kq'[k] = kq[k] \/ kq'[k] = None
    BY <1>1, <1>3 DEF add
  <2>3. \A v \in Workers : pc'[v] \in WorkPCs => pc[v] \in WorkPCs /\ ev'[v] = ev[v]
    BY <1>1, <1>3 DEF add
  <2>4. \A v \in Workers : ~reset_handler(v)
    BY <1>1, <1>3 DEF add, reset_handler
  <2>5. \A r \in Registrations : Current(r) => Current(r)'
    BY <1>2, <2>4, CurrentKept
  <2>6. QED
    BY <1>2, <2>1, <2>2, <2>3, <2>5, TokensFrame
<1>4. ASSUME NEW c \in Callers, NEW hd \in Handlers, remove(c, hd) PROVE OneToken'
  BY <1>2, <1>4 DEF remove
<1>5. ASSUME NEW c \in Callers, FetchAndAdd(c) PROVE OneToken'
  <2>1. outside' = outside /\ events' = events
    BY <1>5 DEF FetchAndAdd
  <2>2. \A k \in Keys : kq'[k] = kq[k] \/ kq'[k] = None
    BY <1>1, <1>5 DEF FetchAndAdd
  <2>3. \A v \in Workers : pc'[v] \in WorkPCs => pc[v] \in WorkPCs /\ ev'[v] = ev[v]
    BY <1>1, <1>5 DEF FetchAndAdd
  <2>4. \A v \in Workers : ~reset_handler(v)
    BY <1>1, <1>5 DEF FetchAndAdd, reset_handler
  <2>5. \A r \in Registrations : Current(r) => Current(r)'
    BY <1>2, <2>4, CurrentKept
  <2>6. QED
    BY <1>2, <2>1, <2>2, <2>3, <2>5, TokensFrame
<1>6. ASSUME NEW c \in Callers, CompareAndSwap(c) PROVE OneToken'
  <2>1. outside' = outside /\ events' = events
    BY <1>6 DEF CompareAndSwap
  <2>2. \A k \in Keys : kq'[k] = kq[k] \/ kq'[k] = None
    BY <1>1, <1>6 DEF CompareAndSwap
  <2>3. \A v \in Workers : pc'[v] \in WorkPCs => pc[v] \in WorkPCs /\ ev'[v] = ev[v]
    BY <1>1, <1>6 DEF CompareAndSwap
  <2>4. \A v \in Workers : ~reset_handler(v)
    BY <1>1, <1>6 DEF CompareAndSwap, reset_handler
  <2>5. \A r \in Registrations : Current(r) => Current(r)'
    BY <1>2, <2>4, CurrentKept
  <2>6. QED
    BY <1>2, <2>1, <2>2, <2>3, <2>5, TokensFrame
<1>7. ASSUME NEW c \in Callers, SetEvent(c) PROVE OneToken'
  <2>1. PICK a \in Handlers, i \in Xidents : a = arg[c] /\ i = x[c] /\ xident[a] = None
    BY <1>1, <1>7 DEF SetEvent
  <2>2. PICK n \in Registrations : n = Registration(a, i) /\ n.from = a /\ n.ident = i /\ n.key \in Keys
    BY RegistrationFields
  <2>3. kq' = [kq EXCEPT ![n.key] = n] /\ xident' = [xident EXCEPT ![a] = i]
    BY <1>7, <2>1, <2>2 DEF SetEvent, EV_ADD
  <2>4. UNCHANGED <<events, ev, arg, outside, m_state>> /\ pc'[c] = "set_handler"
    BY <1>1, <1>7 DEF SetEvent
  <2>5. \A v \in Workers : ~reset_handler(v)
    BY <1>1, <1>7 DEF SetEvent, reset_handler
  <2>6. \A r \in Registrations : Current(r) => Current(r)'
    BY <1>2, <2>5, CurrentKept
  <2>7. \A r \in Registrations : Current(r) => r # n
    <3>1. i # None
      BY KqueueAssumption
    <3>2. \A r \in Registrations : r.ident # None
      BY RegistrationFacts, KqueueAssumption
    <3>3. QED
      BY <2>1, <2>2, <3>2 DEF Current
  <2>8. Current(n)'
    BY <1>1, <2>1, <2>2, <2>3, <2>4 DEF Current
  <2>9. \A v \in Workers : pc'[v] = pc[v]
    BY <1>1, <1>7 DEF SetEvent
  <2>10. ASSUME NEW k \in Keys, kq'[k] # None
         PROVE  /\ Current(kq[k])' /\ kq'[k] \notin events'
                /\ \A v \in Workers : pc'[v] \in WorkPCs => kq'[k] # ev'[v]
    <3>1. CASE k = n.key
      <4>1. kq'[k] = n
        BY <1>1, <2>2, <2>3, <3>1
      <4>2. Current(kq[k])' <=> Current(n)'
        BY <4>1 DEF Current
      <4>3. QED
        BY <1>1, <1>2, <2>4, <2>7, <2>8, <2>9, <4>1, <4>2 DEF OneToken
    <3>2. CASE k # n.key
      <4>1. kq'[k] = kq[k] /\ kq[k] \in Registrations
        BY <1>1, <2>2, <2>3, <2>10, <3>2
      <4>2. PICK r \in Registrations : r = kq[k]
        BY <4>1
      <4>3. Current(kq[k])' <=> Current(r)'
        BY <4>1, <4>2 DEF Current
      <4>4. QED
        BY <1>1, <1>2, <2>4, <2>6, <2>9, <2>10, <4>1, <4>2, <4>3 DEF OneToken
    <3>3. QED
      BY <3>1, <3>2
  <2>11. \A r \in events' : Current(r)'
    BY <1>1, <1>2, <2>4, <2>6 DEF OneToken
  <2>12. ASSUME NEW v \in Workers, pc'[v] \in WorkPCs PROVE Current(ev[v])'
    <3>1. PICK r \in Registrations : r = ev[v] /\ Current(r)
      BY <1>1, <1>2, <2>9, <2>12 DEF OneToken
    <3>2. Current(ev[v])' <=> Current(r)'
      BY <2>4, <3>1 DEF Current
    <3>3. QED
      BY <2>6, <3>1, <3>2
  <2>13. QED
    BY <1>1, <1>2, <2>4, <2>9, <2>10, <2>11, <2>12 DEF OneToken
<1>8. ASSUME NEW c \in Callers, SetEventFails(c) PROVE OneToken'
  <2>1. outside' = outside /\ events' = events
    BY <1>8 DEF SetEventFails, Throws
  <2>2. \A k \in Keys : kq'[k] = kq[k] \/ kq'[k] = None
    BY <1>1, <1>8 DEF SetEventFails, Throws
  <2>3. \A v \in Workers : pc'[v] \in WorkPCs => pc[v] \in WorkPCs /\ ev'[v] = ev[v]
    BY <1>1, <1>8 DEF SetEventFails, Throws
  <2>4. \A v \in Workers : ~reset_handler(v)
    BY <1>1, <1>8 DEF SetEventFails, Throws, reset_handler
  <2>5. \A r \in Registrations : Current(r) => Current(r)'
    BY <1>2, <2>4, CurrentKept
  <2>6. QED
    BY <1>2, <2>1, <2>2, <2>3, <2>5, TokensFrame
<1>9. ASSUME NEW c \in Callers, AllocFails(c) PROVE OneToken'
  <2>1. outside' = outside /\ events' = events
    BY <1>9 DEF AllocFails, Throws
  <2>2. \A k \in Keys : kq'[k] = kq[k] \/ kq'[k] = None
    BY <1>1, <1>9 DEF AllocFails, Throws
  <2>3. \A v \in Workers : pc'[v] \in WorkPCs => pc[v] \in WorkPCs /\ ev'[v] = ev[v]
    BY <1>1, <1>9 DEF AllocFails, Throws
  <2>4. \A v \in Workers : ~reset_handler(v)
    BY <1>1, <1>9 DEF AllocFails, Throws, reset_handler
  <2>5. \A r \in Registrations : Current(r) => Current(r)'
    BY <1>2, <2>4, CurrentKept
  <2>6. QED
    BY <1>2, <2>1, <2>2, <2>3, <2>5, TokensFrame
<1>10. ASSUME NEW c \in Callers, set_handler(c) PROVE OneToken'
  <2>1. outside' = outside /\ events' = events
    BY <1>10 DEF set_handler
  <2>2. \A k \in Keys : kq'[k] = kq[k] \/ kq'[k] = None
    BY <1>1, <1>10 DEF set_handler
  <2>3. \A v \in Workers : pc'[v] \in WorkPCs => pc[v] \in WorkPCs /\ ev'[v] = ev[v]
    BY <1>1, <1>10 DEF set_handler
  <2>4. \A v \in Workers : ~reset_handler(v)
    BY <1>1, <1>10 DEF set_handler, reset_handler
  <2>5. \A r \in Registrations : Current(r) => Current(r)'
    BY <1>2, <2>4, CurrentKept
  <2>6. QED
    BY <1>2, <2>1, <2>2, <2>3, <2>5, TokensFrame
<1>11. ASSUME NEW c \in Callers, AddReturns(c) PROVE OneToken'
  <2>1. outside' = outside /\ events' = events
    BY <1>11 DEF AddReturns
  <2>2. \A k \in Keys : kq'[k] = kq[k] \/ kq'[k] = None
    BY <1>1, <1>11 DEF AddReturns
  <2>3. \A v \in Workers : pc'[v] \in WorkPCs => pc[v] \in WorkPCs /\ ev'[v] = ev[v]
    BY <1>1, <1>11 DEF AddReturns
  <2>4. \A v \in Workers : ~reset_handler(v)
    BY <1>1, <1>11 DEF AddReturns, reset_handler
  <2>5. \A r \in Registrations : Current(r) => Current(r)'
    BY <1>2, <2>4, CurrentKept
  <2>6. QED
    BY <1>2, <2>1, <2>2, <2>3, <2>5, TokensFrame
<1>12. ASSUME NEW w \in Workers, Dispatch(w) PROVE OneToken'
  <2>1. PICK e \in events : /\ events' = events \ {e} /\ ev' = [ev EXCEPT ![w] = e]
    BY <1>12 DEF Dispatch
  <2>2. kq' = kq /\ outside' = outside /\ \A v \in Workers : v # w => pc'[v] = pc[v] /\ ev'[v] = ev[v]
    BY <1>1, <1>12, <2>1 DEF Dispatch
  <2>3. ev'[w] = e /\ e \in Registrations /\ Current(e)
    BY <1>1, <1>2, <2>1 DEF OneToken
  <2>4. \A v \in Workers : ~reset_handler(v)
    BY <1>1, <1>12, <2>1 DEF reset_handler
  <2>5. \A r \in Registrations : Current(r) => Current(r)'
    BY <1>2, <2>4, CurrentKept
  <2>6. ASSUME NEW k \in Keys, kq'[k] # None
        PROVE  Current(kq[k])' /\ kq'[k] \notin events' /\ kq'[k] # e
    <3>1. PICK r \in Registrations : r = kq[k] /\ Current(r) /\ r \notin events
      BY <1>1, <1>2, <2>2, <2>6 DEF OneToken
    <3>2. Current(kq[k])' <=> Current(r)'
      BY <2>2, <3>1 DEF Current
    <3>3. QED
      BY <2>1, <2>2, <2>5, <3>1, <3>2
  <2>7. \A r \in events' : Current(r)'
    BY <1>1, <1>2, <2>1, <2>5 DEF OneToken
  <2>8. ASSUME NEW v \in Workers, pc'[v] \in WorkPCs
        PROVE  /\ Current(ev[v])' /\ ev'[v] \notin events'
               /\ v # w => ev'[v] # e /\ pc[v] \in WorkPCs /\ ev'[v] = ev[v]
    <3>1. PICK r \in Registrations : r = ev'[v] /\ Current(r)
      BY <1>1, <1>2, <2>2, <2>3, <2>8 DEF OneToken
    <3>2. Current(ev[v])' <=> Current(r)'
      BY <3>1 DEF Current
    <3>3. QED
      BY <1>1, <1>2, <2>1, <2>2, <2>3, <2>5, <2>8, <3>1, <3>2 DEF OneToken
  <2>9. QED
    BY <1>1, <1>2, <2>2, <2>3, <2>6, <2>8, <2>7 DEF OneToken
<1>13. ASSUME NEW w \in Workers, Callback(w) PROVE OneToken'
  <2>1. outside' = outside /\ events' = events
    BY <1>13 DEF Callback
  <2>2. \A k \in Keys : kq'[k] = kq[k] \/ kq'[k] = None
    BY <1>1, <1>13 DEF Callback
  <2>3. \A v \in Workers : pc'[v] \in WorkPCs => pc[v] \in WorkPCs /\ ev'[v] = ev[v]
    BY <1>1, <1>13 DEF Callback
  <2>4. \A v \in Workers : ~reset_handler(v)
    BY <1>1, <1>13 DEF Callback, reset_handler
  <2>5. \A r \in Registrations : Current(r) => Current(r)'
    BY <1>2, <2>4, CurrentKept
  <2>6. QED
    BY <1>2, <2>1, <2>2, <2>3, <2>5, TokensFrame
<1>14. ASSUME NEW w \in Workers, reactivate(w) PROVE OneToken'
  <2>1. PICK n \in Registrations : n = ev[w] /\ n.key \in Keys /\ Current(n) /\ n \notin events
    BY <1>1, <1>2, <1>14, RegistrationFacts DEF reactivate, OneToken
  <2>2. kq' = [kq EXCEPT ![n.key] = n] /\ UNCHANGED <<events, ev, outside>>
    BY <1>14, <2>1 DEF reactivate, EV_ADD
  <2>3. \A v \in Workers : pc'[v] \in WorkPCs => v # w /\ pc[v] \in WorkPCs
    BY <1>1, <1>14 DEF reactivate
  <2>4. \A v \in Workers : ~reset_handler(v)
    BY <1>1, <1>14 DEF reactivate, reset_handler
  <2>5. \A r \in Registrations : Current(r) => Current(r)'
    BY <1>2, <2>4, CurrentKept
  <2>6. ASSUME NEW k \in Keys, kq'[k] # None
        PROVE  /\ Current(kq[k])' /\ kq'[k] \notin events'
               /\ \A v \in Workers : pc'[v] \in WorkPCs => kq'[k] # ev'[v]
    <3>1. PICK r \in Registrations : r = kq'[k] /\ (r = n \/ r = kq[k])
      BY <1>1, <2>1, <2>2, <2>6
    <3>2. Current(r) /\ r \notin events
      BY <1>1, <1>2, <2>1, <2>6, <3>1 DEF OneToken
    <3>3. Current(kq[k])' <=> Current(r)'
      BY <3>1 DEF Current
    <3>4. \A v \in Workers : pc'[v] \in WorkPCs => r # ev[v]
      BY <1>1, <1>2, <1>14, <2>1, <2>3, <2>6, <3>1 DEF OneToken, reactivate
    <3>5. QED
      BY <2>2, <2>5, <3>1, <3>2, <3>3, <3>4
  <2>7. \A r \in events' : Current(r)'
    BY <1>1, <1>2, <2>2, <2>5 DEF OneToken
  <2>8. ASSUME NEW v \in Workers, pc'[v] \in WorkPCs PROVE Current(ev[v])'
    <3>1. PICK r \in Registrations : r = ev[v] /\ Current(r)
      BY <1>1, <1>2, <2>3, <2>8 DEF OneToken
    <3>2. Current(ev[v])' <=> Current(r)'
      BY <2>2, <3>1 DEF Current
    <3>3. QED
      BY <2>5, <3>1, <3>2
  <2>9. QED
    BY <1>1, <1>2, <2>2, <2>3, <2>6, <2>7, <2>8 DEF OneToken
<1>15. ASSUME NEW w \in Workers, reset_handler(w) PROVE OneToken'
  <2>1. UNCHANGED <<kq, events, ev, outside>>
    BY <1>15 DEF reset_handler
  <2>2. \A v \in Workers : pc'[v] \in WorkPCs => v # w /\ pc[v] \in WorkPCs
    BY <1>1, <1>15 DEF reset_handler
  <2>3. \A v \in Workers : reset_handler(v) => v = w
    BY <1>1, <1>15 DEF reset_handler
  <2>4. \A r \in Registrations : Current(r) /\ r # ev[w] => Current(r)'
    BY <1>2, <2>3, CurrentKept
  <2>5. pc[w] \in WorkPCs
    BY <1>15 DEF reset_handler
  <2>6. ASSUME NEW k \in Keys, kq'[k] # None PROVE Current(kq[k])'
    <3>1. PICK r \in Registrations : r = kq[k] /\ Current(r) /\ r # ev[w]
      BY <1>1, <1>2, <2>1, <2>5, <2>6 DEF OneToken
    <3>2. Current(kq[k])' <=> Current(r)'
      BY <2>1, <3>1 DEF Current
    <3>3. QED
      BY <2>4, <3>1, <3>2
  <2>7. \A r \in events' : Current(r)'
    BY <1>1, <1>2, <2>1, <2>4, <2>5 DEF OneToken
  <2>8. ASSUME NEW v \in Workers, pc'[v] \in WorkPCs PROVE Current(ev[v])'
    <3>1. PICK r \in Registrations : r = ev[v] /\ Current(r) /\ r # ev[w]
      BY <1>1, <1>2, <2>2, <2>5, <2>8 DEF OneToken
    <3>2. Current(ev[v])' <=> Current(r)'
      BY <2>1, <3>1 DEF Current
    <3>3. QED
      BY <2>4, <3>1, <3>2
  <2>9. QED
    BY <1>1, <1>2, <2>1, <2>2, <2>6, <2>7, <2>8 DEF OneToken
<1>16. ASSUME NEW t \in Threads, Drop(t) PROVE OneToken'
  <2>1. outside' = outside /\ events' = events
    BY <1>16 DEF Drop
  <2>2. \A k \in Keys : kq'[k] = kq[k] \/ kq'[k] = None
    BY <1>1, <1>16 DEF Drop
  <2>3. \A v \in Workers : pc'[v] \in WorkPCs => pc[v] \in WorkPCs /\ ev'[v] = ev[v]
    BY <1>1, <1>16 DEF Drop
  <2>4. \A v \in Workers : ~reset_handler(v)
    BY <1>1, <1>16 DEF Drop, reset_handler
  <2>5. \A r \in Registrations : Current(r) => Current(r)'
    BY <1>2, <2>4, CurrentKept
  <2>6. QED
    BY <1>2, <2>1, <2>2, <2>3, <2>5, TokensFrame
<1>17. ASSUME NEW t \in Threads, Destroy(t) PROVE OneToken'
  <2>1. outside' = outside /\ events' = events
    BY <1>17 DEF Destroy
  <2>2. \A k \in Keys : kq'[k] = kq[k] \/ kq'[k] = None
    BY <1>1, <1>17 DEF Destroy, EV_DELETE
  <2>3. \A v \in Workers : pc'[v] \in WorkPCs => pc[v] \in WorkPCs /\ ev'[v] = ev[v]
    BY <1>1, <1>17 DEF Destroy
  <2>4. \A v \in Workers : ~reset_handler(v)
    BY <1>1, <1>17 DEF Destroy, reset_handler
  <2>5. \A r \in Registrations : Current(r) => Current(r)'
    BY <1>2, <2>4, CurrentKept
  <2>6. QED
    BY <1>2, <2>1, <2>2, <2>3, <2>5, TokensFrame
<1>18. ASSUME NEW t \in Threads, Free(t) PROVE OneToken'
  <2>1. outside' = outside /\ events' = events
    BY <1>18 DEF Free
  <2>2. \A k \in Keys : kq'[k] = kq[k] \/ kq'[k] = None
    BY <1>1, <1>18 DEF Free
  <2>3. \A v \in Workers : pc'[v] \in WorkPCs => pc[v] \in WorkPCs /\ ev'[v] = ev[v]
    BY <1>1, <1>18 DEF Free
  <2>4. \A v \in Workers : ~reset_handler(v)
    BY <1>1, <1>18 DEF Free, reset_handler
  <2>5. \A r \in Registrations : Current(r) => Current(r)'
    BY <1>2, <2>4, CurrentKept
  <2>6. QED
    BY <1>2, <2>1, <2>2, <2>3, <2>5, TokensFrame
<1>19. ASSUME NEW t \in Threads, Dropped(t) PROVE OneToken'
  <2>1. outside' = outside /\ events' = events
    BY <1>19 DEF Dropped
  <2>2. \A k \in Keys : kq'[k] = kq[k] \/ kq'[k] = None
    BY <1>1, <1>19 DEF Dropped, EV_DELETE
  <2>3. \A v \in Workers : pc'[v] \in WorkPCs => pc[v] \in WorkPCs /\ ev'[v] = ev[v]
    BY <1>1, <1>19 DEF Dropped
  <2>4. \A v \in Workers : ~reset_handler(v)
    BY <1>1, <1>19 DEF Dropped, reset_handler
  <2>5. \A r \in Registrations : Current(r) => Current(r)'
    BY <1>2, <2>4, CurrentKept
  <2>6. QED
    BY <1>2, <2>1, <2>2, <2>3, <2>5, TokensFrame
<1>20. ASSUME NEW k \in Keys, wait(k) PROVE OneToken'
  <2>1. PICK n \in Registrations : n = kq[k] /\ Current(n) /\ n \notin events /\ n.key = k
    BY <1>1, <1>2, <1>20 DEF wait, OneToken, RegisteredOK
  <2>2. events' = events \cup {n} /\ kq' = [kq EXCEPT ![k] = None] /\ UNCHANGED <<pc, ev, outside>>
    BY <1>20, <2>1 DEF wait, Reported
  <2>3. \A v \in Workers : ~reset_handler(v)
    <3>1. \A v \in Workers : pc[v] = "reset_handler" => pc'[v] # "drop"
      BY <2>2
    <3>2. QED
      BY <1>1, <3>1 DEF reset_handler
  <2>4. \A r \in Registrations : Current(r) => Current(r)'
    BY <1>2, <2>3, CurrentKept
  <2>5. ASSUME NEW l \in Keys, kq'[l] # None
        PROVE  Current(kq[l])' /\ kq'[l] \notin events' /\ kq'[l] = kq[l]
    <3>1. l # k /\ kq'[l] = kq[l]
      BY <1>1, <2>2, <2>5
    <3>2. PICK r \in Registrations : r = kq[l] /\ Current(r) /\ r \notin events /\ r.key = l
      BY <1>1, <1>2, <2>5, <3>1 DEF OneToken, RegisteredOK
    <3>3. Current(kq[l])' <=> Current(r)'
      BY <3>1, <3>2 DEF Current
    <3>4. r # n
      BY <2>1, <3>1, <3>2
    <3>5. QED
      BY <2>2, <2>4, <3>1, <3>2, <3>3, <3>4
  <2>6. \A r \in events' : Current(r)'
    BY <1>1, <1>2, <2>1, <2>2, <2>4 DEF OneToken
  <2>7. ASSUME NEW v \in Workers, pc[v] \in WorkPCs PROVE Current(ev[v])' /\ ev[v] \notin events'
    <3>1. PICK r \in Registrations : r = ev[v] /\ Current(r) /\ r \notin events /\ r # n
      BY <1>1, <1>2, <1>20, <2>1, <2>7 DEF OneToken, wait
    <3>2. Current(ev[v])' <=> Current(r)'
      BY <2>2, <3>1 DEF Current
    <3>3. QED
      BY <2>2, <2>4, <3>1, <3>2
  <2>8. QED
    BY <1>1, <1>2, <2>2, <2>5, <2>6, <2>7 DEF OneToken
<1>21. ASSUME Quiescent PROVE OneToken'
  <2>1. UNCHANGED vars
    BY <1>21 DEF Quiescent
  <2>2. QED
    BY <1>1, <2>1 DEF vars, OneToken, Current
<1>22. QED
  BY <1>3, <1>4, <1>5, <1>6, <1>7, <1>8, <1>9, <1>10, <1>11, <1>12, <1>13, <1>14, <1>15,
     <1>16, <1>17, <1>18, <1>19, <1>20, <1>21
     DEF Next, CallerStep, WorkerStep, Release
(* An event reaches the handler it was asked for. *)
LEMMA OwnEventKept ==
  ASSUME KqueueInv, ~outside, Next
  PROVE  OwnEvent'
<1> USE KqueueAssumption
        DEF xidentVars, allocVars, handlerVars, restVars, Threads, At, AllocPCs, AddPCs,
            DestroyPCs, WorkPCs, TypeOK, CallsOK, OwnEvent
<1>1. TypeOK /\ CallsOK /\ LiveOK /\ RegisteredOK /\ XidentOwned /\ OneToken /\ OwnEvent
  BY DEF KqueueInv
<1>2. ~outside
  OBVIOUS
<1>3. ASSUME NEW c \in Callers, NEW hd \in Handlers, add(c, hd) PROVE OwnEvent'
  BY <1>3, <1>1 DEF add
<1>4. ASSUME NEW c \in Callers, NEW hd \in Handlers, remove(c, hd) PROVE OwnEvent'
  BY <1>2, <1>4 DEF remove
<1>5. ASSUME NEW c \in Callers, FetchAndAdd(c) PROVE OwnEvent'
  BY <1>5, <1>1 DEF FetchAndAdd
<1>6. ASSUME NEW c \in Callers, CompareAndSwap(c) PROVE OwnEvent'
  BY <1>6, <1>1 DEF CompareAndSwap, Swaps
<1>7. ASSUME NEW c \in Callers, SetEvent(c) PROVE OwnEvent'
  BY <1>7, <1>1 DEF SetEvent, AllocOver, EV_ADD
<1>8. ASSUME NEW c \in Callers, SetEventFails(c) PROVE OwnEvent'
  BY <1>8, <1>1 DEF SetEventFails, free_xident, Throws, AllocOver
<1>9. ASSUME NEW c \in Callers, AllocFails(c) PROVE OwnEvent'
  BY <1>9, <1>1 DEF AllocFails, Throws, AllocOver
<1>10. ASSUME NEW c \in Callers, set_handler(c) PROVE OwnEvent'
  BY <1>10, <1>1 DEF set_handler
<1>11. ASSUME NEW c \in Callers, AddReturns(c) PROVE OwnEvent'
  BY <1>11, <1>1 DEF AddReturns
<1>12. ASSUME NEW w \in Workers, Dispatch(w) PROVE OwnEvent'
  <2>1. PICK e \in events : /\ ev' = [ev EXCEPT ![w] = e]
                            /\ hold' = [hold EXCEPT ![w] = {m_state[e.ident]} \ {None}]
                            /\ At(w, IF m_state[e.ident] = None THEN "reset_handler" ELSE "call")
    BY <1>12 DEF Dispatch
  <2>2. e \in Registrations /\ e.ident \in Xidents /\ Current(e)
    BY <1>1, <1>2, RegistrationFacts DEF OneToken
  <2>3. PICK S : S = {m_state[e.ident]} \ {None}
    OBVIOUS
  <2>4. hold'[w] = S /\ ev'[w] = e
    BY <1>1, <2>1, <2>3
  <2>5. m_state[e.ident] # None => m_state[e.ident] = e.from
    <3>1. m_state[e.ident] # None => m_state[e.ident] \in Handlers /\ xident[m_state[e.ident]] = e.ident
      BY <1>1, <2>2 DEF LiveOK
    <3>2. QED
      BY <2>2, <3>1, CurrentOwner
  <2>6. pc'[w] = "call" => m_state[e.ident] # None
    BY <1>1, <2>1
  <2>7. pc'[w] = "call" => hold'[w] = {ev'[w].from}
    BY <2>3, <2>4, <2>5, <2>6
  <2>8. \A v \in Workers : v # w => pc'[v] = pc[v] /\ hold'[v] = hold[v] /\ ev'[v] = ev[v]
    BY <1>1, <2>1
  <2>9. outside' = outside
    BY <1>12 DEF Dispatch
  <2>10. QED
    BY <1>1, <2>7, <2>8, <2>9
<1>13. ASSUME NEW w \in Workers, Callback(w) PROVE OwnEvent'
  BY <1>13, <1>1 DEF Callback
<1>14. ASSUME NEW w \in Workers, reactivate(w) PROVE OwnEvent'
  BY <1>14, <1>1 DEF reactivate, EV_ADD
<1>15. ASSUME NEW w \in Workers, reset_handler(w) PROVE OwnEvent'
  BY <1>15, <1>1 DEF reset_handler, Reset
<1>16. ASSUME NEW t \in Threads, Drop(t) PROVE OwnEvent'
  BY <1>16, <1>1 DEF Drop
<1>17. ASSUME NEW t \in Threads, Destroy(t) PROVE OwnEvent'
  BY <1>17, <1>1 DEF Destroy, EV_DELETE
<1>18. ASSUME NEW t \in Threads, Free(t) PROVE OwnEvent'
  BY <1>18, <1>1 DEF Free, free_xident
<1>19. ASSUME NEW t \in Threads, Dropped(t) PROVE OwnEvent'
  BY <1>19, <1>1 DEF Dropped, EV_DELETE
<1>20. ASSUME NEW k \in Keys, wait(k) PROVE OwnEvent'
  BY <1>20, <1>1 DEF wait, Reported
<1>21. ASSUME Quiescent PROVE OwnEvent'
  BY <1>21, <1>1 DEF Quiescent, vars
<1>22. QED
  BY <1>3, <1>4, <1>5, <1>6, <1>7, <1>8, <1>9, <1>10, <1>11, <1>12, <1>13, <1>14, <1>15,
     <1>16, <1>17, <1>18, <1>19, <1>20, <1>21
     DEF Next, CallerStep, WorkerStep, Release

-----------------------------------------------------------------------------
(* The index and the identifiers: arithmetic.                              *)

(* The remainder is the only one. *)
LEMMA Remainder ==
  ASSUME NEW m \in Nat, m > 0, NEW q \in Nat, NEW r \in 0..(m - 1), NEW n, n = m * q + r
  PROVE  n % m = r
<1>1. (m * q + r) % m = r
  OBVIOUS
<1>2. QED
  BY <1>1, Zenon

(* Division with remainder. *)
LEMMA Divided ==
  ASSUME NEW m \in Nat, m > 0, NEW n \in Nat
  PROVE  \E q \in Nat : \E r \in 0..(m - 1) : n = m * q + r
<1>1. n % m = n - m * (n \div m)
  OBVIOUS
<1>2. n % m \in 0..(m - 1)
  OBVIOUS
<1>3. n \div m \in Nat
  OBVIOUS
<1>4. PICK q \in Nat : q = n \div m
  BY <1>3
<1>5. PICK r \in 0..(m - 1) : r = n % m
  BY <1>2
<1>6. m * q \in Nat
  OBVIOUS
<1>7. n = m * q + r
  BY <1>1, <1>4, <1>5, <1>6
<1>8. QED
  BY <1>7, Zenon

(* The remainder of the next number. *)
LEMMA NextRemainder ==
  ASSUME NEW m \in Nat, m > 0, NEW n \in Nat
  PROVE  (n + 1) % m = IF n % m = m - 1 THEN 0 ELSE (n % m) + 1
<1>1. PICK q \in Nat, r \in 0..(m - 1) : n = m * q + r
  BY Divided, Zenon
<1>2. r = n % m
  BY <1>1, Remainder
<1>3. CASE r = m - 1
  <2>1. n + 1 = m * (q + 1) + 0 /\ q + 1 \in Nat /\ 0 \in 0..(m - 1)
    BY <1>1, <1>3
  <2>2. (n + 1) % m = 0
    BY <2>1, Remainder
  <2>3. QED
    BY <1>2, <1>3, <2>2, Zenon
<1>4. CASE r # m - 1
  <2>1. r + 1 \in 0..(m - 1)
    BY <1>4
  <2>2. PICK s \in 0..(m - 1) : s = r + 1
    BY <2>1
  <2>3. n + 1 = m * q + s
    BY <1>1, <2>2
  <2>4. (n + 1) % m = s
    BY <2>3, Remainder
  <2>5. QED
    BY <1>2, <1>4, <2>2, <2>4, Zenon
<1>5. QED
  BY <1>3, <1>4

(* The index, counted modulo Wrap, goes round all identifiers. *)
LEMMA NextIndex ==
  ASSUME NEW n \in 0..(Wrap - 1)
  PROVE  ((n + 1) % Wrap) % XMAX = IF n % XMAX = XMAX - 1 THEN 0 ELSE (n % XMAX) + 1
<1>1. Wrap \in Nat /\ Wrap > 0 /\ XMAX \in Nat /\ XMAX > 0 /\ n \in Nat
  BY KqueueAssumption
<1>2. (n + 1) % XMAX = IF n % XMAX = XMAX - 1 THEN 0 ELSE (n % XMAX) + 1
  BY <1>1, NextRemainder
<1>3. CASE n + 1 < Wrap
  <2>1. (n + 1) % Wrap = n + 1
    BY <1>1, <1>3
  <2>2. QED
    BY <1>2, <2>1
<1>4. CASE n + 1 = Wrap
  <2>1. (n + 1) % Wrap = 0
    BY <1>1, <1>4
  <2>2. 0 % XMAX = 0
    BY <1>1
  <2>3. (n + 1) % XMAX = 0
    BY <1>4, KqueueAssumption
  <2>4. QED
    BY <2>1, <2>2, <2>3, <1>2
<1>5. QED
  BY <1>1, <1>3, <1>4

(* The distance to an identifier is less than a round. *)
LEMMA DistanceRange ==
  ASSUME m_xident_index \in 0..(Wrap - 1), NEW i \in Xidents
  PROVE  Distance(i) \in 0..(XMAX - 1)
<1>1. XMAX \in Nat /\ XMAX > 0 /\ i \in 0..(XMAX - 1)
  BY KqueueAssumption DEF Xidents
<1>2. PICK r \in 0..(XMAX - 1) : r = m_xident_index % XMAX
  BY IndexFacts DEF Xidents
<1>3. Distance(i) = IF r <= i THEN i - r ELSE i - r + XMAX
  BY <1>2 DEF Distance
<1>4. QED
  BY <1>1, <1>3

(* The fetch of the index brings it nearer to every identifier but the one *)
(* fetched, which is then a round away.                                    *)
LEMMA DistanceNext ==
  ASSUME m_xident_index \in 0..(Wrap - 1), m_xident_index' = (m_xident_index + 1) % Wrap,
         NEW i \in Xidents
  PROVE  /\ i # m_xident_index % XMAX => Distance(i)' = Distance(i) - 1
         /\ i = m_xident_index % XMAX => Distance(i) = 0 /\ Distance(i)' = XMAX - 1
<1>1. XMAX \in Nat /\ XMAX > 0 /\ i \in 0..(XMAX - 1)
  BY KqueueAssumption DEF Xidents
<1>2. PICK r \in 0..(XMAX - 1) : r = m_xident_index % XMAX
  BY IndexFacts DEF Xidents
<1>3. PICK s : s = m_xident_index' % XMAX
  OBVIOUS
<1>4. s = IF r = XMAX - 1 THEN 0 ELSE r + 1
  BY <1>2, <1>3, NextIndex
<1>5. Distance(i) = IF r <= i THEN i - r ELSE i - r + XMAX
  BY <1>2 DEF Distance
<1>6. Distance(i)' = IF s <= i THEN i - s ELSE i - s + XMAX
  BY <1>3 DEF Distance
<1>7. (i # r => Distance(i)' = Distance(i) - 1) /\ (i = r => Distance(i) = 0 /\ Distance(i)' = XMAX - 1)
  BY <1>1, <1>4, <1>5, <1>6
<1>8. QED
  BY <1>2, <1>7

(* Of two callers there is no third. *)
LEMMA NoThird ==
  ASSUME Cardinality(Callers) <= 2, NEW c \in Callers, NEW d \in Callers, NEW e \in Callers,
         c # d, e # c, e # d
  PROVE  FALSE
<1>1. IsFiniteSet(Callers) /\ {c, d, e} \subseteq Callers
  BY KqueueAssumption
<1>2. Cardinality({c}) = 1 /\ IsFiniteSet({c})
  BY FS_Singleton
<1>3. PICK S : S = {c} \cup {d}
  OBVIOUS
<1>4. IsFiniteSet(S) /\ Cardinality(S) = 2 /\ e \notin S
  BY <1>2, <1>3, FS_AddElement
<1>5. Cardinality(S \cup {e}) = 3 /\ S \cup {e} = {c, d, e}
  BY <1>3, <1>4, FS_AddElement
<1>6. Cardinality({c, d, e}) <= Cardinality(Callers)
  BY <1>1, FS_Subset
<1>7. Cardinality(Callers) \in Nat
  BY <1>1, FS_CardinalityType
<1>8. QED
  BY <1>5, <1>6, <1>7

-----------------------------------------------------------------------------
(* alloc_xident does not give up too soon.                                 *)

(* What a step does to a caller that is not in alloc_xident before and     *)
(* after, or that leaves it, or that stays where it was.                   *)
Undisturbed(d) ==
  \/ /\ x'[d] = x[d] /\ probes'[d] = probes[d] /\ freeThroughout'[d] = freeThroughout[d]
     /\ \/ pc'[d] = pc[d]
        \/ {pc[d], pc'[d]} \cap {"fetch_and_add", "compare_and_swap", "EMFILE"} = {}
  \/ /\ freeThroughout'[d] = {} /\ pc[d] # "compare_and_swap"
     /\ pc'[d] \notin {"fetch_and_add", "compare_and_swap", "EMFILE"}

(* Such a step keeps the bound on the tries, whatever it frees. *)
LEMMA ProbesFrame ==
  ASSUME TypeOK, ProbesOK, m_xident_index' = m_xident_index,
         \A i \in Xidents : m_xident'[i] => m_xident[i],
         \A d \in Callers : Undisturbed(d)
  PROVE  ProbesOK'
<1> USE DEF Undisturbed
<1>1. \A i : Distance(i)' = Distance(i)
  BY DEF Distance
<1>2. \A d \in Callers : \A i : Fetched(d, i)' <=> Fetched(d, i)
  BY DEF Fetched
<1>3. ASSUME NEW c \in Callers, NEW i \in freeThroughout'[c]
      PROVE  /\ i \in Xidents /\ i \in freeThroughout[c] /\ ~m_xident'[i]
             /\ pc'[c] = pc[c] \/ pc'[c] \notin {"fetch_and_add", "compare_and_swap", "EMFILE"}
             /\ pc'[c] = pc[c] => Tries(c)' = Tries(c)
  <2>1. freeThroughout'[c] = freeThroughout[c] /\ x'[c] = x[c] /\ probes'[c] = probes[c]
    BY <1>3
  <2>2. i \in Xidents /\ ~m_xident[i]
    BY <1>3, <2>1 DEF TypeOK, ProbesOK
  <2>3. pc'[c] = pc[c] \/ pc'[c] \notin {"fetch_and_add", "compare_and_swap", "EMFILE"}
    BY <1>3
  <2>4. pc'[c] = pc[c] => Tries(c)' = Tries(c)
    BY <2>1 DEF Tries
  <2>5. QED
    BY <1>3, <2>1, <2>2, <2>3, <2>4
<1>4. ASSUME NEW c \in Callers, pc'[c] = "EMFILE" PROVE probes'[c] >= 2 * XMAX
  BY <1>4 DEF ProbesOK
<1>5. ASSUME NEW c \in Callers, NEW i \in freeThroughout'[c], ~Fetched(c, i)',
             pc'[c] \in {"fetch_and_add", "compare_and_swap", "EMFILE"}
      PROVE  \/ Tries(c)' + Distance(i)' < XMAX
             \/ /\ Tries(c)' + Distance(i)' < 2 * XMAX
                /\ \E d \in Callers \ {c} : Fetched(d, i)'
  <2>1. pc'[c] = pc[c] /\ Tries(c)' = Tries(c) /\ i \in freeThroughout[c] /\ ~Fetched(c, i)
    BY <1>2, <1>3, <1>5
  <2>2. \/ Tries(c) + Distance(i) < XMAX
        \/ Tries(c) + Distance(i) < 2 * XMAX /\ \E d \in Callers \ {c} : Fetched(d, i)
    BY <1>5, <2>1 DEF ProbesOK
  <2>3. QED
    BY <1>1, <1>2, <2>1, <2>2
<1>6. QED
  BY <1>3, <1>4, <1>5 DEF ProbesOK

(* alloc_xident is called: no try is made, and every identifier is less    *)
(* than a round away.                                                      *)
LEMMA ProbesAdd ==
  ASSUME TypeOK, CallsOK, ProbesOK, NEW c \in Callers, NEW hd \in Handlers, add(c, hd)
  PROVE  ProbesOK'
<1>1. /\ \A d \in Callers : d # c => pc'[d] = pc[d] /\ freeThroughout'[d] = freeThroughout[d]
      /\ pc[c] = "idle" /\ pc'[c] = "fetch_and_add"
      /\ freeThroughout'[c] = {i \in Xidents : ~m_xident[i]} /\ probes[c] = 0
  BY DEF add, At, TypeOK, CallsOK, AllocPCs, Threads
<1>2. x' = x /\ probes' = probes /\ m_xident' = m_xident /\ m_xident_index' = m_xident_index
  BY DEF add, xidentVars
<1>3. \A i : Distance(i)' = Distance(i)
  BY <1>2 DEF Distance
<1>4. \A d \in Callers : \A i : Fetched(d, i)' <=> Fetched(d, i)
  BY <1>1, <1>2 DEF Fetched
<1>5. \A d \in Callers : d # c => Tries(d)' = Tries(d)
  BY <1>1, <1>2 DEF Tries
<1>6. Tries(c)' = 0
  BY <1>1, <1>2 DEF Tries
<1>7. \A d \in Callers : \A i \in freeThroughout'[d] : ~m_xident'[i]
  BY <1>1, <1>2 DEF ProbesOK
<1>8. \A i \in freeThroughout'[c] : Tries(c)' + Distance(i)' < XMAX
  <2>1. \A i \in Xidents : Distance(i) \in 0..(XMAX - 1)
    BY DistanceRange DEF TypeOK
  <2>2. XMAX \in Nat
    BY KqueueAssumption
  <2>3. QED
    BY <1>1, <1>3, <1>6, <2>1, <2>2
<1>9. ASSUME NEW d \in Callers, d # c, NEW i \in freeThroughout'[d], ~Fetched(d, i)',
             pc'[d] \in {"fetch_and_add", "compare_and_swap", "EMFILE"}
      PROVE  \/ Tries(d)' + Distance(i)' < XMAX
             \/ /\ Tries(d)' + Distance(i)' < 2 * XMAX
                /\ \E e \in Callers \ {d} : Fetched(e, i)'
  <2>1. \/ Tries(d) + Distance(i) < XMAX
        \/ Tries(d) + Distance(i) < 2 * XMAX /\ \E e \in Callers \ {d} : Fetched(e, i)
    BY <1>1, <1>4, <1>9 DEF ProbesOK
  <2>2. QED
    BY <1>3, <1>4, <1>5, <1>9, <2>1
<1>10. \A d \in Callers : pc'[d] = "EMFILE" => probes'[d] >= 2 * XMAX
  BY <1>1, <1>2 DEF ProbesOK
<1>11. QED
  BY <1>7, <1>8, <1>9, <1>10 DEF ProbesOK

(* The index is fetched.  What the caller does not fetch comes nearer as   *)
(* its tries grow; what it does is hidden from the other one for a round.  *)
LEMMA ProbesFetch ==
  ASSUME TypeOK, ProbesOK, Cardinality(Callers) <= 2, NEW c \in Callers, FetchAndAdd(c)
  PROVE  ProbesOK'
<1>1. PICK n \in Xidents : n = m_xident_index % XMAX
  BY IndexFacts DEF TypeOK
<1>2. /\ \A d \in Callers : d # c => pc'[d] = pc[d] /\ x'[d] = x[d]
      /\ pc[c] = "fetch_and_add" /\ pc'[c] = "compare_and_swap" /\ x'[c] = n
  BY <1>1 DEF FetchAndAdd, At, TypeOK, Threads
<1>3. /\ freeThroughout' = freeThroughout /\ probes' = probes /\ m_xident' = m_xident
      /\ m_xident_index' = (m_xident_index + 1) % Wrap /\ m_xident_index \in 0..(Wrap - 1)
  BY DEF FetchAndAdd, TypeOK
<1>4. \A i \in Xidents : /\ i # n => Distance(i)' = Distance(i) - 1
                         /\ i = n => Distance(i) = 0 /\ Distance(i)' = XMAX - 1
  BY <1>1, <1>3, DistanceNext
<1>5. \A d \in Callers : \A i : d # c => (Fetched(d, i)' <=> Fetched(d, i))
  BY <1>2 DEF Fetched
<1>6. \A i : ~Fetched(c, i) /\ (Fetched(c, i)' <=> i = n)
  BY <1>2 DEF Fetched
<1>7. \A d \in Callers : d # c => Tries(d)' = Tries(d)
  BY <1>2, <1>3 DEF Tries
<1>8. Tries(c)' = Tries(c) + 1
  BY <1>2, <1>3 DEF Tries
<1>9. XMAX \in Nat /\ XMAX > 0
  BY KqueueAssumption
<1>10. \A d \in Callers : Tries(d) \in Nat
  BY DEF Tries, TypeOK
<1>11. \A i \in Xidents : Distance(i) \in 0..(XMAX - 1)
  BY <1>3, DistanceRange
<1>12. ASSUME NEW d \in Callers, NEW i \in freeThroughout[d], ~Fetched(d, i)',
             pc'[d] \in {"fetch_and_add", "compare_and_swap", "EMFILE"}
       PROVE  \/ Tries(d)' + Distance(i)' < XMAX
              \/ /\ Tries(d)' + Distance(i)' < 2 * XMAX
                 /\ \E e \in Callers \ {d} : Fetched(e, i)'
  <2>1. i \in Xidents /\ ~Fetched(d, i)
    BY <1>5, <1>6, <1>12 DEF TypeOK
  <2>2. \/ Tries(d) + Distance(i) < XMAX
        \/ Tries(d) + Distance(i) < 2 * XMAX /\ \E e \in Callers \ {d} : Fetched(e, i)
    BY <1>2, <1>12, <2>1 DEF ProbesOK
  <2>3. (\E e \in Callers \ {d} : Fetched(e, i)) => \E e \in Callers \ {d} : Fetched(e, i)'
    BY <1>5, <1>6
  <2>4. CASE d = c
    <3>1. Distance(i)' = Distance(i) - 1
      BY <1>4, <1>6, <1>12, <2>1, <2>4
    <3>2. Tries(d)' + Distance(i)' = Tries(d) + Distance(i)
      BY <1>8, <1>10, <1>11, <2>1, <2>4, <3>1
    <3>3. QED
      BY <2>2, <2>3, <3>2
  <2>5. CASE d # c /\ i # n
    <3>1. Tries(d)' = Tries(d) /\ Distance(i)' = Distance(i) - 1
      BY <1>4, <1>7, <2>1, <2>5
    <3>2. QED
      BY <1>9, <1>10, <1>11, <2>1, <2>2, <2>3, <3>1
  <2>6. CASE d # c /\ i = n
    <3>1. Tries(d)' = Tries(d) /\ Distance(i) = 0 /\ Distance(i)' = XMAX - 1
      BY <1>4, <1>7, <2>1, <2>6
    <3>2. Fetched(c, i)'
      BY <1>6, <2>6
    <3>3. ASSUME NEW e \in Callers \ {d}, Fetched(e, i) PROVE FALSE
      <4>1. e # c
        BY <1>6, <3>3
      <4>2. QED
        BY <2>6, <4>1, NoThird
    <3>4. Tries(d) < XMAX
      BY <1>10, <2>2, <3>1, <3>3
    <3>5. QED
      BY <1>9, <1>10, <2>6, <3>1, <3>2, <3>4
  <2>7. QED
    BY <2>4, <2>5, <2>6
<1>13. \A d \in Callers : pc'[d] = "EMFILE" => probes'[d] >= 2 * XMAX
  BY <1>2, <1>3 DEF ProbesOK
<1>14. QED
  BY <1>3, <1>12, <1>13 DEF ProbesOK

(* The swap: what is taken is no longer free throughout, and what was      *)
(* taken already was not.                                                  *)
LEMMA ProbesSwap ==
  ASSUME TypeOK, ProbesOK, NEW c \in Callers, CompareAndSwap(c)
  PROVE  ProbesOK'
<1>1. /\ \A d \in Callers : d # c => pc'[d] = pc[d]
      /\ pc[c] = "compare_and_swap" /\ x' = x /\ m_xident_index' = m_xident_index
      /\ x[c] \in Xidents
  BY DEF CompareAndSwap, At, TypeOK, Threads
<1>2. \A i : Distance(i)' = Distance(i)
  BY <1>1 DEF Distance
<1>3. XMAX \in Nat
  BY KqueueAssumption
<1>4. CASE Swaps(c)
  <2>1. /\ pc'[c] = "set_event" /\ probes' = probes
        /\ m_xident' = [m_xident EXCEPT ![x[c]] = TRUE]
        /\ freeThroughout' = [d \in Callers |-> freeThroughout[d] \ {x[c]}]
    BY <1>4 DEF CompareAndSwap, At, TypeOK, Threads
  <2>2. \A d \in Callers : \A i \in freeThroughout'[d] :
          i \in freeThroughout[d] /\ i # x[c] /\ i \in Xidents /\ m_xident'[i] = m_xident[i]
    BY <2>1 DEF TypeOK
  <2>3. \A d \in Callers : \A i : i # x[c] => (Fetched(d, i)' <=> Fetched(d, i))
    BY <1>1, <2>1 DEF Fetched
  <2>4. \A d \in Callers : d # c => Tries(d)' = Tries(d)
    BY <1>1, <2>1 DEF Tries
  <2>5. ASSUME NEW d \in Callers, NEW i \in freeThroughout'[d], ~Fetched(d, i)',
               pc'[d] \in {"fetch_and_add", "compare_and_swap", "EMFILE"}
        PROVE  \/ Tries(d)' + Distance(i)' < XMAX
               \/ /\ Tries(d)' + Distance(i)' < 2 * XMAX
                  /\ \E e \in Callers \ {d} : Fetched(e, i)'
    <3>1. d # c /\ i \in freeThroughout[d] /\ i # x[c] /\ ~Fetched(d, i)
      BY <2>1, <2>2, <2>3, <2>5
    <3>2. \/ Tries(d) + Distance(i) < XMAX
          \/ Tries(d) + Distance(i) < 2 * XMAX /\ \E e \in Callers \ {d} : Fetched(e, i)
      BY <1>1, <2>5, <3>1 DEF ProbesOK
    <3>3. QED
      BY <1>2, <2>3, <2>4, <3>1, <3>2
  <2>6. \A d \in Callers : pc'[d] = "EMFILE" => probes'[d] >= 2 * XMAX
    BY <1>1, <2>1 DEF ProbesOK
  <2>7. \A d \in Callers : \A i \in freeThroughout'[d] : ~m_xident'[i]
    BY <2>2 DEF ProbesOK
  <2>8. QED
    BY <2>5, <2>6, <2>7 DEF ProbesOK
<1>5. CASE ~Swaps(c)
  <2>1. /\ pc'[c] \in {"fetch_and_add", "EMFILE"} /\ probes'[c] = probes[c] + 1
        /\ pc'[c] = "EMFILE" => probes[c] + 1 >= 2 * XMAX
        /\ \A d \in Callers : d # c => probes'[d] = probes[d]
        /\ m_xident' = m_xident /\ freeThroughout' = freeThroughout
    <3>1. /\ probes' = [probes EXCEPT ![c] = @ + 1]
          /\ pc'[c] = IF probes[c] + 1 < MaxProbes THEN "fetch_and_add" ELSE "EMFILE"
          /\ m_xident' = m_xident /\ freeThroughout' = freeThroughout
      BY <1>5 DEF CompareAndSwap, At, TypeOK, Threads
    <3>2. probes[c] \in Nat /\ MaxProbes = 2 * XMAX
      BY <1>3 DEF TypeOK, MaxProbes
    <3>3. QED
      BY <1>3, <3>1, <3>2 DEF TypeOK
  <2>2. m_xident[x[c]]
    BY <1>5 DEF Swaps
  <2>3. \A d \in Callers : \A i \in freeThroughout[d] : i # x[c]
    BY <2>2 DEF ProbesOK
  <2>4. \A d \in Callers : \A i : i # x[c] => (Fetched(d, i)' <=> Fetched(d, i))
    BY <1>1, <2>1 DEF Fetched
  <2>5. \A d \in Callers : Tries(d)' = Tries(d)
    BY <1>1, <2>1 DEF Tries
  <2>6. ASSUME NEW d \in Callers, NEW i \in freeThroughout[d], ~Fetched(d, i)',
               pc'[d] \in {"fetch_and_add", "compare_and_swap", "EMFILE"}
        PROVE  \/ Tries(d)' + Distance(i)' < XMAX
               \/ /\ Tries(d)' + Distance(i)' < 2 * XMAX
                  /\ \E e \in Callers \ {d} : Fetched(e, i)'
    <3>1. i # x[c] /\ ~Fetched(d, i) /\ pc[d] \in {"fetch_and_add", "compare_and_swap", "EMFILE"}
      BY <1>1, <2>3, <2>4, <2>6
    <3>2. \/ Tries(d) + Distance(i) < XMAX
          \/ Tries(d) + Distance(i) < 2 * XMAX /\ \E e \in Callers \ {d} : Fetched(e, i)
      BY <2>6, <3>1 DEF ProbesOK
    <3>3. QED
      BY <1>2, <2>4, <2>5, <3>1, <3>2
  <2>7. \A d \in Callers : pc'[d] = "EMFILE" => probes'[d] >= 2 * XMAX
    BY <1>1, <2>1 DEF ProbesOK
  <2>8. QED
    BY <2>1, <2>6, <2>7 DEF ProbesOK
<1>6. QED
  BY <1>4, <1>5

(* While two threads allocate at most, what a caller could not miss it cannot miss. *)
LEMMA ProbesKept ==
  ASSUME KqueueInv, Cardinality(Callers) <= 2, Next
  PROVE  ProbesOK'
<1>1. TypeOK /\ CallsOK /\ LiveOK /\ ProbesOK
  BY DEF KqueueInv
<1>2. Workers \cap Callers = {}
  BY KqueueAssumption
<1>3. ASSUME NEW c \in Callers, NEW hd \in Handlers, add(c, hd) PROVE ProbesOK'
  BY <1>3, <1>1, ProbesAdd
<1>4. ASSUME NEW c \in Callers, NEW hd \in Handlers, remove(c, hd) PROVE ProbesOK'
  <2>1. m_xident_index' = m_xident_index /\ \A i \in Xidents : m_xident'[i] => m_xident[i]
    BY <1>1, <1>4 DEF TypeOK, remove, At, xidentVars, allocVars
  <2>2. \A d \in Callers : Undisturbed(d)
    BY <1>1, <1>4, <1>2
       DEF Undisturbed, TypeOK, CallsOK, AllocPCs, AddPCs, WorkPCs, DestroyPCs, Threads,
           remove, At, xidentVars, allocVars
  <2>3. QED
    BY <1>1, <2>1, <2>2, ProbesFrame
<1>5. ASSUME NEW c \in Callers, FetchAndAdd(c) PROVE ProbesOK'
  BY <1>5, <1>1, ProbesFetch
<1>6. ASSUME NEW c \in Callers, CompareAndSwap(c) PROVE ProbesOK'
  BY <1>6, <1>1, ProbesSwap
<1>7. ASSUME NEW c \in Callers, SetEvent(c) PROVE ProbesOK'
  <2>1. m_xident_index' = m_xident_index /\ \A i \in Xidents : m_xident'[i] => m_xident[i]
    BY <1>1, <1>7 DEF TypeOK, SetEvent, At, xidentVars, allocVars, AllocOver
  <2>2. \A d \in Callers : Undisturbed(d)
    BY <1>1, <1>7, <1>2
       DEF Undisturbed, TypeOK, CallsOK, AllocPCs, AddPCs, WorkPCs, DestroyPCs, Threads,
           SetEvent, At, xidentVars, allocVars, AllocOver
  <2>3. QED
    BY <1>1, <2>1, <2>2, ProbesFrame
<1>8. ASSUME NEW c \in Callers, SetEventFails(c) PROVE ProbesOK'
  <2>1. m_xident_index' = m_xident_index /\ \A i \in Xidents : m_xident'[i] => m_xident[i]
    BY <1>1, <1>8
       DEF TypeOK, SetEventFails, Throws, free_xident, At, xidentVars, allocVars, AllocOver
  <2>2. \A d \in Callers : Undisturbed(d)
    BY <1>1, <1>8, <1>2
       DEF Undisturbed, TypeOK, CallsOK, AllocPCs, AddPCs, WorkPCs, DestroyPCs, Threads,
           SetEventFails, Throws, free_xident, At, xidentVars, allocVars, AllocOver
  <2>3. QED
    BY <1>1, <2>1, <2>2, ProbesFrame
<1>9. ASSUME NEW c \in Callers, AllocFails(c) PROVE ProbesOK'
  <2>1. m_xident_index' = m_xident_index /\ \A i \in Xidents : m_xident'[i] => m_xident[i]
    BY <1>1, <1>9 DEF TypeOK, AllocFails, Throws, At, xidentVars, allocVars, AllocOver
  <2>2. \A d \in Callers : Undisturbed(d)
    BY <1>1, <1>9, <1>2
       DEF Undisturbed, TypeOK, CallsOK, AllocPCs, AddPCs, WorkPCs, DestroyPCs, Threads,
           AllocFails, Throws, At, xidentVars, allocVars, AllocOver
  <2>3. QED
    BY <1>1, <2>1, <2>2, ProbesFrame
<1>10. ASSUME NEW c \in Callers, set_handler(c) PROVE ProbesOK'
  <2>1. m_xident_index' = m_xident_index /\ \A i \in Xidents : m_xident'[i] => m_xident[i]
    BY <1>1, <1>10 DEF TypeOK, set_handler, At, xidentVars, allocVars
  <2>2. \A d \in Callers : Undisturbed(d)
    BY <1>1, <1>10, <1>2
       DEF Undisturbed, TypeOK, CallsOK, AllocPCs, AddPCs, WorkPCs, DestroyPCs, Threads,
           set_handler, At, xidentVars, allocVars
  <2>3. QED
    BY <1>1, <2>1, <2>2, ProbesFrame
<1>11. ASSUME NEW c \in Callers, AddReturns(c) PROVE ProbesOK'
  <2>1. m_xident_index' = m_xident_index /\ \A i \in Xidents : m_xident'[i] => m_xident[i]
    BY <1>1, <1>11 DEF TypeOK, AddReturns, At, xidentVars, allocVars
  <2>2. \A d \in Callers : Undisturbed(d)
    BY <1>1, <1>11, <1>2
       DEF Undisturbed, TypeOK, CallsOK, AllocPCs, AddPCs, WorkPCs, DestroyPCs, Threads,
           AddReturns, At, xidentVars, allocVars
  <2>3. QED
    BY <1>1, <2>1, <2>2, ProbesFrame
<1>12. ASSUME NEW w \in Workers, Dispatch(w) PROVE ProbesOK'
  <2>1. m_xident_index' = m_xident_index /\ \A i \in Xidents : m_xident'[i] => m_xident[i]
    BY <1>1, <1>12 DEF TypeOK, Dispatch, At, xidentVars, allocVars
  <2>2. \A d \in Callers : Undisturbed(d)
    BY <1>1, <1>12, <1>2
       DEF Undisturbed, TypeOK, CallsOK, AllocPCs, AddPCs, WorkPCs, DestroyPCs, Threads,
           Dispatch, At, xidentVars, allocVars
  <2>3. QED
    BY <1>1, <2>1, <2>2, ProbesFrame
<1>13. ASSUME NEW w \in Workers, Callback(w) PROVE ProbesOK'
  <2>1. m_xident_index' = m_xident_index /\ \A i \in Xidents : m_xident'[i] => m_xident[i]
    BY <1>1, <1>13 DEF TypeOK, Callback, At, xidentVars, allocVars
  <2>2. \A d \in Callers : Undisturbed(d)
    BY <1>1, <1>13, <1>2
       DEF Undisturbed, TypeOK, CallsOK, AllocPCs, AddPCs, WorkPCs, DestroyPCs, Threads,
           Callback, At, xidentVars, allocVars
  <2>3. QED
    BY <1>1, <2>1, <2>2, ProbesFrame
<1>14. ASSUME NEW w \in Workers, reactivate(w) PROVE ProbesOK'
  <2>1. m_xident_index' = m_xident_index /\ \A i \in Xidents : m_xident'[i] => m_xident[i]
    BY <1>1, <1>14 DEF TypeOK, reactivate, At, xidentVars, allocVars
  <2>2. \A d \in Callers : Undisturbed(d)
    BY <1>1, <1>14, <1>2
       DEF Undisturbed, TypeOK, CallsOK, AllocPCs, AddPCs, WorkPCs, DestroyPCs, Threads,
           reactivate, At, xidentVars, allocVars
  <2>3. QED
    BY <1>1, <2>1, <2>2, ProbesFrame
<1>15. ASSUME NEW w \in Workers, reset_handler(w) PROVE ProbesOK'
  <2>1. m_xident_index' = m_xident_index /\ \A i \in Xidents : m_xident'[i] => m_xident[i]
    BY <1>1, <1>15 DEF TypeOK, reset_handler, At, xidentVars, allocVars
  <2>2. \A d \in Callers : Undisturbed(d)
    BY <1>1, <1>15, <1>2
       DEF Undisturbed, TypeOK, CallsOK, AllocPCs, AddPCs, WorkPCs, DestroyPCs, Threads,
           reset_handler, At, xidentVars, allocVars
  <2>3. QED
    BY <1>1, <2>1, <2>2, ProbesFrame
<1>16. ASSUME NEW t \in Threads, Drop(t) PROVE ProbesOK'
  <2>1. m_xident_index' = m_xident_index /\ \A i \in Xidents : m_xident'[i] => m_xident[i]
    BY <1>1, <1>16 DEF TypeOK, Drop, At, xidentVars, allocVars
  <2>2. \A d \in Callers : Undisturbed(d)
    BY <1>1, <1>16, <1>2
       DEF Undisturbed, TypeOK, CallsOK, AllocPCs, AddPCs, WorkPCs, DestroyPCs, Threads,
           Drop, At, xidentVars, allocVars
  <2>3. QED
    BY <1>1, <2>1, <2>2, ProbesFrame
<1>17. ASSUME NEW t \in Threads, Destroy(t) PROVE ProbesOK'
  <2>1. m_xident_index' = m_xident_index /\ \A i \in Xidents : m_xident'[i] => m_xident[i]
    BY <1>1, <1>17 DEF TypeOK, Destroy, At, xidentVars, allocVars
  <2>2. \A d \in Callers : Undisturbed(d)
    BY <1>1, <1>17, <1>2
       DEF Undisturbed, TypeOK, CallsOK, AllocPCs, AddPCs, WorkPCs, DestroyPCs, Threads,
           Destroy, At, xidentVars, allocVars
  <2>3. QED
    BY <1>1, <2>1, <2>2, ProbesFrame
<1>18. ASSUME NEW t \in Threads, Free(t) PROVE ProbesOK'
  <2>1. arg[t] \in Handlers /\ xident[arg[t]] \in Xidents
    BY <1>1, <1>18 DEF Free, LiveOK, DestroyPCs, TypeOK
  <2>2. m_xident_index' = m_xident_index /\ \A i \in Xidents : m_xident'[i] => m_xident[i]
    BY <1>1, <1>18, <2>1 DEF TypeOK, Free, free_xident, At, xidentVars, allocVars
  <2>3. \A d \in Callers : Undisturbed(d)
    BY <1>1, <1>18, <1>2
       DEF Undisturbed, TypeOK, CallsOK, AllocPCs, AddPCs, WorkPCs, DestroyPCs, Threads,
           Free, free_xident, At, xidentVars, allocVars
  <2>4. QED
    BY <1>1, <2>2, <2>3, ProbesFrame
<1>19. ASSUME NEW t \in Threads, Dropped(t) PROVE ProbesOK'
  <2>1. m_xident_index' = m_xident_index /\ \A i \in Xidents : m_xident'[i] => m_xident[i]
    BY <1>1, <1>19 DEF TypeOK, Dropped, At, xidentVars, allocVars
  <2>2. \A d \in Callers : Undisturbed(d)
    BY <1>1, <1>19, <1>2
       DEF Undisturbed, TypeOK, CallsOK, AllocPCs, AddPCs, WorkPCs, DestroyPCs, Threads,
           Dropped, At, xidentVars, allocVars
  <2>3. QED
    BY <1>1, <2>1, <2>2, ProbesFrame
<1>20. ASSUME NEW k \in Keys, wait(k) PROVE ProbesOK'
  <2>1. m_xident_index' = m_xident_index /\ \A i \in Xidents : m_xident'[i] => m_xident[i]
    BY <1>1, <1>20 DEF TypeOK, wait, At, xidentVars, allocVars
  <2>2. \A d \in Callers : Undisturbed(d)
    BY <1>1, <1>20, <1>2
       DEF Undisturbed, TypeOK, CallsOK, AllocPCs, AddPCs, WorkPCs, DestroyPCs, Threads,
           wait, At, xidentVars, allocVars
  <2>3. QED
    BY <1>1, <2>1, <2>2, ProbesFrame
<1>21. ASSUME Quiescent PROVE ProbesOK'
  <2>1. m_xident_index' = m_xident_index /\ \A i \in Xidents : m_xident'[i] => m_xident[i]
    BY <1>1, <1>21 DEF TypeOK, Quiescent, vars, At, xidentVars, allocVars
  <2>2. \A d \in Callers : Undisturbed(d)
    BY <1>1, <1>21, <1>2
       DEF Undisturbed, TypeOK, CallsOK, AllocPCs, AddPCs, WorkPCs, DestroyPCs, Threads,
           Quiescent, vars, At, xidentVars, allocVars
  <2>3. QED
    BY <1>1, <2>1, <2>2, ProbesFrame
<1>22. QED
  BY <1>3, <1>4, <1>5, <1>6, <1>7, <1>8, <1>9, <1>10, <1>11, <1>12, <1>13, <1>14, <1>15,
     <1>16, <1>17, <1>18, <1>19, <1>20, <1>21
     DEF Next, CallerStep, WorkerStep, Release


-----------------------------------------------------------------------------
(* The theorems.                                                           *)

(* Whether the program removes handlers from outside their callbacks is    *)
(* settled at the start.                                                   *)
LEMMA OutsideSame ==
  ASSUME Next
  PROVE  outside' = outside
BY DEF Next, CallerStep, WorkerStep, Release, Quiescent, vars, restVars, add, remove,
       FetchAndAdd, CompareAndSwap, SetEvent, SetEventFails, AllocFails, Throws, set_handler,
       AddReturns, Dispatch, Callback, reactivate, reset_handler, Drop, Destroy, Free, Dropped,
       wait

(* The kernel is made with every identifier free. *)
LEMMA KqueueInit ==
  ASSUME Init
  PROVE  KqueueInv
<1> USE KqueueAssumption DEF Init
<1>1. 0 \in Xidents /\ 0 \in 0..(Wrap - 1)
  BY DEF Xidents
<1>2. /\ m_xident \in [Xidents -> BOOLEAN] /\ m_xident_index \in 0..(Wrap - 1)
      /\ kq \in [Keys -> Registrations \cup {None}] /\ m_state \in [Xidents -> Handlers \cup {None}]
      /\ xident \in [Handlers -> Xidents \cup {None}]
  BY <1>1
<1>3. /\ added \in [Handlers -> {"no", "adding", "yes", "removed"}] /\ events \subseteq Registrations
      /\ pc \in [Threads -> {"idle", "drop"} \cup AddPCs \cup DestroyPCs \cup WorkPCs]
      /\ x \in [Callers -> Xidents] /\ probes \in [Callers -> Nat]
  BY <1>1
<1>4. /\ freeThroughout \in [Callers -> SUBSET Xidents]
      /\ hold \in [Threads -> SUBSET Handlers] /\ arg \in [Threads -> Handlers \cup {None}]
      /\ ev \in [Workers -> Registrations \cup {None}] /\ later \in [Threads -> Xidents \cup {None}]
      /\ outside \in BOOLEAN
  OBVIOUS
<1>5. TypeOK
  BY <1>2, <1>3, <1>4 DEF TypeOK
<1>6. CallsOK
  BY DEF CallsOK, AddPCs, AllocPCs, WorkPCs, Threads
<1>7. LiveOK /\ XidentOwned
  BY DEF LiveOK, DestroyPCs, XidentOwned
<1>8. TakenOK /\ RegisteredOK
  BY DEF TakenOK, RegisteredOK, Threads
<1>9. OneToken /\ OwnEvent
  BY DEF OneToken, OwnEvent, WorkPCs, Threads
<1>10. ProbesOK
  BY DEF ProbesOK, Threads
<1>11. QED
  BY <1>5, <1>6, <1>7, <1>8, <1>9, <1>10 DEF KqueueInv

(* The inductive invariant holds, for any handlers, identifiers, workers   *)
(* and callers.                                                            *)
THEOREM KqueueCorrect == Spec => []KqueueInv
<1>1. Init => KqueueInv
  BY KqueueInit
<1>2. KqueueInv /\ [Next]_vars => KqueueInv'
  <2>1. ASSUME KqueueInv, Next PROVE KqueueInv'
    <3>1. TypeOK' /\ CallsOK' /\ LiveOK' /\ TakenOK' /\ RegisteredOK' /\ XidentOwned'
      BY <2>1, TypesKept, CallsKept, LiveKept, TakenKept, RegisteredKept, OwnedKept
    <3>2. OneToken' /\ OwnEvent'
      <4>1. CASE ~outside
        BY <2>1, <4>1, TokensKept, OwnEventKept
      <4>2. CASE outside
        BY <2>1, <4>2, OutsideSame DEF OneToken, OwnEvent
      <4>3. QED
        BY <4>1, <4>2
    <3>3. Cardinality(Callers) <= 2 => ProbesOK'
      BY <2>1, ProbesKept
    <3>4. QED
      BY <3>1, <3>2, <3>3 DEF KqueueInv
  <2>2. ASSUME KqueueInv, UNCHANGED vars PROVE KqueueInv'
    <3> USE <2>2 DEF vars, xidentVars, allocVars, handlerVars, restVars, KqueueInv
    <3>1. TypeOK' /\ CallsOK'
      BY DEF TypeOK, CallsOK
    <3>2. LiveOK' /\ TakenOK' /\ RegisteredOK'
      BY DEF LiveOK, TakenOK, RegisteredOK
    <3>3. XidentOwned' /\ OwnEvent'
      BY DEF XidentOwned, OwnEvent
    <3>4. OneToken'
      BY DEF OneToken, Current
    <3>5. Cardinality(Callers) <= 2 => ProbesOK'
      BY DEF ProbesOK, Tries, Distance, Fetched
    <3>6. QED
      BY <3>1, <3>2, <3>3, <3>4, <3>5
  <2>3. QED
    BY <2>1, <2>2
<1>3. QED
  BY <1>1, <1>2, PTL DEF Spec

(* An identifier belongs to one timer or signal until its destructor has   *)
(* returned, and a timer's registration is gone before its identifier is.  *)
THEOREM XidentAlwaysOwned == Spec => []XidentOwned
<1>1. KqueueInv => XidentOwned
  BY DEF KqueueInv
<1>2. QED
  BY <1>1, KqueueCorrect, PTL

(* If handlers end in their own callbacks only, an event is never given to *)
(* a handler that took over the identifier of the one it was asked for.    *)
THEOREM EventAlwaysOwn == Spec => []OwnEvent
<1>1. KqueueInv => OwnEvent
  BY DEF KqueueInv
<1>2. QED
  BY <1>1, KqueueCorrect, PTL

(* With two callers at most, whatever is freed meanwhile, alloc_xident     *)
(* fails with EMFILE only if no identifier was free all through the call:  *)
(* the caller has made 2 * XMAX tries, and by ProbesOK it would have met   *)
(* such an identifier before.                                              *)
THEOREM NeverSpuriousEMFILE == Spec => []NoSpuriousEMFILE
<1>1. ASSUME KqueueInv PROVE NoSpuriousEMFILE
  <2>1. SUFFICES ASSUME Cardinality(Callers) <= 2, NEW c \in Callers, pc[c] = "EMFILE",
                        NEW i \in freeThroughout[c]
                 PROVE  FALSE
    BY <1>1 DEF NoSpuriousEMFILE, KqueueInv, TypeOK
  <2>2. TypeOK /\ ProbesOK
    BY <1>1, <2>1 DEF KqueueInv
  <2>3. XMAX \in Nat /\ Distance(i) \in 0..(XMAX - 1)
    BY <2>1, <2>2, DistanceRange, KqueueAssumption DEF TypeOK
  <2>4. Tries(c) = probes[c] /\ probes[c] \in Nat /\ probes[c] >= 2 * XMAX
    BY <2>1, <2>2 DEF Tries, ProbesOK, TypeOK
  <2>5. ~Fetched(c, i)
    BY <2>1 DEF Fetched
  <2>6. Tries(c) + Distance(i) < 2 * XMAX
    <3>1. \/ Tries(c) + Distance(i) < XMAX
          \/ Tries(c) + Distance(i) < 2 * XMAX
      BY <2>1, <2>2, <2>5 DEF ProbesOK
    <3>2. QED
      BY <2>3, <2>4, <3>1
  <2>7. QED
    BY <2>3, <2>4, <2>6
<1>2. QED
  BY <1>1, KqueueCorrect, PTL

=============================================================================
