--------------------------- MODULE WavyConnProofs ---------------------------
(***************************************************************************)
(* Connections that come and go, for any number of connections, numbers,   *)
(* workers and callers: ConnInv (WavyConn) is an inductive invariant.      *)
(* Unless bytes are written without a finalizer that holds their handler,  *)
(* they reach the connection they were written for, and what is queued     *)
(* under a number belongs to the connection that has it.  A handler stays  *)
(* registered until it is removed, unless that is done from outside.       *)
(***************************************************************************)
EXTENDS WavyConn, SequenceTheorems, TLAPS

-----------------------------------------------------------------------------
(* Writes.                                                                 *)

(* Nothing is left of a write. *)
LEMMA WriteEmpty ==
  ASSUME NEW c
  PROVE  IsWrite(<<>>, c)
BY DEF IsWrite

(* What is written is a sequence of elements. *)
LEMMA RequestType ==
  ASSUME NEW c \in Conns, NEW held \in BOOLEAN
  PROVE  Request(c, held) \in Seq(Element) /\ <<Data(c)>> \in Seq(Element) /\ Data(c).conn = c
<1>1. Data(c) \in Element /\ Fin(c) \in Element /\ Data(c).conn = c
  BY DEF Data, Fin, Element
<1>2. CASE held
  BY <1>1, <1>2 DEF Request
<1>3. CASE ~held
  BY <1>1, <1>3 DEF Request
<1>4. QED
  BY <1>1, <1>2, <1>3

(* What commit makes of a request that holds its handler. *)
LEMMA WriteRequest ==
  ASSUME NEW c \in Conns
  PROVE  /\ Request(c, TRUE) \in Seq(Element) /\ Request(c, TRUE) # <<>>
         /\ IsWrite(Request(c, TRUE), c)
<1>1. Data(c) \in Element /\ Fin(c) \in Element
  BY DEF Data, Fin, Element
<1>2. PICK r : r = Request(c, TRUE)
  OBVIOUS
<1>3. r \in Seq(Element) /\ Len(r) = 3 /\ r[1] = Data(c) /\ r[2] = Data(c) /\ r[3] = Fin(c)
  BY <1>1, <1>2 DEF Request
<1>4. Data(c).conn = c /\ Fin(c).conn = c /\ Fin(c).type = "finalize" /\ c # None
  BY ConnAssumption DEF Data, Fin
<1>5. (\A i \in 1..Len(r) : r[i].conn = c) /\ r # <<>>
  BY <1>3, <1>4
<1>6. QED
  BY <1>2, <1>3, <1>4, <1>5 DEF IsWrite

(* The head of a write is done. *)
LEMMA WriteTail ==
  ASSUME NEW q \in Seq(Element), NEW c, IsWrite(q, c), q # <<>>
  PROVE  Tail(q) \in Seq(Element) /\ IsWrite(Tail(q), c) /\ Head(q).conn = c /\ Head(q) \in Element
<1>1. /\ Len(q) \in Nat \ {0} /\ Tail(q) \in Seq(Element) /\ Len(Tail(q)) = Len(q) - 1
      /\ \A i \in 1..(Len(q) - 1) : Tail(q)[i] = q[i + 1]
  OBVIOUS
<1>2. \A i \in 1..Len(Tail(q)) : Tail(q)[i].conn = c
  BY <1>1 DEF IsWrite
<1>3. Head(q) = q[1] /\ q[1].conn = c /\ q[1] \in Element
  BY <1>1 DEF IsWrite
<1>4. Tail(q) # <<>> => c # None /\ Tail(q)[Len(Tail(q))].type = "finalize"
  <2>1. Tail(q) # <<>> => Len(Tail(q)) \in 1..(Len(q) - 1) /\ Len(Tail(q)) + 1 = Len(q)
    BY <1>1
  <2>2. QED
    BY <1>1, <2>1 DEF IsWrite
<1>5. QED
  BY <1>1, <1>2, <1>3, <1>4 DEF IsWrite

(* A write is appended to what is queued for the same connection. *)
LEMMA WriteAppend ==
  ASSUME NEW q \in Seq(Element), NEW c \in Conns, IsWrite(q, c)
  PROVE  /\ q \o Request(c, TRUE) \in Seq(Element) /\ q \o Request(c, TRUE) # <<>>
         /\ IsWrite(q \o Request(c, TRUE), c)
<1>1. PICK r \in Seq(Element) : r = Request(c, TRUE) /\ r # <<>> /\ IsWrite(r, c)
  BY WriteRequest
<1>2. r \in Seq(Element) /\ r # <<>> /\ IsWrite(r, c)
  BY <1>1
<1>3. /\ q \o r \in Seq(Element) /\ Len(q \o r) = Len(q) + Len(r)
      /\ \A i \in 1..Len(q) : (q \o r)[i] = q[i]
      /\ \A i \in 1..Len(r) : (q \o r)[Len(q) + i] = r[i]
      /\ Len(q) \in Nat /\ Len(r) \in Nat /\ Len(r) > 0
  BY <1>2
<1>4. ASSUME NEW i \in 1..Len(q \o r) PROVE (q \o r)[i].conn = c
  <2>1. CASE i \in 1..Len(q)
    BY <1>3, <2>1 DEF IsWrite
  <2>2. CASE i \notin 1..Len(q)
    <3>1. PICK j \in 1..Len(r) : i = Len(q) + j
      <4>1. i - Len(q) \in 1..Len(r) /\ i = Len(q) + (i - Len(q))
        BY <1>3, <2>2
      <4>2. QED
        BY <4>1
    <3>2. QED
      BY <1>2, <1>3, <3>1 DEF IsWrite
  <2>3. QED
    BY <2>1, <2>2
<1>5. (q \o r)[Len(q \o r)].type = "finalize" /\ c # None
  <2>1. Len(r) \in 1..Len(r) /\ r[Len(r)].type = "finalize"
    BY <1>2, <1>3 DEF IsWrite
  <2>2. QED
    BY <1>3, <2>1, ConnAssumption
<1>6. q \o r # <<>>
  BY <1>3
<1>7. QED
  BY <1>1, <1>3, <1>4, <1>5, <1>6 DEF IsWrite

(* What is left of a write holds its connection. *)
LEMMA WriteHolds ==
  ASSUME NEW q \in Seq(Element), NEW c, IsWrite(q, c), q # <<>>
  PROVE  c \in FinsIn(q) /\ c # None
<1>1. Len(q) \in 1..Len(q) /\ q[Len(q)].conn = c /\ q[Len(q)].type = "finalize"
  BY DEF IsWrite
<1>2. QED
  BY <1>1 DEF FinsIn, IsWrite

-----------------------------------------------------------------------------
(* ~handler.                                                               *)

(* A number after a step that drops references: as before, or closed,      *)
(* when neither m_state, nor a thread, nor its queue holds it.             *)
Open(n) ==
  file'[n] = file[n] /\ m_kernel'[n] = m_kernel[n] /\ out_kernel'[n] = out_kernel[n]
Closed(n) ==
  /\ file'[n] = None /\ m_kernel'[n] = "none" /\ out_kernel'[n] = "none" /\ file[n] # None
  /\ m_state'[n] # file[n] /\ \A t \in Threads : h'[t] # file[n]
  /\ file[n] \notin FinsIn(m_fdctx'[n])
Referred == \A n \in Fds : Open(n) \/ Closed(n)

(* What m_state, a queue and a thread hold is held. *)
LEMMA HeldParts ==
  ASSUME NEW state, NEW hold, NEW queue, NEW buf
  PROVE  /\ \A n \in Fds : state[n] \in Held(state, hold, queue, buf)
         /\ \A n \in Fds : FinsIn(queue[n]) \subseteq Held(state, hold, queue, buf)
         /\ \A t \in Threads : hold[t] \in Held(state, hold, queue, buf)
<1>1. PICK A : A = UNION {{state[n]} \cup FinsIn(queue[n]) : n \in Fds}
  OBVIOUS
<1>2. PICK B : B = UNION {{hold[t]} \cup FinsIn(buf[t]) : t \in Threads}
  OBVIOUS
<1>3. Held(state, hold, queue, buf) = A \cup B
  BY <1>1, <1>2 DEF Held
<1>4. \A n \in Fds : {state[n]} \cup FinsIn(queue[n]) \subseteq A
  BY <1>1, Zenon
<1>5. \A t \in Threads : {hold[t]} \cup FinsIn(buf[t]) \subseteq B
  BY <1>2, Zenon
<1>6. QED
  BY <1>3, <1>4, <1>5

(* What Refer does. *)
LEMMA ReferFacts ==
  ASSUME TypeOK, NEW state, NEW hold, NEW queue, NEW buf, Refer(state, hold, queue, buf)
  PROVE  /\ m_state' = state /\ h' = hold /\ m_fdctx' = queue /\ xfbuf' = buf /\ Referred
         /\ file' \in [Fds -> Conns \cup {None}] /\ m_kernel' \in [Fds -> Interest]
         /\ out_kernel' \in [Fds -> Interest]
<1>1. m_state' = state /\ h' = hold /\ m_fdctx' = queue /\ xfbuf' = buf
  BY DEF Refer
<1>2. PICK closed : /\ closed = {n \in Fds : /\ file[n] # None
                                             /\ file[n] \notin Held(state, hold, queue, buf) \cup leaked'}
                    /\ file' = [n \in Fds |-> IF n \in closed THEN None ELSE file[n]]
                    /\ m_kernel' = [n \in Fds |-> IF n \in closed THEN "none" ELSE m_kernel[n]]
                    /\ out_kernel' = [n \in Fds |-> IF n \in closed THEN "none" ELSE out_kernel[n]]
  BY DEF Refer
<1>3. ASSUME NEW n \in Fds, n \notin closed PROVE Open(n)
  BY <1>2, <1>3 DEF Open
<1>4. ASSUME NEW n \in Fds, n \in closed PROVE Closed(n)
  <2>1. file[n] # None /\ file[n] \notin Held(m_state', h', m_fdctx', xfbuf')
    BY <1>1, <1>2, <1>4
  <2>2. /\ m_state'[n] # file[n] /\ \A t \in Threads : h'[t] # file[n]
        /\ file[n] \notin FinsIn(m_fdctx'[n])
    BY <2>1, HeldParts
  <2>3. QED
    BY <1>2, <1>4, <2>1, <2>2 DEF Closed
<1>5. /\ file' \in [Fds -> Conns \cup {None}] /\ m_kernel' \in [Fds -> Interest]
      /\ out_kernel' \in [Fds -> Interest]
  BY <1>2 DEF TypeOK, Interest
<1>6. QED
  BY <1>1, <1>3, <1>4, <1>5 DEF Referred

(* A number whose queue is not empty is not closed. *)
LEMMA QueuedOpen ==
  ASSUME NEW n \in Fds, Closed(n), m_fdctx'[n] \in Seq(Element), IsWrite(m_fdctx'[n], file[n])
  PROVE  m_fdctx'[n] = <<>>
BY WriteHolds DEF Closed

-----------------------------------------------------------------------------
(* Types and calls.                                                        *)

(* The types of what the references are kept in, after a step that drops   *)
(* some.                                                                   *)
LEMMA ReferTypes ==
  ASSUME TypeOK, NEW state \in [Fds -> Conns \cup {None}],
         NEW hold \in [Threads -> Conns \cup {None}],
         NEW queue \in [Fds -> Seq(Element)], NEW buf \in [Threads -> Seq(Element)],
         Refer(state, hold, queue, buf)
  PROVE  /\ file' \in [Fds -> Conns \cup {None}] /\ m_state' \in [Fds -> Conns \cup {None}]
         /\ m_kernel' \in [Fds -> Interest] /\ out_kernel' \in [Fds -> Interest]
         /\ m_fdctx' \in [Fds -> Seq(Element)] /\ xfbuf' \in [Threads -> Seq(Element)]
         /\ h' \in [Threads -> Conns \cup {None}]
BY ReferFacts

(* epoll keeps its list. *)
LEMMA KernelTypes ==
  ASSUME NEW k \in [Fds -> Interest], NEW n \in Fds
  PROVE  /\ add_fd(k, n) \in [Fds -> Interest] /\ remove(k, n) \in [Fds -> Interest]
         /\ reactivate(k, n) \in [Fds -> Interest] /\ wait(k, <<n>>) \in [Fds -> Interest]
         /\ wait(k, <<n>>) = [m \in Fds |-> IF m = n THEN "fired" ELSE k[m]]
<1>1. /\ add_fd(k, n) \in [Fds -> Interest] /\ remove(k, n) \in [Fds -> Interest]
      /\ reactivate(k, n) \in [Fds -> Interest]
  BY DEF add_fd, remove, reactivate, Interest
<1>2. wait(k, <<n>>) = [m \in Fds |-> IF m = n THEN "fired" ELSE k[m]]
  <2>1. DOMAIN <<n>> = {1} /\ <<n>>[1] = n
    OBVIOUS
  <2>2. \A m : (\E i \in DOMAIN <<n>> : <<n>>[i] = m) <=> m = n
    BY <2>1
  <2>3. QED
    BY <2>2 DEF wait
<1>3. QED
  BY <1>1, <1>2 DEF Interest

(* Finalizers hold connections. *)
LEMMA FinsType ==
  ASSUME NEW q \in Seq(Element)
  PROVE  FinsIn(q) \subseteq Conns
<1>1. \A i \in 1..Len(q) : q[i] \in Element
  OBVIOUS
<1>2. \A e \in Element : e.conn \in Conns
  BY DEF Element
<1>3. QED
  BY <1>1, <1>2 DEF FinsIn

(* The sockets after a write and after shutdown. *)
LEMMA SockTypes ==
  ASSUME TypeOK, NEW n \in Fds, NEW q \in Seq(Element), Advances(n, q) \/ Shutdown(n)
  PROVE  /\ ready' \in [Conns -> BOOLEAN] /\ full' \in [Conns -> BOOLEAN]
         /\ broken' \in [Conns -> BOOLEAN] /\ got' \in [Conns -> SUBSET Conns]
<1>1. CASE Shutdown(n)
  BY <1>1 DEF Shutdown, TypeOK
<1>2. CASE q # <<>> /\ Takes(n, Head(q))
  <2>1. Head(q).conn \in Conns /\ file[n] \in Conns
    <3>1. Head(q) \in Element
      BY <1>2
    <3>2. QED
      BY <1>2, <3>1 DEF Takes, TypeOK, Element
  <2>2. got[file[n]] \cup {Head(q).conn} \in SUBSET Conns
    BY <2>1 DEF TypeOK
  <2>3. got' \in [Conns -> SUBSET Conns]
    BY <1>2, <2>1, <2>2 DEF Takes, TypeOK
  <2>4. /\ ready' \in [Conns -> BOOLEAN] /\ full' \in [Conns -> BOOLEAN]
        /\ broken' \in [Conns -> BOOLEAN]
    BY <1>2, <2>1 DEF Takes, TypeOK
  <2>5. QED
    BY <2>3, <2>4
<1>3. CASE UNCHANGED sockVars
  BY <1>3 DEF sockVars, TypeOK
<1>4. QED
  BY <1>1, <1>2, <1>3 DEF Advances

(* What the write of bytes alone does: it may queue what the socket did    *)
(* not take, and then holds the mutex until the number is watched.         *)
LEMMA WriteFacts ==
  ASSUME TypeOK, CallsOK, NEW t \in Threads, write(t)
  PROVE  /\ TypeOK' /\ bare' = TRUE /\ ident[t] \in Fds /\ owner[ident[t]] = None
         /\ UNCHANGED <<file, m_state, h, xfbuf, m_kernel, out_kernel, events, ident, conn, outside>>
         /\ pc[t] \in {"callback", "using"}
         /\ \/ UNCHANGED <<owner, pc>>
            \/ owner' = [owner EXCEPT ![ident[t]] = t] /\ pc' = [pc EXCEPT ![t] = "watch"]
<1> USE ConnAssumption DEF eventVars, sockVars, countVars, At
<1>1. /\ ident[t] \in Fds /\ h[t] \in Conns /\ m_fdctx[ident[t]] \in Seq(Element)
      /\ owner[ident[t]] = None /\ pc[t] \in {"callback", "using"}
  BY DEF write, TypeOK, CallsOK
<1>2. /\ UNCHANGED <<file, m_state, h, xfbuf, m_kernel, out_kernel, events, out_queue, ident, conn,
                     leaked, outside>>
      /\ bare' = TRUE /\ work' = work + 2
  BY DEF write, Spend
<1>3. PICK r1 \in Seq(Element), r2 \in Seq(Element) : r1 = Request(h[t], FALSE) /\ r2 = <<Data(h[t])>>
  BY <1>1, RequestType
<1>4. \/ UNCHANGED <<owner, pc>>
      \/ owner' = [owner EXCEPT ![ident[t]] = t] /\ pc' = [pc EXCEPT ![t] = "watch"]
  BY DEF write
<1>5. \/ UNCHANGED m_fdctx
      \/ m_fdctx' = [m_fdctx EXCEPT ![ident[t]] = @ \o r1]
      \/ m_fdctx' = [m_fdctx EXCEPT ![ident[t]] = @ \o r2]
  BY <1>3 DEF write
<1>6. m_fdctx[ident[t]] \o r1 \in Seq(Element) /\ m_fdctx[ident[t]] \o r2 \in Seq(Element)
  BY <1>1
<1>7. m_fdctx' \in [Fds -> Seq(Element)]
  BY <1>1, <1>5, <1>6 DEF TypeOK
<1>8. /\ ready' \in [Conns -> BOOLEAN] /\ full' \in [Conns -> BOOLEAN]
      /\ broken' \in [Conns -> BOOLEAN] /\ got' \in [Conns -> SUBSET Conns]
  <2>1. CASE UNCHANGED sockVars
    BY <2>1 DEF TypeOK
  <2>2. CASE Shutdown(ident[t])
    BY <2>2 DEF Shutdown, TypeOK
  <2>3. CASE Takes(ident[t], Data(h[t]))
    <3>1. Data(h[t]).conn = h[t] /\ file[ident[t]] \in Conns
      BY <1>1, <2>3, RequestType DEF Takes, TypeOK
    <3>2. got[file[ident[t]]] \cup {h[t]} \in SUBSET Conns
      BY <1>1, <3>1 DEF TypeOK
    <3>3. got' = [got EXCEPT ![file[ident[t]]] = @ \cup {h[t]}]
      BY <2>3, <3>1 DEF Takes
    <3>4. got' \in [Conns -> SUBSET Conns]
      BY <3>1, <3>2, <3>3 DEF TypeOK
    <3>5. QED
      BY <2>3, <3>1, <3>4 DEF Takes, TypeOK
  <2>4. QED
    BY <2>1, <2>2, <2>3 DEF write
<1>9. owner' \in [Fds -> Threads \cup {None}] /\ pc' \in [Threads -> CallerPCs \cup WorkerPCs]
  <2>1. pc \in [Threads -> CallerPCs \cup WorkerPCs] /\ owner \in [Fds -> Threads \cup {None}]
    BY DEF TypeOK
  <2>2. QED
    BY <1>1, <1>4, <2>1 DEF CallerPCs
<1>10. TypeOK'
  BY <1>2, <1>7, <1>8, <1>9 DEF TypeOK
<1>11. QED
  BY <1>1, <1>2, <1>4, <1>10

(* Nothing was written bare before, if it was not after. *)
LEMMA BareStays ==
  ASSUME Next, bare \in BOOLEAN, ~bare'
  PROVE  ~bare
BY DEF Next, CallerStep, WorkerStep, WriteStep, Accept, add_handler, remove_handler, RemoveFd, Drop,
       commit, write, Execute, ExecuteDone, ExecuteBlocks, ExecuteFails, watch, ReportOut, write_event,
       TryWrite, TryWriteReturns, OutReactivate, OutRemove, clear, Report, Dispatch, CallbackReturns,
       Reactivate, Remove, reset_handler, Arrive, Drain, PeerReset, Quiescent, countVars, vars

(* Every step keeps the types. *)
LEMMA TypesKept ==
  ASSUME ConnInv, Next
  PROVE  TypeOK'
<1> USE ConnAssumption
        DEF fileVars, eventVars, sockVars, countVars, Threads, At, HandlerPCs, OutPCs, AddPCs,
            LockedPCs, CallerPCs, WorkerPCs, TypeOK, CallsOK
<1>1. TypeOK /\ CallsOK
  BY DEF ConnInv
<1>2. ASSUME NEW t \in Callers, NEW c \in Conns, Accept(t, c) PROVE TypeOK'
  BY <1>2, <1>1 DEF Accept
<1>3. ASSUME NEW t \in Callers, add_handler(t) PROVE TypeOK'
  <2>1. ident[t] \in Fds /\ h[t] \in Conns /\ t \in Threads
    BY <1>1, <1>3 DEF add_handler
  <2>2. CASE pc[t] = "set_handler"
    <3>1. PICK state : state = [m_state EXCEPT ![ident[t]] = h[t]]
      OBVIOUS
    <3>2. state \in [Fds -> Conns \cup {None}]
      BY <1>1, <2>1, <3>1
    <3>3. Refer(state, h, m_fdctx, xfbuf)
      BY <1>1, <1>3, <2>2, <3>1 DEF add_handler
    <3>4. /\ file' \in [Fds -> Conns \cup {None}] /\ m_state' \in [Fds -> Conns \cup {None}]
          /\ m_kernel' \in [Fds -> Interest] /\ out_kernel' \in [Fds -> Interest]
          /\ m_fdctx' \in [Fds -> Seq(Element)] /\ xfbuf' \in [Threads -> Seq(Element)]
          /\ h' \in [Threads -> Conns \cup {None}]
      BY <1>1, <3>2, <3>3, ReferTypes
    <3>5. QED
      BY <1>1, <1>3, <2>2, <3>4 DEF add_handler
  <2>3. CASE pc[t] = "add_fd"
    <3>1. m_kernel' = add_fd(m_kernel, ident[t])
      BY <1>3, <2>3 DEF add_handler
    <3>2. m_kernel' \in [Fds -> Interest]
      BY <1>1, <2>1, <3>1, KernelTypes
    <3>3. QED
      BY <1>1, <1>3, <2>3, <3>2 DEF add_handler
  <2>4. QED
    BY <1>1, <1>3, <2>2, <2>3 DEF add_handler
<1>4. ASSUME NEW t \in Callers, RemoveFd(t) PROVE TypeOK'
  <2>1. ident[t] \in Fds
    BY <1>1, <1>4 DEF RemoveFd
  <2>2. m_kernel' \in [Fds -> Interest]
    BY <1>1, <1>4, <2>1, KernelTypes DEF RemoveFd
  <2>3. QED
    BY <1>1, <1>4, <2>1, <2>2 DEF RemoveFd
<1>5. ASSUME NEW t \in Callers, remove_handler(t) PROVE TypeOK'
  <2>1. t \in Threads /\ ident[t] \in Fds
    BY <1>1, <1>5 DEF remove_handler
  <2>2. PICK state, hold : state = [m_state EXCEPT ![ident[t]] = None] /\ hold = h
    OBVIOUS
  <2>3. state \in [Fds -> Conns \cup {None}] /\ hold \in [Threads -> Conns \cup {None}]
    BY <1>1, <2>1, <2>2
  <2>4. Refer(state, hold, m_fdctx, xfbuf)
    BY <1>1, <1>5, <2>2 DEF remove_handler
  <2>5. /\ file' \in [Fds -> Conns \cup {None}] /\ m_state' \in [Fds -> Conns \cup {None}]
        /\ m_kernel' \in [Fds -> Interest] /\ out_kernel' \in [Fds -> Interest]
        /\ m_fdctx' \in [Fds -> Seq(Element)] /\ xfbuf' \in [Threads -> Seq(Element)]
        /\ h' \in [Threads -> Conns \cup {None}]
    BY <1>1, <2>3, <2>4, ReferTypes
  <2>6. QED
    BY <1>1, <1>5, <2>1, <2>5 DEF remove_handler
<1>6. ASSUME NEW t \in Threads, Drop(t) PROVE TypeOK'
  <2>1. t \in Threads /\ ident[t] \in Fds
    BY <1>1, <1>6 DEF Drop
  <2>2. PICK state, hold : state = m_state /\ hold = [h EXCEPT ![t] = None]
    OBVIOUS
  <2>3. state \in [Fds -> Conns \cup {None}] /\ hold \in [Threads -> Conns \cup {None}]
    BY <1>1, <2>1, <2>2
  <2>4. Refer(state, hold, m_fdctx, xfbuf)
    BY <1>1, <1>6, <2>2 DEF Drop
  <2>5. /\ file' \in [Fds -> Conns \cup {None}] /\ m_state' \in [Fds -> Conns \cup {None}]
        /\ m_kernel' \in [Fds -> Interest] /\ out_kernel' \in [Fds -> Interest]
        /\ m_fdctx' \in [Fds -> Seq(Element)] /\ xfbuf' \in [Threads -> Seq(Element)]
        /\ h' \in [Threads -> Conns \cup {None}]
    BY <1>1, <2>3, <2>4, ReferTypes
  <2>6. QED
    BY <1>1, <1>6, <2>1, <2>5 DEF Drop
<1>7. ASSUME NEW t \in Threads, Execute(t) PROVE TypeOK'
  <2>1. ident[t] \in Fds /\ xfbuf[t] \in Seq(Element) /\ xfbuf[t] # <<>>
    BY <1>1, <1>7 DEF Execute, Advances
  <2>2. Tail(xfbuf[t]) \in Seq(Element)
    BY <1>1, <2>1
  <2>3. PICK state, hold, queue, buf :
          /\ state = m_state /\ hold = h
          /\ queue = m_fdctx /\ buf = [xfbuf EXCEPT ![t] = Tail(@)]
    OBVIOUS
  <2>4. /\ state \in [Fds -> Conns \cup {None}] /\ hold \in [Threads -> Conns \cup {None}]
        /\ queue \in [Fds -> Seq(Element)] /\ buf \in [Threads -> Seq(Element)]
    BY <1>1, <2>1, <2>2, <2>3
  <2>5. Refer(state, hold, queue, buf)
    BY <1>1, <1>7, <2>3 DEF Execute
  <2>6. /\ file' \in [Fds -> Conns \cup {None}] /\ m_state' \in [Fds -> Conns \cup {None}]
        /\ m_kernel' \in [Fds -> Interest] /\ out_kernel' \in [Fds -> Interest]
        /\ m_fdctx' \in [Fds -> Seq(Element)] /\ xfbuf' \in [Threads -> Seq(Element)]
        /\ h' \in [Threads -> Conns \cup {None}]
    BY <1>1, <2>4, <2>5, ReferTypes
  <2>7. /\ ready' \in [Conns -> BOOLEAN] /\ full' \in [Conns -> BOOLEAN]
        /\ broken' \in [Conns -> BOOLEAN] /\ got' \in [Conns -> SUBSET Conns]
    BY <1>1, <1>7, <2>1, SockTypes DEF Execute
  <2>8. QED
    BY <1>1, <1>7, <2>6, <2>7 DEF Execute
<1>8. ASSUME NEW t \in Threads, ExecuteDone(t) PROVE TypeOK'
  BY <1>8, <1>1 DEF ExecuteDone, Back
<1>9. ASSUME NEW t \in Threads, ExecuteBlocks(t) PROVE TypeOK'
  <2>1. ident[t] \in Fds /\ xfbuf[t] \in Seq(Element) /\ <<>> \in Seq(Element)
    BY <1>1, <1>9 DEF ExecuteBlocks
  <2>2. m_fdctx' \in [Fds -> Seq(Element)] /\ xfbuf' \in [Threads -> Seq(Element)]
    BY <1>1, <1>9, <2>1 DEF ExecuteBlocks
  <2>3. QED
    BY <1>1, <1>9, <2>2 DEF ExecuteBlocks
<1>10. ASSUME NEW t \in Threads, ExecuteFails(t) PROVE TypeOK'
  <2>1. t \in Threads /\ ident[t] \in Fds /\ <<>> \in Seq(Element) /\ xfbuf[t] \in Seq(Element)
    BY <1>1, <1>10 DEF ExecuteFails
  <2>2. PICK buf : buf = [xfbuf EXCEPT ![t] = <<>>]
    OBVIOUS
  <2>3. buf \in [Threads -> Seq(Element)]
    BY <1>1, <2>1, <2>2
  <2>4. Refer(m_state, h, m_fdctx, buf)
    BY <1>1, <1>10, <2>2 DEF ExecuteFails
  <2>5. /\ file' \in [Fds -> Conns \cup {None}] /\ m_state' \in [Fds -> Conns \cup {None}]
        /\ m_kernel' \in [Fds -> Interest] /\ out_kernel' \in [Fds -> Interest]
        /\ m_fdctx' \in [Fds -> Seq(Element)] /\ xfbuf' \in [Threads -> Seq(Element)]
        /\ h' \in [Threads -> Conns \cup {None}]
    BY <1>1, <2>3, <2>4, ReferTypes
  <2>6. /\ ready' \in [Conns -> BOOLEAN] /\ full' \in [Conns -> BOOLEAN]
        /\ broken' \in [Conns -> BOOLEAN] /\ got' \in [Conns -> SUBSET Conns]
    BY <1>1, <1>10, <2>1, SockTypes DEF ExecuteFails
  <2>7. leaked' \subseteq Conns
    <3>1. FinsIn(xfbuf[t]) \subseteq Conns
      BY <2>1, FinsType
    <3>2. QED
      BY <1>1, <1>10, <3>1 DEF ExecuteFails
  <2>8. owner' \in [Fds -> Threads \cup {None}] /\ pc' \in [Threads -> CallerPCs \cup WorkerPCs]
    BY <1>1, <1>10, <2>1 DEF ExecuteFails, Back
  <2>9. QED
    BY <1>1, <1>10, <2>5, <2>6, <2>7, <2>8 DEF ExecuteFails
<1>11. ASSUME NEW t \in Threads, watch(t) PROVE TypeOK'
  <2>1. ident[t] \in Fds
    BY <1>1, <1>11 DEF watch
  <2>2. out_kernel' \in [Fds -> Interest]
    BY <1>1, <1>11, <2>1, KernelTypes DEF watch
  <2>3. QED
    BY <1>1, <1>11, <2>1, <2>2 DEF watch, Back
<1>12. ASSUME NEW t \in Threads, NEW held \in BOOLEAN, commit(t, held) PROVE TypeOK'
  <2>1. ident[t] \in Fds /\ h[t] \in Conns /\ m_fdctx[ident[t]] \in Seq(Element)
    BY <1>1, <1>12 DEF commit
  <2>2. PICK r \in Seq(Element) : r = Request(h[t], held)
    BY <2>1, RequestType
  <2>3. m_fdctx[ident[t]] \o r \in Seq(Element)
    BY <1>1, <2>1
  <2>4. CASE m_fdctx[ident[t]] # <<>>
    <3>1. /\ m_fdctx' = [m_fdctx EXCEPT ![ident[t]] = m_fdctx[ident[t]] \o r]
          /\ UNCHANGED <<xfbuf, owner, pc>>
      BY <1>12, <2>2, <2>4 DEF commit
    <3>2. m_fdctx' \in [Fds -> Seq(Element)]
      BY <1>1, <2>1, <2>3, <3>1
    <3>3. work' \in Nat /\ outside' = outside /\ bare' \in BOOLEAN
      BY <1>1, <1>12 DEF commit, Spend
    <3>4. UNCHANGED <<file, m_state, h, m_kernel, out_kernel, eventVars, ident, conn, sockVars,
                      leaked>>
      BY <1>12 DEF commit
    <3>5. QED
      BY <1>1, <3>1, <3>2, <3>3, <3>4
  <2>5. CASE m_fdctx[ident[t]] = <<>>
    <3>1. /\ xfbuf' = [xfbuf EXCEPT ![t] = r] /\ UNCHANGED m_fdctx
          /\ owner' = [owner EXCEPT ![ident[t]] = t] /\ pc' = [pc EXCEPT ![t] = "execute"]
      BY <1>12, <2>2, <2>5 DEF commit
    <3>2. /\ xfbuf' \in [Threads -> Seq(Element)] /\ owner' \in [Fds -> Threads \cup {None}]
          /\ pc' \in [Threads -> CallerPCs \cup WorkerPCs]
      BY <1>1, <2>1, <2>2, <3>1
    <3>3. work' \in Nat /\ outside' = outside /\ bare' \in BOOLEAN
      BY <1>1, <1>12 DEF commit, Spend
    <3>4. UNCHANGED <<file, m_state, h, m_kernel, out_kernel, eventVars, ident, conn, sockVars,
                      leaked>>
      BY <1>12 DEF commit
    <3>5. QED
      BY <1>1, <3>1, <3>2, <3>3, <3>4
  <2>6. QED
    BY <2>4, <2>5
<1>13. ASSUME NEW w \in Workers, Dispatch(w) PROVE TypeOK'
  BY <1>13, <1>1 DEF Dispatch
<1>14. ASSUME NEW w \in Workers, CallbackReturns(w) PROVE TypeOK'
  <2>1. h[w] \in Conns /\ w \in Threads
    BY <1>1, <1>14 DEF CallbackReturns
  <2>2. conn' \in [Conns -> {"new", "up", "removed"}]
    BY <1>1, <1>14, <2>1 DEF CallbackReturns
  <2>3. pc' \in [Threads -> CallerPCs \cup WorkerPCs]
    BY <1>1, <1>14, <2>1 DEF CallbackReturns
  <2>4. QED
    BY <1>1, <1>14, <2>2, <2>3 DEF CallbackReturns
<1>15. ASSUME NEW w \in Workers, Reactivate(w) PROVE TypeOK'
  <2>1. ident[w] \in Fds
    BY <1>1, <1>15 DEF Reactivate
  <2>2. m_kernel' \in [Fds -> Interest]
    BY <1>1, <1>15, <2>1, KernelTypes DEF Reactivate
  <2>3. QED
    BY <1>1, <1>15, <2>1, <2>2 DEF Reactivate
<1>16. ASSUME NEW w \in Workers, Remove(w) PROVE TypeOK'
  <2>1. ident[w] \in Fds
    BY <1>1, <1>16 DEF Remove
  <2>2. m_kernel' \in [Fds -> Interest]
    BY <1>1, <1>16, <2>1, KernelTypes DEF Remove
  <2>3. QED
    BY <1>1, <1>16, <2>1, <2>2 DEF Remove
<1>17. ASSUME NEW w \in Workers, reset_handler(w) PROVE TypeOK'
  <2>1. w \in Threads /\ ident[w] \in Fds
    BY <1>1, <1>17 DEF reset_handler
  <2>2. PICK state, hold : state = [m_state EXCEPT ![ident[w]] = None] /\ hold = h
    OBVIOUS
  <2>3. state \in [Fds -> Conns \cup {None}] /\ hold \in [Threads -> Conns \cup {None}]
    BY <1>1, <2>1, <2>2
  <2>4. Refer(state, hold, m_fdctx, xfbuf)
    BY <1>1, <1>17, <2>2 DEF reset_handler
  <2>5. /\ file' \in [Fds -> Conns \cup {None}] /\ m_state' \in [Fds -> Conns \cup {None}]
        /\ m_kernel' \in [Fds -> Interest] /\ out_kernel' \in [Fds -> Interest]
        /\ m_fdctx' \in [Fds -> Seq(Element)] /\ xfbuf' \in [Threads -> Seq(Element)]
        /\ h' \in [Threads -> Conns \cup {None}]
    BY <1>1, <2>3, <2>4, ReferTypes
  <2>6. QED
    BY <1>1, <1>17, <2>1, <2>5 DEF reset_handler
<1>18. ASSUME NEW w \in Workers, write_event(w) PROVE TypeOK'
  BY <1>18, <1>1 DEF write_event
<1>19. ASSUME NEW w \in Workers, TryWrite(w) PROVE TypeOK'
  <2>1. ident[w] \in Fds /\ m_fdctx[ident[w]] \in Seq(Element) /\ m_fdctx[ident[w]] # <<>>
    BY <1>1, <1>19 DEF TryWrite, Advances
  <2>2. Tail(m_fdctx[ident[w]]) \in Seq(Element)
    BY <1>1, <2>1
  <2>3. PICK state, hold, queue, buf :
          /\ state = m_state /\ hold = h
          /\ queue = [m_fdctx EXCEPT ![ident[w]] = Tail(@)] /\ buf = xfbuf
    OBVIOUS
  <2>4. /\ state \in [Fds -> Conns \cup {None}] /\ hold \in [Threads -> Conns \cup {None}]
        /\ queue \in [Fds -> Seq(Element)] /\ buf \in [Threads -> Seq(Element)]
    BY <1>1, <2>1, <2>2, <2>3
  <2>5. Refer(state, hold, queue, buf)
    BY <1>1, <1>19, <2>3 DEF TryWrite
  <2>6. /\ file' \in [Fds -> Conns \cup {None}] /\ m_state' \in [Fds -> Conns \cup {None}]
        /\ m_kernel' \in [Fds -> Interest] /\ out_kernel' \in [Fds -> Interest]
        /\ m_fdctx' \in [Fds -> Seq(Element)] /\ xfbuf' \in [Threads -> Seq(Element)]
        /\ h' \in [Threads -> Conns \cup {None}]
    BY <1>1, <2>4, <2>5, ReferTypes
  <2>7. /\ ready' \in [Conns -> BOOLEAN] /\ full' \in [Conns -> BOOLEAN]
        /\ broken' \in [Conns -> BOOLEAN] /\ got' \in [Conns -> SUBSET Conns]
    BY <1>1, <1>19, <2>1, SockTypes DEF TryWrite
  <2>8. QED
    BY <1>1, <1>19, <2>6, <2>7 DEF TryWrite
<1>20. ASSUME NEW w \in Workers, TryWriteReturns(w) PROVE TypeOK'
  <2>1. ident[w] \in Fds /\ m_fdctx[ident[w]] \in Seq(Element)
    BY <1>1, <1>20 DEF TryWriteReturns
  <2>2. /\ ready' \in [Conns -> BOOLEAN] /\ full' \in [Conns -> BOOLEAN]
        /\ broken' \in [Conns -> BOOLEAN] /\ got' \in [Conns -> SUBSET Conns]
    BY <1>1, <1>20, <2>1, SockTypes DEF TryWriteReturns
  <2>3. QED
    BY <1>1, <1>20, <2>1, <2>2 DEF TryWriteReturns
<1>21. ASSUME NEW w \in Workers, OutReactivate(w) PROVE TypeOK'
  <2>1. ident[w] \in Fds
    BY <1>1, <1>21 DEF OutReactivate
  <2>2. out_kernel' \in [Fds -> Interest]
    BY <1>1, <1>21, <2>1, KernelTypes DEF OutReactivate
  <2>3. QED
    BY <1>1, <1>21, <2>1, <2>2 DEF OutReactivate
<1>22. ASSUME NEW w \in Workers, OutRemove(w) PROVE TypeOK'
  <2>1. ident[w] \in Fds
    BY <1>1, <1>22 DEF OutRemove
  <2>2. out_kernel' \in [Fds -> Interest]
    BY <1>1, <1>22, <2>1, KernelTypes DEF OutRemove
  <2>3. QED
    BY <1>1, <1>22, <2>1, <2>2 DEF OutRemove
<1>23. ASSUME NEW w \in Workers, clear(w) PROVE TypeOK'
  <2>1. ident[w] \in Fds /\ w \in Threads /\ m_fdctx[ident[w]] \in Seq(Element)
    BY <1>1, <1>23 DEF clear
  <2>2. CASE m_fdctx[ident[w]] # <<>>
    <3>1. PICK queue : queue = [m_fdctx EXCEPT ![ident[w]] = Tail(@)]
      OBVIOUS
    <3>2. Tail(m_fdctx[ident[w]]) \in Seq(Element)
      BY <1>1, <2>1, <2>2
    <3>3. queue \in [Fds -> Seq(Element)]
      BY <1>1, <2>1, <3>1, <3>2
    <3>4. Refer(m_state, h, queue, xfbuf)
      BY <1>1, <1>23, <2>2, <3>1 DEF clear
    <3>5. /\ file' \in [Fds -> Conns \cup {None}] /\ m_state' \in [Fds -> Conns \cup {None}]
          /\ m_kernel' \in [Fds -> Interest] /\ out_kernel' \in [Fds -> Interest]
          /\ m_fdctx' \in [Fds -> Seq(Element)] /\ xfbuf' \in [Threads -> Seq(Element)]
          /\ h' \in [Threads -> Conns \cup {None}]
      BY <1>1, <3>3, <3>4, ReferTypes
    <3>6. QED
      BY <1>1, <1>23, <2>2, <3>5 DEF clear
  <2>3. CASE m_fdctx[ident[w]] = <<>>
    <3>1. /\ owner' = [owner EXCEPT ![ident[w]] = None] /\ pc' = [pc EXCEPT ![w] = "idle"]
          /\ ident' = [ident EXCEPT ![w] = None] /\ UNCHANGED fileVars
      BY <1>23, <2>3 DEF clear
    <3>2. owner' \in [Fds -> Threads \cup {None}] /\ ident' \in [Threads -> Fds \cup {None}]
      BY <1>1, <2>1, <3>1
    <3>3. pc' \in [Threads -> CallerPCs \cup WorkerPCs]
      BY <1>1, <2>1, <3>1
    <3>4. QED
      BY <1>1, <1>23, <3>1, <3>2, <3>3 DEF clear
  <2>4. QED
    BY <1>1, <2>2, <2>3
<1>24. ASSUME NEW n \in Fds, Report(n) PROVE TypeOK'
  <2>1. events' \in [Fds -> Nat]
    BY <1>1, <1>24 DEF Report
  <2>2. m_kernel' \in [Fds -> Interest]
    BY <1>1, <1>24, KernelTypes DEF Report
  <2>3. QED
    BY <1>1, <1>24, <2>1, <2>2 DEF Report
<1>25. ASSUME NEW n \in Fds, ReportOut(n) PROVE TypeOK'
  <2>1. out_queue' \in [Fds -> Nat]
    BY <1>1, <1>25 DEF ReportOut
  <2>2. out_kernel' \in [Fds -> Interest]
    BY <1>1, <1>25, KernelTypes DEF ReportOut
  <2>3. QED
    BY <1>1, <1>25, <2>1, <2>2 DEF ReportOut
<1>26. ASSUME NEW c \in Conns, Arrive(c) PROVE TypeOK'
  BY <1>26, <1>1 DEF Arrive, Spend
<1>27. ASSUME NEW c \in Conns, Drain(c) PROVE TypeOK'
  BY <1>27, <1>1 DEF Drain
<1>28. ASSUME NEW c \in Conns, PeerReset(c) PROVE TypeOK'
  BY <1>28, <1>1 DEF PeerReset
<1>29. ASSUME Quiescent PROVE TypeOK'
  BY <1>29, <1>1 DEF Quiescent, vars
<1>30. ASSUME NEW t \in Threads, write(t) PROVE TypeOK'
  BY <1>30, <1>1, WriteFacts
<1>31. QED
  BY <1>2, <1>3, <1>4, <1>5, <1>6, <1>7, <1>8, <1>9, <1>10, <1>11, <1>12, <1>13, <1>14,
     <1>15, <1>16, <1>17, <1>18, <1>19, <1>20, <1>21, <1>22, <1>23, <1>24, <1>25, <1>26,
     <1>27, <1>28, <1>29, <1>30
     DEF Next, CallerStep, WorkerStep, WriteStep, Threads

(* Every step keeps the calls in order. *)
LEMMA CallsKept ==
  ASSUME ConnInv, Next
  PROVE  CallsOK'
<1> USE ConnAssumption
        DEF fileVars, eventVars, sockVars, countVars, Threads, At, HandlerPCs, OutPCs, AddPCs,
            LockedPCs, CallerPCs, WorkerPCs
<1>1. /\ CallsOK
      /\ pc \in [Threads -> CallerPCs \cup WorkerPCs] /\ ident \in [Threads -> Fds \cup {None}]
      /\ h \in [Threads -> Conns \cup {None}] /\ xfbuf \in [Threads -> Seq(Element)]
      /\ m_state \in [Fds -> Conns \cup {None}] /\ outside \in BOOLEAN
  BY DEF ConnInv, TypeOK
<1>2. ASSUME NEW t \in Callers, NEW c \in Conns, Accept(t, c) PROVE CallsOK'
  BY <1>2, <1>1 DEF Accept, CallsOK
<1>3. ASSUME NEW t \in Callers, add_handler(t) PROVE CallsOK'
  <2>1. h' = h /\ xfbuf' = xfbuf
    BY <1>1, <1>3 DEF add_handler, Refer
  <2>2. QED
    BY <1>1, <1>3, <2>1 DEF add_handler, CallsOK
<1>4. ASSUME NEW t \in Callers, RemoveFd(t) PROVE CallsOK'
  BY <1>4, <1>1 DEF RemoveFd, CallsOK
<1>5. ASSUME NEW t \in Callers, remove_handler(t) PROVE CallsOK'
  <2>1. h' = h /\ xfbuf' = xfbuf
    BY <1>1, <1>5 DEF remove_handler, Refer
  <2>2. QED
    BY <1>1, <1>5, <2>1 DEF remove_handler, Advances, CallsOK
<1>6. ASSUME NEW t \in Threads, Drop(t) PROVE CallsOK'
  <2>1. h' = [h EXCEPT ![t] = None] /\ xfbuf' = xfbuf
    BY <1>1, <1>6 DEF Drop, Refer
  <2>2. QED
    BY <1>1, <1>6, <2>1 DEF Drop, Advances, CallsOK
<1>7. ASSUME NEW t \in Threads, Execute(t) PROVE CallsOK'
  <2>1. h' = h /\ xfbuf' = [xfbuf EXCEPT ![t] = Tail(@)]
    BY <1>1, <1>7 DEF Execute, Refer
  <2>2. QED
    BY <1>1, <1>7, <2>1 DEF Execute, Advances, CallsOK
<1>8. ASSUME NEW t \in Threads, ExecuteDone(t) PROVE CallsOK'
  BY <1>8, <1>1 DEF ExecuteDone, Back, CallsOK
<1>9. ASSUME NEW t \in Threads, ExecuteBlocks(t) PROVE CallsOK'
  BY <1>9, <1>1 DEF ExecuteBlocks, CallsOK
<1>10. ASSUME NEW t \in Threads, ExecuteFails(t) PROVE CallsOK'
  <2>1. h' = h /\ xfbuf' = [xfbuf EXCEPT ![t] = <<>>]
    BY <1>1, <1>10 DEF ExecuteFails, Refer
  <2>2. QED
    BY <1>1, <1>10, <2>1 DEF ExecuteFails, Back, Advances, CallsOK
<1>11. ASSUME NEW t \in Threads, watch(t) PROVE CallsOK'
  BY <1>11, <1>1 DEF watch, Back, CallsOK
<1>12. ASSUME NEW t \in Threads, NEW held \in BOOLEAN, commit(t, held) PROVE CallsOK'
  <2>1. h' = h /\ ident' = ident /\ outside' = outside /\ h[t] # None /\ ident[t] \in Fds
    BY <1>1, <1>12 DEF commit, Spend, CallsOK
  <2>2. CASE m_fdctx[ident[t]] # <<>>
    BY <1>1, <1>12, <2>1, <2>2 DEF commit, CallsOK
  <2>3. CASE m_fdctx[ident[t]] = <<>>
    <3>1. PICK r : xfbuf' = [xfbuf EXCEPT ![t] = r]
      BY <1>12, <2>3 DEF commit
    <3>2. pc' = [pc EXCEPT ![t] = "execute"]
      BY <1>12, <2>3 DEF commit
    <3>3. QED
      BY <1>1, <2>1, <3>1, <3>2 DEF CallsOK
  <2>4. QED
    BY <2>2, <2>3
<1>13. ASSUME NEW w \in Workers, Dispatch(w) PROVE CallsOK'
  BY <1>13, <1>1 DEF Dispatch, CallsOK
<1>14. ASSUME NEW w \in Workers, CallbackReturns(w) PROVE CallsOK'
  BY <1>14, <1>1 DEF CallbackReturns, CallsOK
<1>15. ASSUME NEW w \in Workers, Reactivate(w) PROVE CallsOK'
  BY <1>15, <1>1 DEF Reactivate, CallsOK
<1>16. ASSUME NEW w \in Workers, Remove(w) PROVE CallsOK'
  BY <1>16, <1>1 DEF Remove, CallsOK
<1>17. ASSUME NEW w \in Workers, reset_handler(w) PROVE CallsOK'
  <2>1. h' = h /\ xfbuf' = xfbuf
    BY <1>1, <1>17 DEF reset_handler, Refer
  <2>2. QED
    BY <1>1, <1>17, <2>1 DEF reset_handler, Advances, CallsOK
<1>18. ASSUME NEW w \in Workers, write_event(w) PROVE CallsOK'
  BY <1>18, <1>1 DEF write_event, CallsOK
<1>19. ASSUME NEW w \in Workers, TryWrite(w) PROVE CallsOK'
  <2>1. h' = h /\ xfbuf' = xfbuf
    BY <1>1, <1>19 DEF TryWrite, Refer
  <2>2. QED
    BY <1>1, <1>19, <2>1 DEF TryWrite, Advances, CallsOK
<1>20. ASSUME NEW w \in Workers, TryWriteReturns(w) PROVE CallsOK'
  BY <1>20, <1>1 DEF TryWriteReturns, Shutdown, CallsOK
<1>21. ASSUME NEW w \in Workers, OutReactivate(w) PROVE CallsOK'
  BY <1>21, <1>1 DEF OutReactivate, CallsOK
<1>22. ASSUME NEW w \in Workers, OutRemove(w) PROVE CallsOK'
  BY <1>22, <1>1 DEF OutRemove, CallsOK
<1>23. ASSUME NEW w \in Workers, clear(w) PROVE CallsOK'
  <2>1. h' = h /\ xfbuf' = xfbuf
    BY <1>1, <1>23 DEF clear, Refer
  <2>2. QED
    BY <1>1, <1>23, <2>1 DEF clear, CallsOK
<1>24. ASSUME NEW n \in Fds, Report(n) PROVE CallsOK'
  BY <1>24, <1>1 DEF Report, CallsOK
<1>25. ASSUME NEW n \in Fds, ReportOut(n) PROVE CallsOK'
  BY <1>25, <1>1 DEF ReportOut, CallsOK
<1>26. ASSUME NEW c \in Conns, Arrive(c) PROVE CallsOK'
  BY <1>26, <1>1 DEF Arrive, Spend, CallsOK
<1>27. ASSUME NEW c \in Conns, Drain(c) PROVE CallsOK'
  BY <1>27, <1>1 DEF Drain, CallsOK
<1>28. ASSUME NEW c \in Conns, PeerReset(c) PROVE CallsOK'
  BY <1>28, <1>1 DEF PeerReset, CallsOK
<1>29. ASSUME Quiescent PROVE CallsOK'
  BY <1>29, <1>1 DEF Quiescent, vars, CallsOK
<1>30. ASSUME NEW t \in Threads, write(t) PROVE CallsOK'
  <2>1. /\ UNCHANGED <<h, xfbuf, ident, outside>> /\ pc[t] \in {"callback", "using"}
        /\ ident[t] \in Fds /\ owner[ident[t]] = None
    BY <1>30, <1>1, WriteFacts DEF ConnInv
  <2>2. CASE UNCHANGED <<owner, pc>>
    BY <1>1, <2>1, <2>2 DEF CallsOK
  <2>3. CASE owner' = [owner EXCEPT ![ident[t]] = t] /\ pc' = [pc EXCEPT ![t] = "watch"]
    BY <1>1, <2>1, <2>3 DEF CallsOK
  <2>4. QED
    BY <1>30, <1>1, WriteFacts, <2>2, <2>3 DEF ConnInv
<1>31. QED
  BY <1>2, <1>3, <1>4, <1>5, <1>6, <1>7, <1>8, <1>9, <1>10, <1>11, <1>12, <1>13, <1>14,
     <1>15, <1>16, <1>17, <1>18, <1>19, <1>20, <1>21, <1>22, <1>23, <1>24, <1>25, <1>26,
     <1>27, <1>28, <1>29, <1>30
     DEF Next, CallerStep, WorkerStep, WriteStep, Threads

-----------------------------------------------------------------------------
(* Handlers and numbers.                                                   *)

(* A number keeps the handler that is held. *)
LEMMA HeldKept ==
  ASSUME ConnInv, Next
  PROVE  HeldOK'
<1> USE ConnAssumption
        DEF fileVars, eventVars, sockVars, countVars, Threads, At, HandlerPCs, OutPCs, AddPCs,
            LockedPCs, CallerPCs, WorkerPCs
<1>1. /\ TypeOK /\ CallsOK /\ HeldOK
      /\ pc \in [Threads -> CallerPCs \cup WorkerPCs] /\ ident \in [Threads -> Fds \cup {None}]
      /\ h \in [Threads -> Conns \cup {None}] /\ file \in [Fds -> Conns \cup {None}]
      /\ m_state \in [Fds -> Conns \cup {None}] /\ conn \in [Conns -> {"new", "up", "removed"}]
      /\ m_kernel \in [Fds -> Interest] /\ out_kernel \in [Fds -> Interest]
  BY DEF ConnInv, TypeOK
<1>2. ASSUME NEW t \in Callers, NEW c \in Conns, Accept(t, c) PROVE HeldOK'
  BY <1>2, <1>1 DEF Accept, CallsOK, HeldOK
<1>3. ASSUME NEW t \in Callers, add_handler(t) PROVE HeldOK'
  <2>1. CASE pc[t] = "set_handler"
    <3>1. m_state' = [m_state EXCEPT ![ident[t]] = h[t]] /\ h' = h /\ Referred
      BY <1>1, <1>3, <2>1, ReferFacts DEF add_handler
    <3>2. QED
      BY <1>1, <1>3, <2>1, <3>1 DEF add_handler, CallsOK, HeldOK, Referred, Open, Closed
  <2>2. CASE pc[t] = "add_fd"
    BY <1>1, <1>3, <2>2 DEF add_handler, add_fd, CallsOK, HeldOK
  <2>3. QED
    BY <1>3, <2>1, <2>2 DEF add_handler
<1>4. ASSUME NEW t \in Callers, RemoveFd(t) PROVE HeldOK'
  BY <1>4, <1>1 DEF RemoveFd, remove, CallsOK, HeldOK
<1>5. ASSUME NEW t \in Callers, remove_handler(t) PROVE HeldOK'
  <2>1. m_state' = [m_state EXCEPT ![ident[t]] = None] /\ h' = h /\ Referred
    BY <1>1, <1>5, ReferFacts DEF remove_handler
  <2>2. QED
    BY <1>1, <1>5, <2>1 DEF remove_handler, CallsOK, HeldOK, Referred, Open, Closed
<1>6. ASSUME NEW t \in Threads, Drop(t) PROVE HeldOK'
  <2>1. m_state' = m_state /\ h' = [h EXCEPT ![t] = None] /\ Referred
    BY <1>1, <1>6, ReferFacts DEF Drop
  <2>2. QED
    BY <1>1, <1>6, <2>1 DEF Drop, CallsOK, HeldOK, Referred, Open, Closed
<1>7. ASSUME NEW t \in Threads, Execute(t) PROVE HeldOK'
  <2>1. m_state' = m_state /\ h' = h /\ Referred
    BY <1>1, <1>7, ReferFacts DEF Execute
  <2>2. QED
    BY <1>1, <1>7, <2>1 DEF Execute, CallsOK, HeldOK, Referred, Open, Closed
<1>8. ASSUME NEW t \in Threads, ExecuteDone(t) PROVE HeldOK'
  BY <1>8, <1>1 DEF ExecuteDone, Back, CallsOK, HeldOK
<1>9. ASSUME NEW t \in Threads, ExecuteBlocks(t) PROVE HeldOK'
  BY <1>9, <1>1 DEF ExecuteBlocks, CallsOK, HeldOK
<1>10. ASSUME NEW t \in Threads, ExecuteFails(t) PROVE HeldOK'
  <2>1. m_state' = m_state /\ h' = h /\ Referred
    BY <1>1, <1>10, ReferFacts DEF ExecuteFails
  <2>2. QED
    BY <1>1, <1>10, <2>1 DEF ExecuteFails, CallsOK, HeldOK, Referred, Open, Closed
<1>11. ASSUME NEW t \in Threads, watch(t) PROVE HeldOK'
  BY <1>11, <1>1 DEF watch, add_fd, Back, CallsOK, HeldOK
<1>12. ASSUME NEW t \in Threads, NEW held \in BOOLEAN, commit(t, held) PROVE HeldOK'
  BY <1>12, <1>1 DEF commit, Spend, CallsOK, HeldOK
<1>13. ASSUME NEW w \in Workers, Dispatch(w) PROVE HeldOK'
  BY <1>13, <1>1 DEF Dispatch, CallsOK, HeldOK
<1>14. ASSUME NEW w \in Workers, CallbackReturns(w) PROVE HeldOK'
  <2>1. UNCHANGED <<file, m_state, m_kernel, out_kernel, h, ident>> /\ h[w] \in Conns
    BY <1>1, <1>14 DEF CallbackReturns, CallsOK
  <2>2. \A d \in Conns : conn'[d] = conn[d] \/ conn'[d] = "removed"
    BY <1>1, <1>14, <2>1 DEF CallbackReturns
  <2>3. \A n \in Fds : file'[n] # None => conn'[file'[n]] # "new"
    <3>1. ASSUME NEW n \in Fds, file[n] # None PROVE conn'[file[n]] # "new"
      <4>1. file[n] \in Conns /\ conn[file[n]] # "new"
        BY <1>1, <3>1 DEF HeldOK
      <4>2. QED
        BY <2>2, <4>1
    <3>2. QED
      BY <2>1, <3>1
  <2>4. QED
    BY <1>1, <2>1, <2>3 DEF HeldOK
<1>15. ASSUME NEW w \in Workers, Reactivate(w) PROVE HeldOK'
  BY <1>15, <1>1 DEF Reactivate, reactivate, CallsOK, HeldOK
<1>16. ASSUME NEW w \in Workers, Remove(w) PROVE HeldOK'
  BY <1>16, <1>1 DEF Remove, remove, CallsOK, HeldOK
<1>17. ASSUME NEW w \in Workers, reset_handler(w) PROVE HeldOK'
  <2>1. m_state' = [m_state EXCEPT ![ident[w]] = None] /\ h' = h /\ Referred
    BY <1>1, <1>17, ReferFacts DEF reset_handler
  <2>2. QED
    BY <1>1, <1>17, <2>1 DEF reset_handler, CallsOK, HeldOK, Referred, Open, Closed
<1>18. ASSUME NEW w \in Workers, write_event(w) PROVE HeldOK'
  BY <1>18, <1>1 DEF write_event, CallsOK, HeldOK
<1>19. ASSUME NEW w \in Workers, TryWrite(w) PROVE HeldOK'
  <2>1. m_state' = m_state /\ h' = h /\ Referred
    BY <1>1, <1>19, ReferFacts DEF TryWrite
  <2>2. QED
    BY <1>1, <1>19, <2>1 DEF TryWrite, CallsOK, HeldOK, Referred, Open, Closed
<1>20. ASSUME NEW w \in Workers, TryWriteReturns(w) PROVE HeldOK'
  BY <1>20, <1>1 DEF TryWriteReturns, Shutdown, CallsOK, HeldOK
<1>21. ASSUME NEW w \in Workers, OutReactivate(w) PROVE HeldOK'
  BY <1>21, <1>1 DEF OutReactivate, reactivate, CallsOK, HeldOK
<1>22. ASSUME NEW w \in Workers, OutRemove(w) PROVE HeldOK'
  BY <1>22, <1>1 DEF OutRemove, remove, CallsOK, HeldOK
<1>23. ASSUME NEW w \in Workers, clear(w) PROVE HeldOK'
  <2>1. CASE m_fdctx[ident[w]] # <<>>
    <3>1. m_state' = m_state /\ h' = h /\ Referred
      BY <1>1, <1>23, <2>1, ReferFacts DEF clear
    <3>2. QED
      BY <1>1, <1>23, <2>1, <3>1 DEF clear, CallsOK, HeldOK, Referred, Open, Closed
  <2>2. CASE m_fdctx[ident[w]] = <<>>
    BY <1>1, <1>23, <2>2 DEF clear, CallsOK, HeldOK
  <2>3. QED
    BY <2>1, <2>2
<1>24. ASSUME NEW n \in Fds, Report(n) PROVE HeldOK'
  BY <1>24, <1>1 DEF Report, wait, CallsOK, HeldOK
<1>25. ASSUME NEW n \in Fds, ReportOut(n) PROVE HeldOK'
  BY <1>25, <1>1 DEF ReportOut, wait, CallsOK, HeldOK
<1>26. ASSUME NEW c \in Conns, Arrive(c) PROVE HeldOK'
  BY <1>26, <1>1 DEF Arrive, Spend, CallsOK, HeldOK
<1>27. ASSUME NEW c \in Conns, Drain(c) PROVE HeldOK'
  BY <1>27, <1>1 DEF Drain, CallsOK, HeldOK
<1>28. ASSUME NEW c \in Conns, PeerReset(c) PROVE HeldOK'
  BY <1>28, <1>1 DEF PeerReset, CallsOK, HeldOK
<1>29. ASSUME Quiescent PROVE HeldOK'
  BY <1>29, <1>1 DEF Quiescent, vars, CallsOK, HeldOK
<1>30. ASSUME NEW t \in Threads, write(t) PROVE HeldOK'
  <2>1. UNCHANGED <<file, m_state, h, m_kernel, out_kernel, ident, conn>>
    BY <1>30, <1>1, WriteFacts
  <2>2. QED
    BY <1>1, <2>1 DEF HeldOK
<1>31. QED
  BY <1>2, <1>3, <1>4, <1>5, <1>6, <1>7, <1>8, <1>9, <1>10, <1>11, <1>12, <1>13, <1>14,
     <1>15, <1>16, <1>17, <1>18, <1>19, <1>20, <1>21, <1>22, <1>23, <1>24, <1>25, <1>26,
     <1>27, <1>28, <1>29, <1>30
     DEF Next, CallerStep, WorkerStep, WriteStep, Threads

-----------------------------------------------------------------------------
(* Writes and queues.                                                      *)

(* What a step that drops references owes: the queues it leaves were       *)
(* writes for the connections that have the numbers, the buffers are       *)
(* writes for the handlers held.                                           *)
LEMMA BuffersReferred ==
  ASSUME TypeOK', HeldOK, Referred,
         \A n \in Fds : IsWrite(m_fdctx'[n], file[n]),
         \A t \in Threads : IsWrite(xfbuf'[t], h'[t])
  PROVE  BuffersOK'
<1>1. ASSUME NEW n \in Fds PROVE IsWrite(m_fdctx'[n], file'[n])
  <2>1. m_fdctx'[n] \in Seq(Element)
    BY DEF TypeOK
  <2>2. CASE Open(n)
    BY <2>2 DEF Open
  <2>3. CASE Closed(n)
    BY <2>1, <2>3, QueuedOpen, WriteEmpty
  <2>4. QED
    BY <2>2, <2>3 DEF Referred
<1>2. QED
  BY <1>1 DEF BuffersOK

(* What is queued and what is being written stay writes. *)
LEMMA BuffersKept ==
  ASSUME ConnInv, Next, ~bare'
  PROVE  BuffersOK'
<1> USE ConnAssumption
        DEF fileVars, eventVars, sockVars, countVars, Threads, At, HandlerPCs, OutPCs, AddPCs,
            LockedPCs, CallerPCs, WorkerPCs
<1>1. /\ TypeOK /\ TypeOK' /\ CallsOK /\ HeldOK /\ BuffersOK /\ ~bare
      /\ pc \in [Threads -> CallerPCs \cup WorkerPCs] /\ ident \in [Threads -> Fds \cup {None}]
      /\ h \in [Threads -> Conns \cup {None}] /\ file \in [Fds -> Conns \cup {None}]
      /\ m_fdctx \in [Fds -> Seq(Element)] /\ xfbuf \in [Threads -> Seq(Element)]
  BY TypesKept, BareStays DEF ConnInv, TypeOK
<1>2. ASSUME NEW t \in Callers, NEW c \in Conns, Accept(t, c) PROVE BuffersOK'
  <2>1. PICK n \in Fds : file[n] = None /\ file' = [file EXCEPT ![n] = c]
    BY <1>2 DEF Accept
  <2>2. m_fdctx' = m_fdctx /\ xfbuf' = xfbuf /\ h' = [h EXCEPT ![t] = c] /\ pc[t] = "idle"
    BY <1>2 DEF Accept
  <2>3. m_fdctx[n] = <<>> /\ xfbuf[t] = <<>>
    BY <1>1, <2>1, <2>2 DEF BuffersOK, IsWrite, CallsOK
  <2>4. IsWrite(<<>>, c)
    BY WriteEmpty
  <2>5. QED
    BY <1>1, <2>1, <2>2, <2>3, <2>4 DEF BuffersOK
<1>3. ASSUME NEW t \in Callers, add_handler(t) PROVE BuffersOK'
  <2>1. CASE pc[t] = "set_handler"
    <3>1. h' = h /\ m_fdctx' = m_fdctx /\ xfbuf' = xfbuf /\ Referred
      BY <1>1, <1>3, <2>1, ReferFacts DEF add_handler
    <3>2. QED
      BY <1>1, <3>1, BuffersReferred DEF BuffersOK
  <2>2. CASE pc[t] = "add_fd"
    BY <1>1, <1>3, <2>2 DEF add_handler, BuffersOK
  <2>3. QED
    BY <1>3, <2>1, <2>2 DEF add_handler
<1>4. ASSUME NEW t \in Callers, RemoveFd(t) PROVE BuffersOK'
  BY <1>4, <1>1 DEF RemoveFd, BuffersOK
<1>5. ASSUME NEW t \in Callers, remove_handler(t) PROVE BuffersOK'
  <2>1. h' = h /\ m_fdctx' = m_fdctx /\ xfbuf' = xfbuf /\ Referred
    BY <1>1, <1>5, ReferFacts DEF remove_handler
  <2>2. QED
    BY <1>1, <2>1, BuffersReferred DEF BuffersOK
<1>6. ASSUME NEW t \in Threads, Drop(t) PROVE BuffersOK'
  <2>1. h' = [h EXCEPT ![t] = None] /\ m_fdctx' = m_fdctx /\ xfbuf' = xfbuf /\ Referred
    BY <1>1, <1>6, ReferFacts DEF Drop
  <2>2. xfbuf[t] = <<>>
    BY <1>1, <1>6 DEF Drop, CallsOK
  <2>3. \A u \in Threads : IsWrite(xfbuf[u], h'[u])
    BY <1>1, <2>1, <2>2, WriteEmpty DEF BuffersOK
  <2>4. QED
    BY <1>1, <2>1, <2>3, BuffersReferred DEF BuffersOK
<1>7. ASSUME NEW t \in Threads, Execute(t) PROVE BuffersOK'
  <2>1. h' = h /\ m_fdctx' = m_fdctx /\ xfbuf' = [xfbuf EXCEPT ![t] = Tail(@)] /\ Referred
    BY <1>1, <1>7, ReferFacts DEF Execute
  <2>2. xfbuf[t] \in Seq(Element) /\ xfbuf[t] # <<>> /\ IsWrite(xfbuf[t], h[t])
    BY <1>1, <1>7 DEF Execute, Advances, BuffersOK
  <2>3. IsWrite(Tail(xfbuf[t]), h[t])
    BY <2>2, WriteTail
  <2>4. \A u \in Threads : IsWrite(xfbuf'[u], h[u])
    BY <1>1, <2>1, <2>3 DEF BuffersOK
  <2>5. QED
    BY <1>1, <2>1, <2>4, BuffersReferred DEF BuffersOK
<1>8. ASSUME NEW t \in Threads, ExecuteDone(t) PROVE BuffersOK'
  BY <1>8, <1>1 DEF ExecuteDone, BuffersOK
<1>9. ASSUME NEW t \in Threads, ExecuteBlocks(t) PROVE BuffersOK'
  <2>1. ident[t] \in Fds /\ file[ident[t]] = h[t] /\ IsWrite(xfbuf[t], h[t])
    BY <1>1, <1>9 DEF ExecuteBlocks, CallsOK, HeldOK, BuffersOK
  <2>2. /\ UNCHANGED <<file, h>> /\ m_fdctx' = [m_fdctx EXCEPT ![ident[t]] = xfbuf[t]]
        /\ xfbuf' = [xfbuf EXCEPT ![t] = <<>>]
    BY <1>9 DEF ExecuteBlocks
  <2>3. IsWrite(<<>>, h[t])
    BY WriteEmpty
  <2>4. QED
    BY <1>1, <2>1, <2>2, <2>3 DEF BuffersOK
<1>10. ASSUME NEW t \in Threads, ExecuteFails(t) PROVE BuffersOK'
  <2>1. h' = h /\ m_fdctx' = m_fdctx /\ xfbuf' = [xfbuf EXCEPT ![t] = <<>>] /\ Referred
    BY <1>1, <1>10, ReferFacts DEF ExecuteFails
  <2>2. \A u \in Threads : IsWrite(xfbuf'[u], h[u])
    BY <1>1, <2>1, WriteEmpty DEF BuffersOK
  <2>3. QED
    BY <1>1, <2>1, <2>2, BuffersReferred DEF BuffersOK
<1>11. ASSUME NEW t \in Threads, watch(t) PROVE BuffersOK'
  BY <1>11, <1>1 DEF watch, BuffersOK
<1>12. ASSUME NEW t \in Threads, NEW held \in BOOLEAN, commit(t, held) PROVE BuffersOK'
  <2>1. /\ ident[t] \in Fds /\ h[t] \in Conns /\ m_fdctx[ident[t]] \in Seq(Element)
        /\ file[ident[t]] = h[t]
    BY <1>1, <1>12 DEF commit, CallsOK, HeldOK
  <2>2. UNCHANGED <<file, h>> /\ held = TRUE
    BY <1>12 DEF commit
  <2>3. CASE m_fdctx[ident[t]] # <<>>
    <3>1. PICK q : q = m_fdctx[ident[t]] \o Request(h[t], TRUE) /\ IsWrite(q, h[t])
      BY <1>1, <2>1, WriteAppend DEF BuffersOK
    <3>2. m_fdctx' = [m_fdctx EXCEPT ![ident[t]] = q] /\ UNCHANGED xfbuf
      BY <1>12, <2>2, <2>3, <3>1 DEF commit
    <3>3. QED
      BY <1>1, <2>1, <2>2, <3>1, <3>2 DEF BuffersOK
  <2>4. CASE m_fdctx[ident[t]] = <<>>
    <3>1. PICK r : r = Request(h[t], TRUE) /\ IsWrite(r, h[t])
      BY <2>1, WriteRequest
    <3>2. xfbuf' = [xfbuf EXCEPT ![t] = r] /\ UNCHANGED m_fdctx
      BY <1>12, <2>2, <2>4, <3>1 DEF commit
    <3>3. QED
      BY <1>1, <2>2, <3>1, <3>2 DEF BuffersOK
  <2>5. QED
    BY <2>3, <2>4
<1>13. ASSUME NEW w \in Workers, Dispatch(w) PROVE BuffersOK'
  <2>1. /\ UNCHANGED <<file, m_fdctx, xfbuf>> /\ pc[w] = "idle"
        /\ \E n \in Fds : h' = [h EXCEPT ![w] = m_state[n]]
    BY <1>13 DEF Dispatch
  <2>2. xfbuf[w] = <<>>
    BY <1>1, <2>1 DEF CallsOK
  <2>3. \A u \in Threads : IsWrite(xfbuf[u], h'[u])
    BY <1>1, <2>1, <2>2, WriteEmpty DEF BuffersOK
  <2>4. QED
    BY <1>1, <2>1, <2>3 DEF BuffersOK
<1>14. ASSUME NEW w \in Workers, CallbackReturns(w) PROVE BuffersOK'
  BY <1>14, <1>1 DEF CallbackReturns, BuffersOK
<1>15. ASSUME NEW w \in Workers, Reactivate(w) PROVE BuffersOK'
  BY <1>15, <1>1 DEF Reactivate, BuffersOK
<1>16. ASSUME NEW w \in Workers, Remove(w) PROVE BuffersOK'
  BY <1>16, <1>1 DEF Remove, BuffersOK
<1>17. ASSUME NEW w \in Workers, reset_handler(w) PROVE BuffersOK'
  <2>1. h' = h /\ m_fdctx' = m_fdctx /\ xfbuf' = xfbuf /\ Referred
    BY <1>1, <1>17, ReferFacts DEF reset_handler
  <2>2. QED
    BY <1>1, <2>1, BuffersReferred DEF BuffersOK
<1>18. ASSUME NEW w \in Workers, write_event(w) PROVE BuffersOK'
  BY <1>18, <1>1 DEF write_event, BuffersOK
<1>19. ASSUME NEW w \in Workers, TryWrite(w) PROVE BuffersOK'
  <2>1. h' = h /\ m_fdctx' = [m_fdctx EXCEPT ![ident[w]] = Tail(@)] /\ xfbuf' = xfbuf /\ Referred
    BY <1>1, <1>19, ReferFacts DEF TryWrite
  <2>2. /\ ident[w] \in Fds /\ m_fdctx[ident[w]] \in Seq(Element) /\ m_fdctx[ident[w]] # <<>>
        /\ IsWrite(m_fdctx[ident[w]], file[ident[w]])
    BY <1>1, <1>19 DEF TryWrite, Advances, BuffersOK, CallsOK
  <2>3. IsWrite(Tail(m_fdctx[ident[w]]), file[ident[w]])
    BY <2>2, WriteTail
  <2>4. \A n \in Fds : IsWrite(m_fdctx'[n], file[n])
    BY <1>1, <2>1, <2>2, <2>3 DEF BuffersOK
  <2>5. QED
    BY <1>1, <2>1, <2>4, BuffersReferred DEF BuffersOK
<1>20. ASSUME NEW w \in Workers, TryWriteReturns(w) PROVE BuffersOK'
  BY <1>20, <1>1 DEF TryWriteReturns, BuffersOK
<1>21. ASSUME NEW w \in Workers, OutReactivate(w) PROVE BuffersOK'
  BY <1>21, <1>1 DEF OutReactivate, BuffersOK
<1>22. ASSUME NEW w \in Workers, OutRemove(w) PROVE BuffersOK'
  BY <1>22, <1>1 DEF OutRemove, BuffersOK
<1>23. ASSUME NEW w \in Workers, clear(w) PROVE BuffersOK'
  <2>1. CASE m_fdctx[ident[w]] # <<>>
    <3>1. h' = h /\ m_fdctx' = [m_fdctx EXCEPT ![ident[w]] = Tail(@)] /\ xfbuf' = xfbuf /\ Referred
      BY <1>1, <1>23, <2>1, ReferFacts DEF clear
    <3>2. /\ ident[w] \in Fds /\ m_fdctx[ident[w]] \in Seq(Element)
          /\ IsWrite(m_fdctx[ident[w]], file[ident[w]])
      BY <1>1, <1>23 DEF clear, BuffersOK, CallsOK
    <3>3. IsWrite(Tail(m_fdctx[ident[w]]), file[ident[w]])
      BY <2>1, <3>2, WriteTail
    <3>4. \A n \in Fds : IsWrite(m_fdctx'[n], file[n])
      BY <1>1, <3>1, <3>2, <3>3 DEF BuffersOK
    <3>5. QED
      BY <1>1, <3>1, <3>4, BuffersReferred DEF BuffersOK
  <2>2. CASE m_fdctx[ident[w]] = <<>>
    BY <1>1, <1>23, <2>2 DEF clear, BuffersOK
  <2>3. QED
    BY <2>1, <2>2
<1>24. ASSUME NEW n \in Fds, Report(n) PROVE BuffersOK'
  BY <1>24, <1>1 DEF Report, BuffersOK
<1>25. ASSUME NEW n \in Fds, ReportOut(n) PROVE BuffersOK'
  BY <1>25, <1>1 DEF ReportOut, BuffersOK
<1>26. ASSUME NEW c \in Conns, Arrive(c) PROVE BuffersOK'
  BY <1>26, <1>1 DEF Arrive, BuffersOK
<1>27. ASSUME NEW c \in Conns, Drain(c) PROVE BuffersOK'
  BY <1>27, <1>1 DEF Drain, BuffersOK
<1>28. ASSUME NEW c \in Conns, PeerReset(c) PROVE BuffersOK'
  BY <1>28, <1>1 DEF PeerReset, BuffersOK
<1>29. ASSUME Quiescent PROVE BuffersOK'
  BY <1>29, <1>1 DEF Quiescent, BuffersOK, vars
<1>30. ASSUME NEW t \in Threads, write(t) PROVE BuffersOK'
  BY <1>30, <1>1 DEF write
<1>31. QED
  BY <1>2, <1>3, <1>4, <1>5, <1>6, <1>7, <1>8, <1>9, <1>10, <1>11, <1>12, <1>13, <1>14,
     <1>15, <1>16, <1>17, <1>18, <1>19, <1>20, <1>21, <1>22, <1>23, <1>24, <1>25, <1>26,
     <1>27, <1>28, <1>29, <1>30
     DEF Next, CallerStep, WorkerStep, WriteStep, Threads

(* The mutex of a queue has one holder, which is in the call that took it. *)
LEMMA LocksKept ==
  ASSUME ConnInv, Next
  PROVE  LocksOK'
<1> USE ConnAssumption
        DEF fileVars, eventVars, sockVars, countVars, Threads, At, HandlerPCs, OutPCs, AddPCs,
            LockedPCs, CallerPCs, WorkerPCs
<1>1. /\ TypeOK /\ CallsOK /\ LocksOK
      /\ pc \in [Threads -> CallerPCs \cup WorkerPCs] /\ ident \in [Threads -> Fds \cup {None}]
      /\ owner \in [Fds -> Threads \cup {None}]
  BY DEF ConnInv, TypeOK
<1>2. ASSUME NEW t \in Callers, NEW c \in Conns, Accept(t, c) PROVE LocksOK'
  BY <1>2, <1>1 DEF Accept, CallsOK, LocksOK
<1>3. ASSUME NEW t \in Callers, add_handler(t) PROVE LocksOK'
  BY <1>3, <1>1 DEF add_handler, CallsOK, LocksOK
<1>4. ASSUME NEW t \in Callers, RemoveFd(t) PROVE LocksOK'
  BY <1>4, <1>1 DEF RemoveFd, CallsOK, LocksOK
<1>5. ASSUME NEW t \in Callers, remove_handler(t) PROVE LocksOK'
  BY <1>5, <1>1 DEF remove_handler, CallsOK, LocksOK
<1>6. ASSUME NEW t \in Threads, Drop(t) PROVE LocksOK'
  BY <1>6, <1>1 DEF Drop, CallsOK, LocksOK
<1>7. ASSUME NEW t \in Threads, Execute(t) PROVE LocksOK'
  BY <1>7, <1>1 DEF Execute, CallsOK, LocksOK
<1>8. ASSUME NEW t \in Threads, ExecuteDone(t) PROVE LocksOK'
  BY <1>8, <1>1 DEF ExecuteDone, CallsOK, LocksOK, Back
<1>9. ASSUME NEW t \in Threads, ExecuteBlocks(t) PROVE LocksOK'
  BY <1>9, <1>1 DEF ExecuteBlocks, CallsOK, LocksOK
<1>10. ASSUME NEW t \in Threads, ExecuteFails(t) PROVE LocksOK'
  BY <1>10, <1>1 DEF ExecuteFails, CallsOK, LocksOK, Back
<1>11. ASSUME NEW t \in Threads, watch(t) PROVE LocksOK'
  BY <1>11, <1>1 DEF watch, CallsOK, LocksOK, Back
<1>12. ASSUME NEW t \in Threads, NEW held \in BOOLEAN, commit(t, held) PROVE LocksOK'
  <2>1. ident[t] \in Fds /\ owner[ident[t]] = None /\ ident' = ident
    BY <1>1, <1>12 DEF commit, CallsOK
  <2>2. CASE m_fdctx[ident[t]] # <<>>
    BY <1>1, <1>12, <2>1, <2>2 DEF commit, LocksOK
  <2>3. CASE m_fdctx[ident[t]] = <<>>
    <3>1. owner' = [owner EXCEPT ![ident[t]] = t] /\ pc' = [pc EXCEPT ![t] = "execute"]
      BY <1>12, <2>3 DEF commit
    <3>2. QED
      BY <1>1, <2>1, <3>1 DEF LocksOK, CallsOK
  <2>4. QED
    BY <2>2, <2>3
<1>13. ASSUME NEW w \in Workers, Dispatch(w) PROVE LocksOK'
  BY <1>13, <1>1 DEF Dispatch, CallsOK, LocksOK
<1>14. ASSUME NEW w \in Workers, CallbackReturns(w) PROVE LocksOK'
  BY <1>14, <1>1 DEF CallbackReturns, CallsOK, LocksOK
<1>15. ASSUME NEW w \in Workers, Reactivate(w) PROVE LocksOK'
  BY <1>15, <1>1 DEF Reactivate, CallsOK, LocksOK
<1>16. ASSUME NEW w \in Workers, Remove(w) PROVE LocksOK'
  BY <1>16, <1>1 DEF Remove, CallsOK, LocksOK
<1>17. ASSUME NEW w \in Workers, reset_handler(w) PROVE LocksOK'
  BY <1>17, <1>1 DEF reset_handler, CallsOK, LocksOK
<1>18. ASSUME NEW w \in Workers, write_event(w) PROVE LocksOK'
  BY <1>18, <1>1 DEF write_event, CallsOK, LocksOK
<1>19. ASSUME NEW w \in Workers, TryWrite(w) PROVE LocksOK'
  BY <1>19, <1>1 DEF TryWrite, CallsOK, LocksOK
<1>20. ASSUME NEW w \in Workers, TryWriteReturns(w) PROVE LocksOK'
  BY <1>20, <1>1 DEF TryWriteReturns, CallsOK, LocksOK
<1>21. ASSUME NEW w \in Workers, OutReactivate(w) PROVE LocksOK'
  BY <1>21, <1>1 DEF OutReactivate, CallsOK, LocksOK
<1>22. ASSUME NEW w \in Workers, OutRemove(w) PROVE LocksOK'
  BY <1>22, <1>1 DEF OutRemove, CallsOK, LocksOK
<1>23. ASSUME NEW w \in Workers, clear(w) PROVE LocksOK'
  BY <1>23, <1>1 DEF clear, CallsOK, LocksOK
<1>24. ASSUME NEW n \in Fds, Report(n) PROVE LocksOK'
  BY <1>24, <1>1 DEF Report, CallsOK, LocksOK
<1>25. ASSUME NEW n \in Fds, ReportOut(n) PROVE LocksOK'
  BY <1>25, <1>1 DEF ReportOut, CallsOK, LocksOK
<1>26. ASSUME NEW c \in Conns, Arrive(c) PROVE LocksOK'
  BY <1>26, <1>1 DEF Arrive, CallsOK, LocksOK
<1>27. ASSUME NEW c \in Conns, Drain(c) PROVE LocksOK'
  BY <1>27, <1>1 DEF Drain, CallsOK, LocksOK
<1>28. ASSUME NEW c \in Conns, PeerReset(c) PROVE LocksOK'
  BY <1>28, <1>1 DEF PeerReset, CallsOK, LocksOK
<1>29. ASSUME Quiescent PROVE LocksOK'
  BY <1>29, <1>1 DEF Quiescent, CallsOK, LocksOK, vars
<1>30. ASSUME NEW t \in Threads, write(t) PROVE LocksOK'
  <2>1. /\ UNCHANGED <<ident>> /\ pc[t] \in {"callback", "using"}
        /\ ident[t] \in Fds /\ owner[ident[t]] = None
    BY <1>30, <1>1, WriteFacts
  <2>2. CASE UNCHANGED <<owner, pc>>
    BY <1>1, <2>1, <2>2 DEF LocksOK
  <2>3. CASE owner' = [owner EXCEPT ![ident[t]] = t] /\ pc' = [pc EXCEPT ![t] = "watch"]
    BY <1>1, <2>1, <2>3 DEF LocksOK, CallsOK
  <2>4. QED
    BY <1>30, <1>1, WriteFacts, <2>2, <2>3
<1>31. QED
  BY <1>2, <1>3, <1>4, <1>5, <1>6, <1>7, <1>8, <1>9, <1>10, <1>11, <1>12, <1>13, <1>14,
     <1>15, <1>16, <1>17, <1>18, <1>19, <1>20, <1>21, <1>22, <1>23, <1>24, <1>25, <1>26,
     <1>27, <1>28, <1>29, <1>30
     DEF Next, CallerStep, WorkerStep, WriteStep, Threads

(* A step that drops references closes no number that keeps a queue: its   *)
(* registration is as it was.                                              *)
LEMMA WatchReferred ==
  ASSUME TypeOK', Referred, \A n \in Fds : IsWrite(m_fdctx'[n], file[n])
  PROVE  \A n \in Fds :
           /\ m_fdctx'[n] # <<>> => out_kernel'[n] = out_kernel[n]
           /\ out_kernel'[n] # "none" => out_kernel'[n] = out_kernel[n]
<1>1. ASSUME NEW n \in Fds, m_fdctx'[n] # <<>> PROVE out_kernel'[n] = out_kernel[n]
  <2>1. m_fdctx'[n] \in Seq(Element)
    BY DEF TypeOK
  <2>2. ~Closed(n)
    BY <1>1, <2>1, QueuedOpen
  <2>3. QED
    BY <2>2 DEF Referred, Open
<1>2. QED
  BY <1>1 DEF Referred, Open, Closed

(* A queue is watched whenever nobody holds its mutex. *)
LEMMA WatchKept ==
  ASSUME ConnInv, Next, ~bare'
  PROVE  WatchOK'
<1> USE ConnAssumption
        DEF fileVars, eventVars, sockVars, countVars, Threads, At, HandlerPCs, OutPCs, AddPCs,
            LockedPCs, CallerPCs, WorkerPCs
<1>1. /\ TypeOK /\ TypeOK' /\ CallsOK /\ HeldOK /\ BuffersOK /\ LocksOK /\ WatchOK /\ ~bare
      /\ pc \in [Threads -> CallerPCs \cup WorkerPCs] /\ ident \in [Threads -> Fds \cup {None}]
      /\ h \in [Threads -> Conns \cup {None}] /\ out_kernel \in [Fds -> Interest]
      /\ m_fdctx \in [Fds -> Seq(Element)] /\ xfbuf \in [Threads -> Seq(Element)]
      /\ owner \in [Fds -> Threads \cup {None}]
  BY TypesKept, BareStays DEF ConnInv, TypeOK
<1>2. ASSUME NEW t \in Callers, NEW c \in Conns, Accept(t, c) PROVE WatchOK'
  BY <1>2, <1>1 DEF Accept, CallsOK, LocksOK, WatchOK
<1>3. ASSUME NEW t \in Callers, add_handler(t) PROVE WatchOK'
  <2>1. CASE pc[t] = "set_handler"
    <3>1. m_fdctx' = m_fdctx /\ Referred
      BY <1>1, <1>3, <2>1, ReferFacts DEF add_handler
    <3>2. \A n \in Fds :
            /\ m_fdctx'[n] # <<>> => out_kernel'[n] = out_kernel[n]
            /\ out_kernel'[n] # "none" => out_kernel'[n] = out_kernel[n]
      BY <1>1, <3>1, WatchReferred DEF BuffersOK
    <3>3. UNCHANGED <<owner, ident>> /\ pc' = [pc EXCEPT ![t] = "add_fd"]
      BY <1>3, <2>1 DEF add_handler
    <3>4. QED
      BY <1>1, <2>1, <3>1, <3>2, <3>3 DEF CallsOK, LocksOK, WatchOK
  <2>2. CASE pc[t] = "add_fd"
    BY <1>1, <1>3, <2>2 DEF add_handler, CallsOK, LocksOK, WatchOK
  <2>3. QED
    BY <1>3, <2>1, <2>2 DEF add_handler
<1>4. ASSUME NEW t \in Callers, RemoveFd(t) PROVE WatchOK'
  BY <1>4, <1>1 DEF RemoveFd, CallsOK, LocksOK, WatchOK, remove
<1>5. ASSUME NEW t \in Callers, remove_handler(t) PROVE WatchOK'
  <2>1. m_fdctx' = m_fdctx /\ Referred
    BY <1>1, <1>5, ReferFacts DEF remove_handler
  <2>2. \A n \in Fds :
          /\ m_fdctx'[n] # <<>> => out_kernel'[n] = out_kernel[n]
          /\ out_kernel'[n] # "none" => out_kernel'[n] = out_kernel[n]
    BY <1>1, <2>1, WatchReferred DEF BuffersOK
  <2>3. QED
    BY <1>1, <1>5, <2>1, <2>2 DEF remove_handler, CallsOK, LocksOK, WatchOK
<1>6. ASSUME NEW t \in Threads, Drop(t) PROVE WatchOK'
  <2>1. m_fdctx' = m_fdctx /\ Referred
    BY <1>1, <1>6, ReferFacts DEF Drop
  <2>2. \A n \in Fds :
          /\ m_fdctx'[n] # <<>> => out_kernel'[n] = out_kernel[n]
          /\ out_kernel'[n] # "none" => out_kernel'[n] = out_kernel[n]
    BY <1>1, <2>1, WatchReferred DEF BuffersOK
  <2>3. QED
    BY <1>1, <1>6, <2>1, <2>2 DEF Drop, CallsOK, LocksOK, WatchOK
<1>7. ASSUME NEW t \in Threads, Execute(t) PROVE WatchOK'
  <2>1. m_fdctx' = m_fdctx /\ Referred
    BY <1>1, <1>7, ReferFacts DEF Execute
  <2>2. \A n \in Fds :
          /\ m_fdctx'[n] # <<>> => out_kernel'[n] = out_kernel[n]
          /\ out_kernel'[n] # "none" => out_kernel'[n] = out_kernel[n]
    BY <1>1, <2>1, WatchReferred DEF BuffersOK
  <2>3. QED
    BY <1>1, <1>7, <2>1, <2>2 DEF Execute, CallsOK, LocksOK, WatchOK
<1>8. ASSUME NEW t \in Threads, ExecuteDone(t) PROVE WatchOK'
  BY <1>8, <1>1 DEF ExecuteDone, CallsOK, LocksOK, WatchOK, Back
<1>9. ASSUME NEW t \in Threads, ExecuteBlocks(t) PROVE WatchOK'
  BY <1>9, <1>1 DEF ExecuteBlocks, CallsOK, LocksOK, WatchOK
<1>10. ASSUME NEW t \in Threads, ExecuteFails(t) PROVE WatchOK'
  <2>1. m_fdctx' = m_fdctx /\ Referred
    BY <1>1, <1>10, ReferFacts DEF ExecuteFails
  <2>2. \A n \in Fds :
          /\ m_fdctx'[n] # <<>> => out_kernel'[n] = out_kernel[n]
          /\ out_kernel'[n] # "none" => out_kernel'[n] = out_kernel[n]
    BY <1>1, <2>1, WatchReferred DEF BuffersOK
  <2>3. QED
    BY <1>1, <1>10, <2>1, <2>2 DEF ExecuteFails, Back, CallsOK, LocksOK, WatchOK
<1>11. ASSUME NEW t \in Threads, watch(t) PROVE WatchOK'
  BY <1>11, <1>1 DEF watch, CallsOK, LocksOK, WatchOK, add_fd, Back
<1>12. ASSUME NEW t \in Threads, NEW held \in BOOLEAN, commit(t, held) PROVE WatchOK'
  <2>1. ident[t] \in Fds /\ h[t] \in Conns /\ m_fdctx[ident[t]] \in Seq(Element)
    BY <1>1, <1>12 DEF commit, CallsOK
  <2>2. UNCHANGED <<ident, out_kernel>> /\ owner[ident[t]] = None
    BY <1>12 DEF commit
  <2>3. CASE m_fdctx[ident[t]] # <<>>
    <3>1. IsWrite(m_fdctx[ident[t]], h[t])
      BY <1>1, <1>12, <2>1 DEF BuffersOK, HeldOK
    <3>2. PICK q : q = m_fdctx[ident[t]] \o Request(h[t], TRUE) /\ q # <<>>
      BY <2>1, <3>1, WriteAppend
    <3>3. m_fdctx' = [m_fdctx EXCEPT ![ident[t]] = q] /\ UNCHANGED <<owner, pc>>
      BY <1>1, <1>12, <2>2, <2>3, <3>2 DEF commit
    <3>4. \A n \in Fds : m_fdctx'[n] # <<>> <=> m_fdctx[n] # <<>>
      <4>1. q # <<>>
        BY <3>2
      <4>2. QED
        BY <1>1, <2>1, <2>3, <3>3, <4>1
    <3>5. QED
      BY <1>1, <2>1, <2>2, <2>3, <3>3, <3>4 DEF LocksOK, WatchOK, CallsOK
  <2>4. CASE m_fdctx[ident[t]] = <<>>
    <3>1. /\ UNCHANGED m_fdctx /\ owner' = [owner EXCEPT ![ident[t]] = t]
          /\ pc' = [pc EXCEPT ![t] = "execute"]
      BY <1>12, <2>4 DEF commit
    <3>2. QED
      BY <1>1, <2>1, <2>2, <2>4, <3>1 DEF LocksOK, WatchOK, CallsOK
  <2>5. QED
    BY <2>3, <2>4
<1>13. ASSUME NEW w \in Workers, Dispatch(w) PROVE WatchOK'
  BY <1>13, <1>1 DEF Dispatch, CallsOK, LocksOK, WatchOK
<1>14. ASSUME NEW w \in Workers, CallbackReturns(w) PROVE WatchOK'
  BY <1>14, <1>1 DEF CallbackReturns, CallsOK, LocksOK, WatchOK
<1>15. ASSUME NEW w \in Workers, Reactivate(w) PROVE WatchOK'
  BY <1>15, <1>1 DEF Reactivate, CallsOK, LocksOK, WatchOK, reactivate
<1>16. ASSUME NEW w \in Workers, Remove(w) PROVE WatchOK'
  BY <1>16, <1>1 DEF Remove, CallsOK, LocksOK, WatchOK, remove
<1>17. ASSUME NEW w \in Workers, reset_handler(w) PROVE WatchOK'
  <2>1. m_fdctx' = m_fdctx /\ Referred
    BY <1>1, <1>17, ReferFacts DEF reset_handler
  <2>2. \A n \in Fds :
          /\ m_fdctx'[n] # <<>> => out_kernel'[n] = out_kernel[n]
          /\ out_kernel'[n] # "none" => out_kernel'[n] = out_kernel[n]
    BY <1>1, <2>1, WatchReferred DEF BuffersOK
  <2>3. QED
    BY <1>1, <1>17, <2>1, <2>2 DEF reset_handler, CallsOK, LocksOK, WatchOK
<1>18. ASSUME NEW w \in Workers, write_event(w) PROVE WatchOK'
  BY <1>18, <1>1 DEF write_event, CallsOK, LocksOK, WatchOK
<1>19. ASSUME NEW w \in Workers, TryWrite(w) PROVE WatchOK'
  <2>1. /\ ident[w] \in Fds /\ m_fdctx[ident[w]] \in Seq(Element) /\ m_fdctx[ident[w]] # <<>>
        /\ IsWrite(m_fdctx[ident[w]], file[ident[w]])
    BY <1>1, <1>19 DEF TryWrite, Advances, BuffersOK, CallsOK
  <2>2. PICK q : q = Tail(m_fdctx[ident[w]]) /\ IsWrite(q, file[ident[w]])
    BY <2>1, WriteTail
  <2>3. m_fdctx' = [m_fdctx EXCEPT ![ident[w]] = q] /\ Referred
    BY <1>1, <1>19, <2>2, ReferFacts DEF TryWrite
  <2>4. \A n \in Fds : IsWrite(m_fdctx'[n], file[n])
    BY <1>1, <2>1, <2>2, <2>3 DEF BuffersOK
  <2>5. \A n \in Fds :
          /\ m_fdctx'[n] # <<>> => out_kernel'[n] = out_kernel[n]
          /\ out_kernel'[n] # "none" => out_kernel'[n] = out_kernel[n]
    BY <1>1, <2>3, <2>4, WatchReferred
  <2>6. QED
    BY <1>1, <1>19, <2>1, <2>3, <2>5 DEF TryWrite, CallsOK, LocksOK, WatchOK
<1>20. ASSUME NEW w \in Workers, TryWriteReturns(w) PROVE WatchOK'
  BY <1>20, <1>1 DEF TryWriteReturns, CallsOK, LocksOK, WatchOK, Shutdown
<1>21. ASSUME NEW w \in Workers, OutReactivate(w) PROVE WatchOK'
  BY <1>21, <1>1 DEF OutReactivate, CallsOK, LocksOK, WatchOK, reactivate
<1>22. ASSUME NEW w \in Workers, OutRemove(w) PROVE WatchOK'
  BY <1>22, <1>1 DEF OutRemove, CallsOK, LocksOK, WatchOK, remove
<1>23. ASSUME NEW w \in Workers, clear(w) PROVE WatchOK'
  <2>1. CASE m_fdctx[ident[w]] # <<>>
    <3>1. /\ ident[w] \in Fds /\ m_fdctx[ident[w]] \in Seq(Element) /\ m_fdctx[ident[w]] # <<>>
          /\ IsWrite(m_fdctx[ident[w]], file[ident[w]])
      BY <1>1, <1>23, <2>1 DEF clear, BuffersOK, CallsOK
    <3>2. PICK q : q = Tail(m_fdctx[ident[w]]) /\ IsWrite(q, file[ident[w]])
      BY <3>1, WriteTail
    <3>3. m_fdctx' = [m_fdctx EXCEPT ![ident[w]] = q] /\ Referred
      BY <1>1, <1>23, <2>1, <3>2, ReferFacts DEF clear
    <3>4. \A n \in Fds : IsWrite(m_fdctx'[n], file[n])
      BY <1>1, <3>1, <3>2, <3>3 DEF BuffersOK
    <3>5. \A n \in Fds :
            /\ m_fdctx'[n] # <<>> => out_kernel'[n] = out_kernel[n]
            /\ out_kernel'[n] # "none" => out_kernel'[n] = out_kernel[n]
      BY <1>1, <3>3, <3>4, WatchReferred
    <3>6. QED
      BY <1>1, <1>23, <2>1, <3>1, <3>3, <3>5 DEF clear, CallsOK, LocksOK, WatchOK
  <2>2. CASE m_fdctx[ident[w]] = <<>>
    <3>1. /\ owner' = [owner EXCEPT ![ident[w]] = None] /\ pc' = [pc EXCEPT ![w] = "idle"]
          /\ ident' = [ident EXCEPT ![w] = None] /\ UNCHANGED <<m_fdctx, out_kernel>>
          /\ pc[w] = "clear"
      BY <1>23, <2>2 DEF clear
    <3>2. QED
      BY <1>1, <2>2, <3>1 DEF CallsOK, LocksOK, WatchOK
  <2>3. QED
    BY <2>1, <2>2
<1>24. ASSUME NEW n \in Fds, Report(n) PROVE WatchOK'
  BY <1>24, <1>1 DEF Report, CallsOK, LocksOK, WatchOK, wait
<1>25. ASSUME NEW n \in Fds, ReportOut(n) PROVE WatchOK'
  <2>1. out_kernel[n] = "armed" /\ UNCHANGED <<m_fdctx, owner, pc, ident>>
    BY <1>25 DEF ReportOut
  <2>2. out_kernel' = [m \in Fds |-> IF m = n THEN "fired" ELSE out_kernel[m]]
    BY <1>1, <1>25, KernelTypes DEF ReportOut
  <2>3. QED
    BY <1>1, <2>1, <2>2 DEF WatchOK, CallsOK
<1>26. ASSUME NEW c \in Conns, Arrive(c) PROVE WatchOK'
  BY <1>26, <1>1 DEF Arrive, CallsOK, LocksOK, WatchOK, Spend
<1>27. ASSUME NEW c \in Conns, Drain(c) PROVE WatchOK'
  BY <1>27, <1>1 DEF Drain, CallsOK, LocksOK, WatchOK
<1>28. ASSUME NEW c \in Conns, PeerReset(c) PROVE WatchOK'
  BY <1>28, <1>1 DEF PeerReset, CallsOK, LocksOK, WatchOK
<1>29. ASSUME Quiescent PROVE WatchOK'
  BY <1>29, <1>1 DEF Quiescent, CallsOK, LocksOK, WatchOK, vars
<1>30. ASSUME NEW t \in Threads, write(t) PROVE WatchOK'
  BY <1>30, <1>1 DEF write
<1>31. QED
  BY <1>2, <1>3, <1>4, <1>5, <1>6, <1>7, <1>8, <1>9, <1>10, <1>11, <1>12, <1>13, <1>14,
     <1>15, <1>16, <1>17, <1>18, <1>19, <1>20, <1>21, <1>22, <1>23, <1>24, <1>25, <1>26,
     <1>27, <1>28, <1>29, <1>30
     DEF Next, CallerStep, WorkerStep, WriteStep, Threads

(* Bytes reach the connection they were written for. *)
LEMMA RightKept ==
  ASSUME ConnInv, Next, ~bare'
  PROVE  RightPeer'
<1> USE ConnAssumption
        DEF fileVars, eventVars, sockVars, countVars, Threads, At
<1>1. /\ CallsOK /\ HeldOK /\ BuffersOK /\ RightPeer /\ ~bare
      /\ pc \in [Threads -> CallerPCs \cup WorkerPCs] /\ ident \in [Threads -> Fds \cup {None}]
      /\ h \in [Threads -> Conns \cup {None}] /\ file \in [Fds -> Conns \cup {None}]
      /\ m_fdctx \in [Fds -> Seq(Element)] /\ xfbuf \in [Threads -> Seq(Element)]
      /\ got \in [Conns -> SUBSET Conns]
  BY BareStays DEF ConnInv, TypeOK
<1>2. ASSUME NEW t \in Callers, NEW c \in Conns, Accept(t, c) PROVE RightPeer'
  BY <1>2, <1>1 DEF Accept, RightPeer
<1>3. ASSUME NEW t \in Callers, add_handler(t) PROVE RightPeer'
  BY <1>3, <1>1 DEF add_handler, RightPeer
<1>4. ASSUME NEW t \in Callers, RemoveFd(t) PROVE RightPeer'
  BY <1>4, <1>1 DEF RemoveFd, RightPeer
<1>5. ASSUME NEW t \in Callers, remove_handler(t) PROVE RightPeer'
  BY <1>5, <1>1 DEF remove_handler, RightPeer
<1>6. ASSUME NEW t \in Threads, Drop(t) PROVE RightPeer'
  BY <1>6, <1>1 DEF Drop, RightPeer
<1>7. ASSUME NEW t \in Threads, Execute(t) PROVE RightPeer'
  <2>1. /\ ident[t] \in Fds /\ xfbuf[t] \in Seq(Element) /\ xfbuf[t] # <<>>
        /\ IsWrite(xfbuf[t], file[ident[t]])
    BY <1>1, <1>7 DEF Execute, Advances, CallsOK, HeldOK, BuffersOK, AddPCs, OutPCs
  <2>2. Head(xfbuf[t]).conn = file[ident[t]]
    BY <2>1, WriteTail
  <2>3. CASE Takes(ident[t], Head(xfbuf[t]))
    <3>1. /\ file[ident[t]] \in Conns
          /\ got' = [got EXCEPT ![file[ident[t]]] = @ \cup {file[ident[t]]}]
      BY <1>1, <2>1, <2>2, <2>3 DEF Takes
    <3>2. QED
      BY <1>1, <3>1 DEF RightPeer
  <2>4. CASE UNCHANGED sockVars
    BY <1>1, <2>4 DEF RightPeer
  <2>5. QED
    BY <1>7, <2>3, <2>4 DEF Execute, Advances
<1>8. ASSUME NEW t \in Threads, ExecuteDone(t) PROVE RightPeer'
  BY <1>8, <1>1 DEF ExecuteDone, RightPeer
<1>9. ASSUME NEW t \in Threads, ExecuteBlocks(t) PROVE RightPeer'
  BY <1>9, <1>1 DEF ExecuteBlocks, RightPeer
<1>10. ASSUME NEW t \in Threads, ExecuteFails(t) PROVE RightPeer'
  BY <1>10, <1>1 DEF ExecuteFails, RightPeer, Shutdown
<1>11. ASSUME NEW t \in Threads, watch(t) PROVE RightPeer'
  BY <1>11, <1>1 DEF watch, RightPeer
<1>12. ASSUME NEW t \in Threads, NEW held \in BOOLEAN, commit(t, held) PROVE RightPeer'
  BY <1>12, <1>1 DEF commit, RightPeer
<1>13. ASSUME NEW w \in Workers, Dispatch(w) PROVE RightPeer'
  BY <1>13, <1>1 DEF Dispatch, RightPeer
<1>14. ASSUME NEW w \in Workers, CallbackReturns(w) PROVE RightPeer'
  BY <1>14, <1>1 DEF CallbackReturns, RightPeer
<1>15. ASSUME NEW w \in Workers, Reactivate(w) PROVE RightPeer'
  BY <1>15, <1>1 DEF Reactivate, RightPeer
<1>16. ASSUME NEW w \in Workers, Remove(w) PROVE RightPeer'
  BY <1>16, <1>1 DEF Remove, RightPeer
<1>17. ASSUME NEW w \in Workers, reset_handler(w) PROVE RightPeer'
  BY <1>17, <1>1 DEF reset_handler, RightPeer
<1>18. ASSUME NEW w \in Workers, write_event(w) PROVE RightPeer'
  BY <1>18, <1>1 DEF write_event, RightPeer
<1>19. ASSUME NEW w \in Workers, TryWrite(w) PROVE RightPeer'
  <2>1. /\ ident[w] \in Fds /\ m_fdctx[ident[w]] \in Seq(Element) /\ m_fdctx[ident[w]] # <<>>
        /\ IsWrite(m_fdctx[ident[w]], file[ident[w]])
    BY <1>1, <1>19 DEF TryWrite, Advances, CallsOK, HeldOK, BuffersOK, AddPCs, OutPCs
  <2>2. Head(m_fdctx[ident[w]]).conn = file[ident[w]]
    BY <2>1, WriteTail
  <2>3. CASE Takes(ident[w], Head(m_fdctx[ident[w]]))
    <3>1. /\ file[ident[w]] \in Conns
          /\ got' = [got EXCEPT ![file[ident[w]]] = @ \cup {file[ident[w]]}]
      BY <1>1, <2>1, <2>2, <2>3 DEF Takes
    <3>2. QED
      BY <1>1, <3>1 DEF RightPeer
  <2>4. CASE UNCHANGED sockVars
    BY <1>1, <2>4 DEF RightPeer
  <2>5. QED
    BY <1>19, <2>3, <2>4 DEF TryWrite, Advances
<1>20. ASSUME NEW w \in Workers, TryWriteReturns(w) PROVE RightPeer'
  BY <1>20, <1>1 DEF TryWriteReturns, RightPeer, Shutdown
<1>21. ASSUME NEW w \in Workers, OutReactivate(w) PROVE RightPeer'
  BY <1>21, <1>1 DEF OutReactivate, RightPeer
<1>22. ASSUME NEW w \in Workers, OutRemove(w) PROVE RightPeer'
  BY <1>22, <1>1 DEF OutRemove, RightPeer
<1>23. ASSUME NEW w \in Workers, clear(w) PROVE RightPeer'
  BY <1>23, <1>1 DEF clear, RightPeer
<1>24. ASSUME NEW n \in Fds, Report(n) PROVE RightPeer'
  BY <1>24, <1>1 DEF Report, RightPeer
<1>25. ASSUME NEW n \in Fds, ReportOut(n) PROVE RightPeer'
  BY <1>25, <1>1 DEF ReportOut, RightPeer
<1>26. ASSUME NEW c \in Conns, Arrive(c) PROVE RightPeer'
  BY <1>26, <1>1 DEF Arrive, RightPeer
<1>27. ASSUME NEW c \in Conns, Drain(c) PROVE RightPeer'
  BY <1>27, <1>1 DEF Drain, RightPeer
<1>28. ASSUME NEW c \in Conns, PeerReset(c) PROVE RightPeer'
  BY <1>28, <1>1 DEF PeerReset, RightPeer
<1>29. ASSUME Quiescent PROVE RightPeer'
  BY <1>29, <1>1 DEF Quiescent, RightPeer, vars
<1>30. ASSUME NEW t \in Threads, write(t) PROVE RightPeer'
  BY <1>30, <1>1 DEF write
<1>31. QED
  BY <1>2, <1>3, <1>4, <1>5, <1>6, <1>7, <1>8, <1>9, <1>10, <1>11, <1>12, <1>13, <1>14,
     <1>15, <1>16, <1>17, <1>18, <1>19, <1>20, <1>21, <1>22, <1>23, <1>24, <1>25, <1>26,
     <1>27, <1>28, <1>29, <1>30
     DEF Next, CallerStep, WorkerStep, WriteStep, Threads

-----------------------------------------------------------------------------
(* Events and handlers.                                                    *)

(* An event or a worker, while a number is disarmed. *)
LEMMA EventsKept ==
  ASSUME ConnInv, Next
  PROVE  EventsOK'
<1> USE ConnAssumption
        DEF fileVars, eventVars, sockVars, countVars, Threads, At, HandlerPCs, OutPCs, AddPCs,
            CallerPCs, WorkerPCs
<1>1. /\ TypeOK /\ CallsOK /\ HeldOK /\ EventsOK
      /\ pc \in [Threads -> CallerPCs \cup WorkerPCs] /\ ident \in [Threads -> Fds \cup {None}]
      /\ h \in [Threads -> Conns \cup {None}] /\ file \in [Fds -> Conns \cup {None}]
      /\ m_state \in [Fds -> Conns \cup {None}] /\ conn \in [Conns -> {"new", "up", "removed"}]
      /\ m_kernel \in [Fds -> Interest] /\ events \in [Fds -> Nat] /\ outside \in BOOLEAN
  BY DEF ConnInv, TypeOK
<1>2. ASSUME NEW t \in Callers, NEW c \in Conns, Accept(t, c) PROVE EventsOK'
  BY <1>2, <1>1 DEF Accept, CallsOK, HeldOK, EventsOK
<1>3. ASSUME NEW t \in Callers, add_handler(t) PROVE EventsOK'
  <2>1. CASE pc[t] = "set_handler"
    <3>1. m_state' = [m_state EXCEPT ![ident[t]] = h[t]] /\ h' = h /\ Referred
      BY <1>1, <1>3, <2>1, ReferFacts DEF add_handler
    <3>2. QED
      BY <1>1, <1>3, <2>1, <3>1 DEF add_handler, CallsOK, HeldOK, EventsOK, Referred, Open, Closed
  <2>2. CASE pc[t] = "add_fd"
    BY <1>1, <1>3, <2>2 DEF add_handler, add_fd, CallsOK, HeldOK, EventsOK
  <2>3. QED
    BY <1>3, <2>1, <2>2 DEF add_handler
<1>4. ASSUME NEW t \in Callers, RemoveFd(t) PROVE EventsOK'
  BY <1>4, <1>1 DEF RemoveFd, CallsOK, HeldOK, EventsOK, remove
<1>5. ASSUME NEW t \in Callers, remove_handler(t) PROVE EventsOK'
  BY <1>5 DEF remove_handler, EventsOK
<1>6. ASSUME NEW t \in Threads, Drop(t) PROVE EventsOK'
  <2>1. m_state' = m_state /\ h' = [h EXCEPT ![t] = None] /\ Referred
    BY <1>1, <1>6, ReferFacts DEF Drop
  <2>2. QED
    BY <1>1, <1>6, <2>1 DEF Drop, CallsOK, HeldOK, EventsOK, Referred, Open, Closed
<1>7. ASSUME NEW t \in Threads, Execute(t) PROVE EventsOK'
  <2>1. m_state' = m_state /\ h' = h /\ Referred
    BY <1>1, <1>7, ReferFacts DEF Execute
  <2>2. QED
    BY <1>1, <1>7, <2>1 DEF Execute, CallsOK, HeldOK, EventsOK, Referred, Open, Closed
<1>8. ASSUME NEW t \in Threads, ExecuteDone(t) PROVE EventsOK'
  BY <1>8, <1>1 DEF ExecuteDone, CallsOK, HeldOK, EventsOK, Back
<1>9. ASSUME NEW t \in Threads, ExecuteBlocks(t) PROVE EventsOK'
  BY <1>9, <1>1 DEF ExecuteBlocks, CallsOK, HeldOK, EventsOK
<1>10. ASSUME NEW t \in Threads, ExecuteFails(t) PROVE EventsOK'
  <2>1. m_state' = m_state /\ h' = h /\ Referred
    BY <1>1, <1>10, ReferFacts DEF ExecuteFails
  <2>2. QED
    BY <1>1, <1>10, <2>1 DEF ExecuteFails, Back, CallsOK, HeldOK, EventsOK, Referred, Open, Closed
<1>11. ASSUME NEW t \in Threads, watch(t) PROVE EventsOK'
  BY <1>11, <1>1 DEF watch, CallsOK, HeldOK, EventsOK, add_fd, Back
<1>12. ASSUME NEW t \in Threads, NEW held \in BOOLEAN, commit(t, held) PROVE EventsOK'
  <2>1. UNCHANGED <<m_state, h, m_kernel, events, ident, conn, outside>>
    BY <1>12 DEF commit, Spend
  <2>2. pc' = pc \/ pc' = [pc EXCEPT ![t] = "execute"]
    BY <1>12 DEF commit
  <2>3. pc[t] \in {"callback", "using"}
    BY <1>12 DEF commit
  <2>4. QED
    BY <1>1, <2>1, <2>2, <2>3 DEF EventsOK, CallsOK
<1>13. ASSUME NEW w \in Workers, Dispatch(w) PROVE EventsOK'
  BY <1>13, <1>1 DEF Dispatch, CallsOK, HeldOK, EventsOK
<1>14. ASSUME NEW w \in Workers, CallbackReturns(w) PROVE EventsOK'
  <2>1. UNCHANGED <<m_state, h, m_kernel, events, ident, outside>> /\ pc[w] = "callback"
    BY <1>14 DEF CallbackReturns
  <2>2. CASE pc' = [pc EXCEPT ![w] = "reactivate"] /\ UNCHANGED conn
    BY <1>1, <2>1, <2>2 DEF EventsOK, CallsOK
  <2>3. CASE pc' = [pc EXCEPT ![w] = "remove"] /\ conn' = [conn EXCEPT ![h[w]] = "removed"]
    <3>1. h[w] \in Conns
      BY <1>1, <2>1 DEF CallsOK
    <3>2. conn'[h[w]] = "removed" /\ \A d \in Conns : conn[d] = "removed" => conn'[d] = "removed"
      BY <1>1, <2>3, <3>1
    <3>3. \A v \in Workers : h[v] # None => h[v] \in Conns
      BY <1>1
    <3>4. QED
      BY <1>1, <2>1, <2>3, <3>2, <3>3 DEF EventsOK, CallsOK
  <2>4. QED
    BY <1>14, <2>2, <2>3 DEF CallbackReturns
<1>15. ASSUME NEW w \in Workers, Reactivate(w) PROVE EventsOK'
  BY <1>15, <1>1 DEF Reactivate, CallsOK, HeldOK, EventsOK, reactivate
<1>16. ASSUME NEW w \in Workers, Remove(w) PROVE EventsOK'
  BY <1>16, <1>1 DEF Remove, CallsOK, HeldOK, EventsOK, remove
<1>17. ASSUME NEW w \in Workers, reset_handler(w) PROVE EventsOK'
  <2>1. m_state' = [m_state EXCEPT ![ident[w]] = None] /\ h' = h /\ Referred
    BY <1>1, <1>17, ReferFacts DEF reset_handler
  <2>2. QED
    BY <1>1, <1>17, <2>1 DEF reset_handler, CallsOK, HeldOK, EventsOK, Referred, Open, Closed
<1>18. ASSUME NEW w \in Workers, write_event(w) PROVE EventsOK'
  BY <1>18, <1>1 DEF write_event, CallsOK, HeldOK, EventsOK
<1>19. ASSUME NEW w \in Workers, TryWrite(w) PROVE EventsOK'
  <2>1. m_state' = m_state /\ h' = h /\ Referred
    BY <1>1, <1>19, ReferFacts DEF TryWrite
  <2>2. QED
    BY <1>1, <1>19, <2>1 DEF TryWrite, CallsOK, HeldOK, EventsOK, Referred, Open, Closed
<1>20. ASSUME NEW w \in Workers, TryWriteReturns(w) PROVE EventsOK'
  <2>1. UNCHANGED <<m_state, h, m_kernel, events, ident, conn, outside>> /\ pc[w] = "try_write"
    BY <1>20 DEF TryWriteReturns
  <2>2. \E s \in OutPCs : pc' = [pc EXCEPT ![w] = s]
    BY <1>20 DEF TryWriteReturns
  <2>3. QED
    BY <1>1, <2>1, <2>2 DEF EventsOK, CallsOK
<1>21. ASSUME NEW w \in Workers, OutReactivate(w) PROVE EventsOK'
  BY <1>21, <1>1 DEF OutReactivate, CallsOK, HeldOK, EventsOK, reactivate
<1>22. ASSUME NEW w \in Workers, OutRemove(w) PROVE EventsOK'
  BY <1>22, <1>1 DEF OutRemove, CallsOK, HeldOK, EventsOK, remove
<1>23. ASSUME NEW w \in Workers, clear(w) PROVE EventsOK'
  <2>1. CASE m_fdctx[ident[w]] # <<>>
    <3>1. m_state' = m_state /\ h' = h /\ Referred
      BY <1>1, <1>23, <2>1, ReferFacts DEF clear
    <3>2. QED
      BY <1>1, <1>23, <2>1, <3>1 DEF clear, CallsOK, HeldOK, EventsOK, Referred, Open, Closed
  <2>2. CASE m_fdctx[ident[w]] = <<>>
    <3>1. /\ pc' = [pc EXCEPT ![w] = "idle"] /\ ident' = [ident EXCEPT ![w] = None]
          /\ UNCHANGED <<m_state, h, m_kernel, events, conn, outside>>
      BY <1>23, <2>2 DEF clear
    <3>2. QED
      BY <1>1, <3>1 DEF EventsOK, CallsOK
  <2>3. QED
    BY <2>1, <2>2
<1>24. ASSUME NEW n \in Fds, Report(n) PROVE EventsOK'
  <2>1. m_kernel[n] = "armed" /\ UNCHANGED <<m_state, h, pc, ident, conn, outside>>
    BY <1>24 DEF Report
  <2>2. m_kernel' = [m \in Fds |-> IF m = n THEN "fired" ELSE m_kernel[m]]
    BY <1>1, <1>24, KernelTypes DEF Report
  <2>3. events' = [events EXCEPT ![n] = @ + 1]
    BY <1>24 DEF Report
  <2>4. QED
    BY <1>1, <2>1, <2>2, <2>3 DEF EventsOK, CallsOK
<1>25. ASSUME NEW n \in Fds, ReportOut(n) PROVE EventsOK'
  BY <1>25, <1>1 DEF ReportOut, CallsOK, HeldOK, EventsOK, wait
<1>26. ASSUME NEW c \in Conns, Arrive(c) PROVE EventsOK'
  BY <1>26, <1>1 DEF Arrive, CallsOK, HeldOK, EventsOK, Spend
<1>27. ASSUME NEW c \in Conns, Drain(c) PROVE EventsOK'
  BY <1>27, <1>1 DEF Drain, CallsOK, HeldOK, EventsOK
<1>28. ASSUME NEW c \in Conns, PeerReset(c) PROVE EventsOK'
  BY <1>28, <1>1 DEF PeerReset, CallsOK, HeldOK, EventsOK
<1>29. ASSUME Quiescent PROVE EventsOK'
  BY <1>29, <1>1 DEF Quiescent, CallsOK, HeldOK, EventsOK, vars
<1>30. ASSUME NEW t \in Threads, write(t) PROVE EventsOK'
  <2>1. /\ UNCHANGED <<m_state, h, m_kernel, events, ident, conn, outside>> /\ pc[t] \in {"callback", "using"}
        /\ ident[t] \in Fds /\ owner[ident[t]] = None
    BY <1>30, <1>1, WriteFacts
  <2>2. CASE UNCHANGED <<owner, pc>>
    BY <1>1, <2>1, <2>2 DEF EventsOK
  <2>3. CASE owner' = [owner EXCEPT ![ident[t]] = t] /\ pc' = [pc EXCEPT ![t] = "watch"]
    BY <1>1, <2>1, <2>3 DEF EventsOK, CallsOK
  <2>4. QED
    BY <1>30, <1>1, WriteFacts, <2>2, <2>3
<1>31. QED
  BY <1>2, <1>3, <1>4, <1>5, <1>6, <1>7, <1>8, <1>9, <1>10, <1>11, <1>12, <1>13, <1>14,
     <1>15, <1>16, <1>17, <1>18, <1>19, <1>20, <1>21, <1>22, <1>23, <1>24, <1>25, <1>26,
     <1>27, <1>28, <1>29, <1>30
     DEF Next, CallerStep, WorkerStep, WriteStep, Threads

(* A step that drops references, of no connection that is up. *)
LEMMA HandlersStay ==
  ASSUME TypeOK, HeldOK, HandlerKept, Referred, outside' = outside, conn' = conn,
         \A c \in Conns : Adding(c) => Adding(c)',
         \A n \in Fds : m_state'[n] = m_state[n] \/ conn[m_state[n]] = "removed"
  PROVE  HandlerKept'
<1>1. SUFFICES ASSUME ~outside, NEW c \in Conns, conn[c] = "up", ~Adding(c)'
               PROVE  \E n \in Fds : file'[n] = c /\ m_state'[n] = c /\ m_kernel'[n] # "none"
  BY DEF HandlerKept
<1>2. PICK n \in Fds : file[n] = c /\ m_state[n] = c /\ m_kernel[n] # "none"
  BY <1>1 DEF HandlerKept
<1>3. m_state'[n] = c
  BY <1>1, <1>2
<1>4. Open(n)
  BY <1>2, <1>3 DEF Referred, Closed
<1>5. QED
  BY <1>2, <1>3, <1>4 DEF Open

(* A handler stays set and registered until it is removed. *)
LEMMA HandlersKept ==
  ASSUME ConnInv, Next
  PROVE  HandlerKept'
<1> USE ConnAssumption
        DEF fileVars, eventVars, sockVars, countVars, Threads, At, HandlerPCs, OutPCs, AddPCs,
            CallerPCs, WorkerPCs
<1>1. /\ TypeOK /\ CallsOK /\ HeldOK /\ EventsOK /\ HandlerKept
      /\ pc \in [Threads -> CallerPCs \cup WorkerPCs] /\ ident \in [Threads -> Fds \cup {None}]
      /\ h \in [Threads -> Conns \cup {None}] /\ file \in [Fds -> Conns \cup {None}]
      /\ m_state \in [Fds -> Conns \cup {None}] /\ conn \in [Conns -> {"new", "up", "removed"}]
      /\ m_kernel \in [Fds -> Interest] /\ events \in [Fds -> Nat] /\ outside \in BOOLEAN
  BY DEF ConnInv, TypeOK
<1>2. ASSUME NEW t \in Callers, NEW c \in Conns, Accept(t, c) PROVE HandlerKept'
  BY <1>2, <1>1 DEF Accept, CallsOK, HeldOK, EventsOK, HandlerKept, Adding
<1>3. ASSUME NEW t \in Callers, add_handler(t) PROVE HandlerKept'
  <2>1. CASE pc[t] = "set_handler"
    <3>1. m_state' = [m_state EXCEPT ![ident[t]] = h[t]] /\ h' = h /\ Referred
      BY <1>1, <1>3, <2>1, ReferFacts DEF add_handler
    <3>2. outside' = outside /\ conn' = conn /\ pc' = [pc EXCEPT ![t] = "add_fd"]
      BY <1>3, <2>1 DEF add_handler
    <3>3. \A d \in Conns : Adding(d) => Adding(d)'
      BY <1>1, <2>1, <3>1, <3>2 DEF Adding
    <3>4. ident[t] \in Fds /\ file[ident[t]] = h[t] /\ h[t] \in Conns
      BY <1>1, <2>1 DEF CallsOK, HeldOK
    <3>5. CASE outside
      BY <3>2, <3>5 DEF HandlerKept
    <3>6. CASE ~outside
      <4>1. SUFFICES ASSUME NEW d \in Conns, conn[d] = "up", ~Adding(d)'
                     PROVE  \E n \in Fds : file'[n] = d /\ m_state'[n] = d /\ m_kernel'[n] # "none"
        BY <3>2 DEF HandlerKept
      <4>2. PICK n \in Fds : file[n] = d /\ m_state[n] = d /\ m_kernel[n] # "none"
        BY <1>1, <3>3, <3>6, <4>1 DEF HandlerKept
      <4>3. m_state'[n] = d
        BY <1>1, <3>1, <3>4, <4>2
      <4>4. Open(n)
        BY <3>1, <4>2, <4>3 DEF Referred, Closed
      <4>5. QED
        BY <4>2, <4>3, <4>4 DEF Open
    <3>7. QED
      BY <3>5, <3>6
  <2>2. CASE pc[t] = "add_fd"
    <3>1. /\ m_kernel' = add_fd(m_kernel, ident[t]) /\ pc' = [pc EXCEPT ![t] = "using"]
          /\ UNCHANGED <<file, m_state, h, conn, outside>>
      BY <1>3, <2>2 DEF add_handler
    <3>2. ident[t] \in Fds /\ file[ident[t]] = h[t] /\ h[t] # None
      BY <1>1, <2>2 DEF CallsOK, HeldOK
    <3>3. \A n \in Fds : m_kernel[n] # "none" => m_kernel'[n] # "none"
      BY <1>1, <3>1 DEF add_fd
    <3>4. m_kernel'[ident[t]] # "none"
      BY <1>1, <3>1, <3>2 DEF add_fd
    <3>5. \A d \in Conns : Adding(d) => Adding(d)' \/ d = h[t]
      BY <1>1, <3>1 DEF Adding
    <3>6. ~outside => m_state[ident[t]] = h[t]
      BY <1>1, <2>2 DEF EventsOK
    <3>7. QED
      BY <1>1, <3>1, <3>2, <3>3, <3>4, <3>5, <3>6 DEF HandlerKept
  <2>3. QED
    BY <1>3, <2>1, <2>2 DEF add_handler
<1>4. ASSUME NEW t \in Callers, RemoveFd(t) PROVE HandlerKept'
  BY <1>4, <1>1 DEF RemoveFd, CallsOK, HeldOK, EventsOK, HandlerKept, Adding, remove
<1>5. ASSUME NEW t \in Callers, remove_handler(t) PROVE HandlerKept'
  BY <1>5 DEF remove_handler, HandlerKept
<1>6. ASSUME NEW t \in Threads, Drop(t) PROVE HandlerKept'
  <2>1. m_state' = m_state /\ h' = [h EXCEPT ![t] = None] /\ Referred
    BY <1>1, <1>6, ReferFacts DEF Drop
  <2>2. outside' = outside /\ conn' = conn
    BY <1>6 DEF Drop
  <2>3. \A d \in Conns : Adding(d) => Adding(d)'
    BY <1>1, <1>6, <2>1 DEF Drop, Adding
  <2>4. outside \/ \A n \in Fds : m_state'[n] = m_state[n] \/ conn[m_state[n]] = "removed"
    BY <2>1
  <2>5. CASE outside
    BY <2>2, <2>5 DEF HandlerKept
  <2>6. CASE ~outside
    BY <1>1, <2>1, <2>2, <2>3, <2>4, <2>6, HandlersStay
  <2>7. QED
    BY <2>5, <2>6
<1>7. ASSUME NEW t \in Threads, Execute(t) PROVE HandlerKept'
  <2>1. m_state' = m_state /\ h' = h /\ Referred
    BY <1>1, <1>7, ReferFacts DEF Execute
  <2>2. outside' = outside /\ conn' = conn
    BY <1>7 DEF Execute
  <2>3. \A d \in Conns : Adding(d) => Adding(d)'
    BY <1>1, <1>7, <2>1 DEF Execute, Adding
  <2>4. outside \/ \A n \in Fds : m_state'[n] = m_state[n] \/ conn[m_state[n]] = "removed"
    BY <2>1
  <2>5. CASE outside
    BY <2>2, <2>5 DEF HandlerKept
  <2>6. CASE ~outside
    BY <1>1, <2>1, <2>2, <2>3, <2>4, <2>6, HandlersStay
  <2>7. QED
    BY <2>5, <2>6
<1>8. ASSUME NEW t \in Threads, ExecuteDone(t) PROVE HandlerKept'
  BY <1>8, <1>1 DEF ExecuteDone, CallsOK, HeldOK, EventsOK, HandlerKept, Adding, Back
<1>9. ASSUME NEW t \in Threads, ExecuteBlocks(t) PROVE HandlerKept'
  BY <1>9, <1>1 DEF ExecuteBlocks, CallsOK, HeldOK, EventsOK, HandlerKept, Adding
<1>10. ASSUME NEW t \in Threads, ExecuteFails(t) PROVE HandlerKept'
  <2>1. m_state' = m_state /\ h' = h /\ Referred
    BY <1>1, <1>10, ReferFacts DEF ExecuteFails
  <2>2. outside' = outside /\ conn' = conn
    BY <1>10 DEF ExecuteFails
  <2>3. \A d \in Conns : Adding(d) => Adding(d)'
    BY <1>1, <1>10, <2>1 DEF ExecuteFails, Back, Adding
  <2>4. outside \/ \A n \in Fds : m_state'[n] = m_state[n] \/ conn[m_state[n]] = "removed"
    BY <2>1
  <2>5. CASE outside
    BY <2>2, <2>5 DEF HandlerKept
  <2>6. CASE ~outside
    BY <1>1, <2>1, <2>2, <2>3, <2>4, <2>6, HandlersStay
  <2>7. QED
    BY <2>5, <2>6
<1>11. ASSUME NEW t \in Threads, watch(t) PROVE HandlerKept'
  BY <1>11, <1>1 DEF watch, CallsOK, HeldOK, EventsOK, HandlerKept, Adding, add_fd, Back
<1>12. ASSUME NEW t \in Threads, NEW held \in BOOLEAN, commit(t, held) PROVE HandlerKept'
  <2>1. UNCHANGED <<file, m_state, h, m_kernel, conn, outside>>
    BY <1>12 DEF commit, Spend
  <2>2. (pc' = pc \/ pc' = [pc EXCEPT ![t] = "execute"]) /\ pc[t] \in {"callback", "using"}
    BY <1>12 DEF commit
  <2>3. \A d \in Conns : Adding(d) => Adding(d)'
    BY <1>1, <2>1, <2>2 DEF Adding
  <2>4. QED
    BY <1>1, <2>1, <2>3 DEF HandlerKept
<1>13. ASSUME NEW w \in Workers, Dispatch(w) PROVE HandlerKept'
  BY <1>13, <1>1 DEF Dispatch, CallsOK, HeldOK, EventsOK, HandlerKept, Adding
<1>14. ASSUME NEW w \in Workers, CallbackReturns(w) PROVE HandlerKept'
  <2>1. UNCHANGED <<file, m_state, h, m_kernel, outside>> /\ pc[w] = "callback"
    BY <1>14 DEF CallbackReturns
  <2>2. \E s \in {"reactivate", "remove"} : pc' = [pc EXCEPT ![w] = s]
    BY <1>14 DEF CallbackReturns
  <2>3. \A d \in Conns : Adding(d) => Adding(d)'
    BY <1>1, <2>1, <2>2 DEF Adding
  <2>4. h[w] \in Conns
    BY <1>1, <2>1 DEF CallsOK
  <2>5. \A d \in Conns : conn'[d] = "up" => conn[d] = "up"
    BY <1>1, <1>14, <2>4 DEF CallbackReturns
  <2>6. QED
    BY <1>1, <2>1, <2>3, <2>5 DEF HandlerKept
<1>15. ASSUME NEW w \in Workers, Reactivate(w) PROVE HandlerKept'
  BY <1>15, <1>1 DEF Reactivate, CallsOK, HeldOK, EventsOK, HandlerKept, Adding, reactivate
<1>16. ASSUME NEW w \in Workers, Remove(w) PROVE HandlerKept'
  BY <1>16, <1>1 DEF Remove, CallsOK, HeldOK, EventsOK, HandlerKept, Adding, remove
<1>17. ASSUME NEW w \in Workers, reset_handler(w) PROVE HandlerKept'
  <2>1. m_state' = [m_state EXCEPT ![ident[w]] = None] /\ h' = h /\ Referred
    BY <1>1, <1>17, ReferFacts DEF reset_handler
  <2>2. outside' = outside /\ conn' = conn
    BY <1>17 DEF reset_handler
  <2>3. \A d \in Conns : Adding(d) => Adding(d)'
    BY <1>1, <1>17, <2>1 DEF reset_handler, Adding
  <2>4. outside \/ \A n \in Fds : m_state'[n] = m_state[n] \/ conn[m_state[n]] = "removed"
    BY <1>1, <1>17, <2>1 DEF reset_handler, EventsOK
  <2>5. CASE outside
    BY <2>2, <2>5 DEF HandlerKept
  <2>6. CASE ~outside
    BY <1>1, <2>1, <2>2, <2>3, <2>4, <2>6, HandlersStay
  <2>7. QED
    BY <2>5, <2>6
<1>18. ASSUME NEW w \in Workers, write_event(w) PROVE HandlerKept'
  BY <1>18, <1>1 DEF write_event, CallsOK, HeldOK, EventsOK, HandlerKept, Adding
<1>19. ASSUME NEW w \in Workers, TryWrite(w) PROVE HandlerKept'
  <2>1. m_state' = m_state /\ h' = h /\ Referred
    BY <1>1, <1>19, ReferFacts DEF TryWrite
  <2>2. outside' = outside /\ conn' = conn
    BY <1>19 DEF TryWrite
  <2>3. \A d \in Conns : Adding(d) => Adding(d)'
    BY <1>1, <1>19, <2>1 DEF TryWrite, Adding
  <2>4. outside \/ \A n \in Fds : m_state'[n] = m_state[n] \/ conn[m_state[n]] = "removed"
    BY <2>1
  <2>5. CASE outside
    BY <2>2, <2>5 DEF HandlerKept
  <2>6. CASE ~outside
    BY <1>1, <2>1, <2>2, <2>3, <2>4, <2>6, HandlersStay
  <2>7. QED
    BY <2>5, <2>6
<1>20. ASSUME NEW w \in Workers, TryWriteReturns(w) PROVE HandlerKept'
  BY <1>20, <1>1 DEF TryWriteReturns, CallsOK, HeldOK, EventsOK, HandlerKept, Adding, Shutdown
<1>21. ASSUME NEW w \in Workers, OutReactivate(w) PROVE HandlerKept'
  BY <1>21, <1>1 DEF OutReactivate, CallsOK, HeldOK, EventsOK, HandlerKept, Adding, reactivate
<1>22. ASSUME NEW w \in Workers, OutRemove(w) PROVE HandlerKept'
  BY <1>22, <1>1 DEF OutRemove, CallsOK, HeldOK, EventsOK, HandlerKept, Adding, remove
<1>23. ASSUME NEW w \in Workers, clear(w) PROVE HandlerKept'
  <2>1. outside' = outside /\ conn' = conn
    BY <1>23 DEF clear
  <2>2. CASE m_fdctx[ident[w]] # <<>>
    <3>1. m_state' = m_state /\ h' = h /\ Referred
      BY <1>1, <1>23, <2>2, ReferFacts DEF clear
    <3>2. pc' = pc
      BY <1>23, <2>2 DEF clear
    <3>3. \A d \in Conns : Adding(d) => Adding(d)'
      BY <3>1, <3>2 DEF Adding
    <3>4. QED
      BY <1>1, <2>1, <3>1, <3>3, HandlersStay
  <2>3. CASE m_fdctx[ident[w]] = <<>>
    <3>1. pc' = [pc EXCEPT ![w] = "idle"] /\ UNCHANGED <<file, m_state, m_kernel, h>>
      BY <1>23, <2>3 DEF clear
    <3>2. \A d \in Conns : Adding(d) => Adding(d)'
      BY <1>1, <3>1 DEF Adding
    <3>3. QED
      BY <1>1, <2>1, <3>1, <3>2 DEF HandlerKept
  <2>4. QED
    BY <2>2, <2>3
<1>24. ASSUME NEW n \in Fds, Report(n) PROVE HandlerKept'
  <2>1. UNCHANGED <<file, m_state, h, pc, conn, outside>>
    BY <1>24 DEF Report
  <2>2. m_kernel' = [m \in Fds |-> IF m = n THEN "fired" ELSE m_kernel[m]]
    BY <1>1, <1>24, KernelTypes DEF Report
  <2>3. QED
    BY <1>1, <2>1, <2>2 DEF HandlerKept, Adding
<1>25. ASSUME NEW n \in Fds, ReportOut(n) PROVE HandlerKept'
  BY <1>25, <1>1 DEF ReportOut, CallsOK, HeldOK, EventsOK, HandlerKept, Adding, wait
<1>26. ASSUME NEW c \in Conns, Arrive(c) PROVE HandlerKept'
  BY <1>26, <1>1 DEF Arrive, CallsOK, HeldOK, EventsOK, HandlerKept, Adding, Spend
<1>27. ASSUME NEW c \in Conns, Drain(c) PROVE HandlerKept'
  BY <1>27, <1>1 DEF Drain, CallsOK, HeldOK, EventsOK, HandlerKept, Adding
<1>28. ASSUME NEW c \in Conns, PeerReset(c) PROVE HandlerKept'
  BY <1>28, <1>1 DEF PeerReset, CallsOK, HeldOK, EventsOK, HandlerKept, Adding
<1>29. ASSUME Quiescent PROVE HandlerKept'
  BY <1>29, <1>1 DEF Quiescent, CallsOK, HeldOK, EventsOK, HandlerKept, Adding, vars
<1>30. ASSUME NEW t \in Threads, write(t) PROVE HandlerKept'
  <2>1. /\ UNCHANGED <<file, m_state, h, m_kernel, conn, outside>> /\ pc[t] \in {"callback", "using"}
        /\ (pc' = pc \/ pc' = [pc EXCEPT ![t] = "watch"])
    BY <1>30, <1>1, WriteFacts
  <2>2. \A d \in Conns : Adding(d) => Adding(d)'
    BY <1>1, <2>1 DEF Adding
  <2>3. QED
    BY <1>1, <2>1, <2>2 DEF HandlerKept
<1>31. QED
  BY <1>2, <1>3, <1>4, <1>5, <1>6, <1>7, <1>8, <1>9, <1>10, <1>11, <1>12, <1>13, <1>14,
     <1>15, <1>16, <1>17, <1>18, <1>19, <1>20, <1>21, <1>22, <1>23, <1>24, <1>25, <1>26,
     <1>27, <1>28, <1>29, <1>30
     DEF Next, CallerStep, WorkerStep, WriteStep, Threads

-----------------------------------------------------------------------------
(* The theorems.                                                           *)

(* The invariant holds before the first connection. *)
LEMMA ConnInit ==
  ASSUME Init
  PROVE  ConnInv
<1> USE ConnAssumption
<1>1. <<>> \in Seq(Element)
  OBVIOUS
<1>2. TypeOK
  BY <1>1 DEF Init, TypeOK, Interest, CallerPCs, WorkerPCs
<1>3. CallsOK
  BY DEF Init, CallsOK, CallerPCs, WorkerPCs, Threads, AddPCs, OutPCs, HandlerPCs
<1>4. HeldOK
  BY DEF Init, HeldOK, Threads
<1>5. BuffersOK
  BY WriteEmpty DEF Init, BuffersOK
<1>6. LocksOK /\ WatchOK
  BY DEF Init, LocksOK, WatchOK, LockedPCs, OutPCs
<1>7. EventsOK
  BY DEF Init, EventsOK, Threads, HandlerPCs, AddPCs
<1>8. RightPeer /\ HandlerKept
  BY DEF Init, RightPeer, HandlerKept
<1>9. QED
  BY <1>2, <1>3, <1>4, <1>5, <1>6, <1>7, <1>8 DEF ConnInv

(* ConnInv is an invariant of the system, for any number of connections,   *)
(* descriptor numbers, workers and callers: whatever is found by number    *)
(* belongs to the connection that has the number, what is queued under it  *)
(* unless something was written that holds no handler.                     *)
THEOREM ConnCorrect == Spec => []ConnInv
<1>1. Init => ConnInv
  BY ConnInit
<1>2. ConnInv /\ [Next]_vars => ConnInv'
  <2>1. SUFFICES ASSUME ConnInv, [Next]_vars PROVE ConnInv'
    OBVIOUS
  <2>2. CASE Next
    <3>1. TypeOK' /\ CallsOK' /\ HeldOK' /\ LocksOK' /\ EventsOK' /\ HandlerKept'
      BY <2>1, <2>2, TypesKept, CallsKept, HeldKept, LocksKept, EventsKept, HandlersKept
    <3>2. ~bare' => BuffersOK' /\ WatchOK' /\ RightPeer'
      BY <2>1, <2>2, BuffersKept, WatchKept, RightKept
    <3>3. bare' => RightPeer'
      BY DEF RightPeer
    <3>4. QED
      BY <3>1, <3>2, <3>3 DEF ConnInv
  <2>3. CASE UNCHANGED vars
    <3>1. TypeOK' /\ CallsOK' /\ HeldOK'
      BY <2>1, <2>3
         DEF ConnInv, TypeOK, CallsOK, HeldOK, vars, fileVars, eventVars, sockVars, countVars
    <3>2. LocksOK' /\ (~bare' => BuffersOK' /\ WatchOK')
      BY <2>1, <2>3
         DEF ConnInv, BuffersOK, LocksOK, WatchOK, vars, fileVars, eventVars, sockVars, countVars
    <3>3. EventsOK' /\ RightPeer' /\ HandlerKept'
      BY <2>1, <2>3
         DEF ConnInv, EventsOK, RightPeer, HandlerKept, Adding, vars, fileVars, eventVars, sockVars,
             countVars
    <3>4. QED
      BY <3>1, <3>2, <3>3 DEF ConnInv
  <2>4. QED
    BY <2>1, <2>2, <2>3
<1>3. QED
  BY <1>1, <1>2, PTL DEF Spec

(* As long as every write has a finalizer that holds its handler, the      *)
(* bytes that execute and try_write give to a number reach the connection  *)
(* they were committed for, however often the number was closed and        *)
(* accepted again meanwhile.                                               *)
THEOREM AlwaysRightPeer == Spec => []RightPeer
<1>1. ConnInv => RightPeer
  BY DEF ConnInv
<1>2. QED
  BY ConnCorrect, <1>1, PTL

(* As long as every write has a finalizer that holds its handler, ~handler *)
(* leaves no queue behind for the next connection with the number, and a   *)
(* queue that nobody holds is watched by out's kernel.                     *)
THEOREM QueueAlwaysCurrent == Spec => []QueueCurrent
<1>1. ConnInv => QueueCurrent
  BY DEF ConnInv, BuffersOK, IsWrite, WatchOK, QueueCurrent
<1>2. QED
  BY ConnCorrect, <1>1, PTL

(* As long as remove_handler is not called from outside, a handler that    *)
(* add_handler added stays in m_state and in the loop's kernel until its   *)
(* own callback has it removed.                                            *)
THEOREM HandlerAlwaysKept == Spec => []HandlerKept
<1>1. ConnInv => HandlerKept
  BY DEF ConnInv
<1>2. QED
  BY ConnCorrect, <1>1, PTL

=============================================================================
