---------------------------- MODULE WavyOutProofs ----------------------------
(***************************************************************************)
(* The write path, for any number of descriptors, callers and workers.     *)
(* First the books of the watched descriptors: WatchInv is inductive, and  *)
(* with it an event is served once, what is queued is watched, and flush   *)
(* is sound.  Then the stream of a descriptor: StreamInv is inductive, its *)
(* bytes and finalizers come in order and none is lost, and the write path *)
(* implements OutStream.                                                   *)
(***************************************************************************)
EXTENDS WavyOut, TLAPS, SequenceTheorems, FiniteSetTheorems, WellFoundedInduction

-----------------------------------------------------------------------------
(* Transfer buffers.                                                       *)

(* The head and the rest of a buffer that is not empty. *)
LEMMA HeadTail ==
  ASSUME NEW b \in Seq(Element), b # <<>>
  PROVE  /\ Len(b) \in Nat \ {0} /\ Head(b) = b[1] /\ b[1] \in Element
         /\ Tail(b) \in Seq(Element) /\ Len(Tail(b)) = Len(b) - 1
         /\ \A i \in 1..(Len(b) - 1) : Tail(b)[i] = b[i + 1]
  OBVIOUS

(* The end of a buffer. *)
LEMMA SizeType ==
  ASSUME NEW b \in Seq(Element)
  PROVE  Size(b) \in Nat /\ Finalizers(b) \in Nat
  <1>1. CASE b = <<>>
    BY <1>1 DEF Size, Finalizers
  <1>2. CASE b # <<>>
    <2>1. b[Len(b)] \in Element
      BY <1>2
    <2> QED BY <1>2, <2>1 DEF Size, Finalizers, Element
  <1> QED BY <1>1, <1>2

(* A short write changes the head only. *)
LEMMA TrimType ==
  ASSUME NEW b \in Seq(Element), b # <<>>, NEW n \in 0..Head(b).len
  PROVE  /\ Trim(b, n) \in Seq(Element) /\ Len(Trim(b, n)) = Len(b)
         /\ Trim(b, n)[1] = El(b[1].type, b[1].pos + n, b[1].len - n, b[1].fin)
         /\ \A i \in 2..Len(b) : Trim(b, n)[i] = b[i]
  <1> DEFINE e == Head(b)
             h == El(e.type, e.pos + n, e.len - n, e.fin)
  <1>1. h \in Element
    <2>1. e \in Element /\ n \in 0..e.len
      BY HeadTail
    <2> HIDE DEF e
    <2> QED BY <2>1 DEF Element, El
  <1>2. <<h>> \in Seq(Element) /\ Len(<<h>>) = 1 /\ <<h>>[1] = h
    BY <1>1
  <1>3. Trim(b, n) = <<h>> \o Tail(b)
    BY DEF Trim
  <1> HIDE DEF h
  <1>4. Trim(b, n) \in Seq(Element) /\ Len(Trim(b, n)) = Len(b)
    BY <1>2, <1>3, HeadTail
  <1>5. Trim(b, n)[1] = h
    BY <1>2, <1>3, HeadTail
  <1>6. \A i \in 2..Len(b) : Trim(b, n)[i] = b[i]
    BY <1>2, <1>3, HeadTail
  <1> QED BY <1>4, <1>5, <1>6, HeadTail DEF h

(* Renumbering keeps the shape of a buffer. *)
LEMMA RebaseType ==
  ASSUME NEW b \in Seq(Element), NEW a \in Nat, NEW k \in Nat
  PROVE  /\ Rebase(b, a, k) \in Seq(Element) /\ Len(Rebase(b, a, k)) = Len(b)
         /\ \A i \in 1..Len(b) :
              Rebase(b, a, k)[i] = El(b[i].type, b[i].pos + a, b[i].len, b[i].fin + k)
  <1> DEFINE e(i) == El(b[i].type, b[i].pos + a, b[i].len, b[i].fin + k)
  <1>1. \A i \in 1..Len(b) : e(i) \in Element
    <2> SUFFICES ASSUME NEW i \in 1..Len(b) PROVE e(i) \in Element
      OBVIOUS
    <2>1. PICK d \in Element : d = b[i]
      OBVIOUS
    <2>2. d.type \in {"data", "finalize"} /\ d.len \in Nat /\ d.pos \in Nat /\ d.fin \in Nat
      BY <2>1 DEF Element
    <2>3. d.pos + a \in Nat /\ d.fin + k \in Nat
      BY <2>2
    <2>4. El(d.type, d.pos + a, d.len, d.fin + k) \in Element
      BY <2>2, <2>3 DEF Element, El
    <2> QED BY <2>1, <2>4
  <1>2. Rebase(b, a, k) = [i \in 1..Len(b) |-> e(i)]
    BY DEF Rebase
  <1> HIDE DEF e
  <1>3. Rebase(b, a, k) \in Seq(Element) /\ Len(Rebase(b, a, k)) = Len(b)
    BY <1>1, <1>2
  <1>4. \A i \in 1..Len(b) : Rebase(b, a, k)[i] = e(i)
    BY <1>2
  <1> QED BY <1>3, <1>4 DEF e

(* The finalizers of a buffer are numbers. *)
LEMMA FinalizersInType ==
  ASSUME NEW b \in Seq(Element)
  PROVE  FinalizersIn(b) \in SUBSET Nat
  <1>1. \A i \in 1..Len(b) : b[i] \in Element
    OBVIOUS
  <1>2. \A i \in 1..Len(b) : b[i].fin \in Nat
    BY <1>1 DEF Element
  <1> QED BY <1>2 DEF FinalizersIn

-----------------------------------------------------------------------------
(* The socket and the finalizers keep their types.                         *)

SockTypes ==
  /\ room \in [Fds -> 0..Room] /\ wire \in [Fds -> Seq(Nat)]
  /\ broken \in [Fds -> BOOLEAN]
  /\ finalized \in [Fds -> Seq([fin : Nat, pos : Nat, sent : Nat])]

(* A write appends positions to the wire and takes room. *)
LEMMA SendType ==
  ASSUME SockTypes, NEW f \in Fds, NEW e \in Element, NEW n \in 0..room[f],
         Send(f, e, n)
  PROVE  SockTypes'
  <1> DEFINE new == [i \in 1..n |-> e.pos + i]
  <1>1. e.pos \in Nat /\ room[f] \in 0..Room /\ n \in Nat
    BY BoundsAssumption DEF Element, SockTypes
  <1>2. new \in Seq(Nat)
    BY <1>1
  <1>3. wire[f] \o new \in Seq(Nat)
    BY <1>2 DEF SockTypes
  <1>4. wire' = [wire EXCEPT ![f] = wire[f] \o new]
    BY DEF Send
  <1> HIDE DEF new
  <1>5. wire' \in [Fds -> Seq(Nat)]
    BY <1>3, <1>4 DEF SockTypes
  <1>6. room' \in [Fds -> 0..Room]
    BY <1>1, BoundsAssumption DEF SockTypes, Send
  <1> QED BY <1>5, <1>6 DEF SockTypes, Send

(* A finalizer is recorded with what was sent before it. *)
LEMMA FinalizeType ==
  ASSUME SockTypes, NEW f \in Fds, NEW e \in Element, Finalize(f, e)
  PROVE  SockTypes'
  <1> DEFINE r == [fin |-> e.fin, pos |-> e.pos, sent |-> Len(wire[f])]
             R == [fin : Nat, pos : Nat, sent : Nat]
  <1>1. r \in R
    BY DEF Element, SockTypes
  <1>2. finalized[f] \in Seq(R)
    BY DEF SockTypes
  <1>3. Append(finalized[f], r) \in Seq(R)
    <2> HIDE DEF r, R
    <2> QED BY <1>1, <1>2
  <1>4. finalized' = [finalized EXCEPT ![f] = Append(finalized[f], r)]
    BY DEF Finalize
  <1>5. finalized' \in [Fds -> Seq(R)]
    <2> HIDE DEF r
    <2> QED BY <1>3, <1>4 DEF SockTypes
  <1> QED BY <1>5 DEF SockTypes, Finalize, sockVars

(* Each way a turn of execute can end keeps the types. *)
LEMMA CompletesType ==
  ASSUME SockTypes, NEW f \in Fds, NEW b \in Seq(Element), Completes(f, b)
  PROVE  SockTypes' /\ b # <<>>
  <1>1. b # <<>> /\ Head(b) \in Element
    BY HeadTail DEF Completes
  <1>2. CASE Finalize(f, Head(b))
    BY <1>1, <1>2, FinalizeType
  <1>3. CASE Head(b).len <= room[f] /\ Send(f, Head(b), Head(b).len)
    <2>1. Head(b).len \in 0..room[f]
      BY <1>1, <1>3, BoundsAssumption DEF Element, SockTypes
    <2> QED BY <1>1, <1>3, <2>1, SendType
  <1> QED BY <1>1, <1>2, <1>3 DEF Completes

(* A write that blocks keeps the types of the sockets. *)
LEMMA BlocksType ==
  ASSUME SockTypes, NEW f \in Fds, NEW b \in Seq(Element), b # <<>>,
         NEW n \in 0..(Head(b).len - 1), Blocks(f, b, n)
  PROVE  SockTypes' /\ n \in 0..Head(b).len /\ n \in Nat
  <1>1. Head(b) \in Element
    BY HeadTail
  <1>2. n \in 0..Head(b).len /\ n \in Nat
    BY <1>1 DEF Element
  <1>3. n \in 0..room[f]
    BY <1>2, BoundsAssumption DEF Blocks, SockTypes
  <1> QED BY <1>1, <1>2, <1>3, SendType DEF Blocks

-----------------------------------------------------------------------------
(* Type correctness.  A thread inside an operation has a descriptor, which *)
(* LocksOK says: the two are proved together.                              *)

(* What a thread inside an operation may assume of its own variables. *)
LEMMA Inside ==
  ASSUME TypeOK, LocksOK, NEW t \in Threads, pc[t] # "idle"
  PROVE  /\ fd[t] \in Fds
         /\ m_fdctx[fd[t]] \in Seq(Element) /\ xfbuf[t] \in Seq(Element)
         /\ SockTypes
  BY DEF TypeOK, LocksOK, SockTypes

(* The types hold at the start. *)
LEMMA TypeInit == Init => TypeOK /\ LocksOK
  <1> SUFFICES ASSUME Init PROVE TypeOK /\ LocksOK
    OBVIOUS
  <1>1. TypeOK
    BY BoundsAssumption DEF Init, TypeOK, Interest, Ops, WriterPCs, WorkerPCs
  <1>2. LocksOK
    BY ThreadsAssumption
    DEF Init, LocksOK, Threads, WriterPCs, WorkerPCs, LockedPCs
  <1> QED BY <1>1, <1>2

(* A call keeps the types. *)
LEMMA CallType ==
  ASSUME TypeOK, LocksOK, NEW t \in Writers, NEW f \in Fds, NEW b \in Requests,
         NEW o \in Ops, Call(t, f, o, b)
  PROVE  TypeOK'
  <1> DEFINE xf == Rebase(b, accepted[f], nfin[f])
  <1>1. b \in Seq(Element) /\ accepted[f] \in Nat /\ nfin[f] \in Nat /\ t \in Threads
    BY RequestsAssumption DEF IsXfer, IsPart, TypeOK, Threads
  <1>2. xf \in Seq(Element)
    BY <1>1, RebaseType
  <1>3. accepted' \in [Fds -> Nat] /\ nfin' \in [Fds -> Nat]
    <2>1. accepted[f] + Size(b) \in Nat /\ nfin[f] + Finalizers(b) \in Nat
      BY <1>1, SizeType
    <2>2. /\ accepted' = [accepted EXCEPT ![f] = accepted[f] + Size(b)]
          /\ nfin' = [nfin EXCEPT ![f] = nfin[f] + Finalizers(b)]
      BY DEF Call, Asked
    <2> QED BY <2>1, <2>2 DEF TypeOK
  <1>4. UNCHANGED <<queueVars, sockVars, finalized, errVars>>
    BY DEF Call
  <1>5. CASE /\ m_fdctx' = [m_fdctx EXCEPT ![f] = migrate(xf, m_fdctx[f])]
             /\ UNCHANGED <<owner, pc, callVars, xfbuf>>
    <2>1. m_fdctx[f] \o xf \in Seq(Element)
      BY <1>2 DEF TypeOK
    <2> HIDE DEF xf
    <2>2. m_fdctx' \in [Fds -> Seq(Element)]
      BY <1>5, <2>1 DEF TypeOK, migrate
    <2> QED BY <1>3, <1>4, <1>5, <2>2
            DEF TypeOK, queueVars, sockVars, errVars, callVars
  <1>6. CASE /\ owner' = [owner EXCEPT ![f] = t]
             /\ At(t, "execute") /\ Begin(t, f, o, xf) /\ UNCHANGED m_fdctx
    <2> HIDE DEF xf
    <2>1. pc' \in [Threads -> WriterPCs \cup WorkerPCs]
      BY <1>1, <1>6 DEF TypeOK, At, WriterPCs
    <2>2. /\ fd' \in [Threads -> Fds \cup {None}] /\ op' \in [Threads -> Ops]
          /\ xfbuf' \in [Threads -> Seq(Element)]
          /\ owner' \in [Fds -> Threads \cup {None}]
      BY <1>1, <1>2, <1>6 DEF TypeOK, Begin
    <2> QED BY <1>3, <1>4, <1>6, <2>1, <2>2
            DEF TypeOK, queueVars, sockVars, errVars
  <1> QED BY <1>5, <1>6 DEF Call

(* The pieces the steps of a thread are made of keep the types. *)
LEMMA ReturnType ==
  ASSUME TypeOK, NEW t \in Threads, Return(t)
  PROVE  /\ pc' \in [Threads -> WriterPCs \cup WorkerPCs] /\ op' \in [Threads -> Ops]
         /\ fd' \in [Threads -> Fds \cup {None}] /\ xfbuf' \in [Threads -> Seq(Element)]
  BY DEF TypeOK, Return, Begin, WriterPCs, Ops

(* A thread goes to another step. *)
LEMMA AtType ==
  ASSUME TypeOK, NEW t \in Threads, NEW step \in WriterPCs \cup WorkerPCs, At(t, step)
  PROVE  pc' \in [Threads -> WriterPCs \cup WorkerPCs]
  BY DEF TypeOK, At

(* The lock of a descriptor is given back. *)
LEMMA UnlockType ==
  ASSUME TypeOK, NEW f \in Fds, Unlock(f)
  PROVE  owner' \in [Fds -> Threads \cup {None}]
  BY DEF TypeOK, Unlock

(* The steps of a caller keep the types. *)
LEMMA WriterType ==
  ASSUME TypeOK, LocksOK, NEW t \in Writers, WriterStep(t)
  PROVE  TypeOK'
  <1>0. t \in Threads
    BY DEF Threads
  <1>a. fd[t] \in Fds /\ xfbuf[t] \in Seq(Element) /\ m_fdctx[fd[t]] \in Seq(Element)
        /\ SockTypes
    BY <1>0, Inside
       DEF WriterStep, ExecuteOn, ExecuteDone, ExecuteBlocks, ExecuteFails,
           ClearCaller, WatchAddFd, WatchCount
  <1> USE <1>0, <1>a
  <1>1. CASE ExecuteOn(t)
    <2>1. SockTypes' /\ xfbuf[t] # <<>>
      BY <1>1, CompletesType DEF ExecuteOn
    <2>2. xfbuf' \in [Threads -> Seq(Element)]
      BY <1>1, <2>1, HeadTail DEF ExecuteOn, TypeOK
    <2> QED BY <1>1, <2>1, <2>2
            DEF ExecuteOn, TypeOK, SockTypes, queueVars, callVars, askVars, errVars
  <1>2. CASE ExecuteDone(t)
    BY <1>2, ReturnType, UnlockType
    DEF ExecuteDone, TypeOK, queueVars, sockVars, askVars, errVars
  <1>3. CASE ExecuteBlocks(t)
    <2>1. PICK n \in 0..(Head(xfbuf[t]).len - 1) :
            /\ Blocks(fd[t], xfbuf[t], n)
            /\ m_fdctx' = [m_fdctx EXCEPT
                             ![fd[t]] = migrate(Trim(xfbuf[t], n), m_fdctx[fd[t]])]
      BY <1>3 DEF ExecuteBlocks
    <2>2. xfbuf[t] # <<>>
      BY <1>3 DEF ExecuteBlocks
    <2>3. SockTypes' /\ Trim(xfbuf[t], n) \in Seq(Element)
      BY <2>1, <2>2, BlocksType, TrimType
    <2>4. m_fdctx' \in [Fds -> Seq(Element)]
      BY <2>1, <2>3 DEF TypeOK, migrate
    <2>5. pc' \in [Threads -> WriterPCs \cup WorkerPCs]
      BY <1>3, AtType DEF ExecuteBlocks, WriterPCs
    <2>6. xfbuf' \in [Threads -> Seq(Element)]
      BY <1>3 DEF ExecuteBlocks, TypeOK
    <2> QED BY <1>3, <2>3, <2>4, <2>5, <2>6
            DEF ExecuteBlocks, TypeOK, SockTypes, queueVars, callVars, askVars, errVars
  <1>4. CASE ExecuteFails(t)
    <2>1. FinalizersIn(xfbuf[t]) \in SUBSET Nat
      BY FinalizersInType
    <2>2. dropped' \in [Fds -> SUBSET Nat]
      <3>1. dropped[fd[t]] \cup FinalizersIn(xfbuf[t]) \in SUBSET Nat
        BY <2>1 DEF TypeOK
      <3>2. CASE dropped' = [dropped EXCEPT
                               ![fd[t]] = dropped[fd[t]] \cup FinalizersIn(xfbuf[t])]
        BY <3>1, <3>2 DEF TypeOK
      <3>3. CASE UNCHANGED dropped
        BY <3>3 DEF TypeOK
      <3> QED BY <1>4, <3>2, <3>3 DEF ExecuteFails
    <2>3. shut' \in [Fds -> BOOLEAN] /\ failed' \in [Fds -> BOOLEAN]
      BY <1>4 DEF ExecuteFails, TypeOK
    <2>4. /\ pc' \in [Threads -> WriterPCs \cup WorkerPCs] /\ op' \in [Threads -> Ops]
          /\ fd' \in [Threads -> Fds \cup {None}]
          /\ xfbuf' \in [Threads -> Seq(Element)]
      <3>1. CASE At(t, "clear_xf") /\ UNCHANGED <<callVars, xfbuf, dropped>>
        <4>1. pc' \in [Threads -> WriterPCs \cup WorkerPCs]
          BY <3>1, AtType DEF WriterPCs
        <4> QED BY <3>1, <4>1 DEF TypeOK, callVars
      <3>2. CASE Return(t)
        BY <3>2, ReturnType
      <3> QED BY <1>4, <3>1, <3>2 DEF ExecuteFails
    <2> QED BY <1>4, <2>2, <2>3, <2>4, UnlockType
            DEF ExecuteFails, Fails, TypeOK, queueVars, sockVars, askVars
  <1>5. CASE ClearCaller(t)
    <2>1. CASE xfbuf[t] = <<>>
      BY <1>5, <2>1, ReturnType
      DEF ClearCaller, TypeOK, queueVars, sockVars, askVars, errVars
    <2>2. CASE xfbuf[t] # <<>>
      <3>1. Head(xfbuf[t]) \in Element /\ Tail(xfbuf[t]) \in Seq(Element)
        BY <2>2, HeadTail
      <3>2. SockTypes'
        <4>1. CASE Finalize(fd[t], Head(xfbuf[t]))
          BY <3>1, <4>1, FinalizeType
        <4>2. CASE UNCHANGED <<finalized, sockVars>>
          BY <4>2 DEF SockTypes, sockVars
        <4> QED BY <1>5, <2>2, <4>1, <4>2 DEF ClearCaller
      <3>3. xfbuf' \in [Threads -> Seq(Element)]
        BY <1>5, <2>2, <3>1 DEF ClearCaller, TypeOK
      <3> QED BY <1>5, <2>2, <3>2, <3>3
              DEF ClearCaller, TypeOK, SockTypes, queueVars, callVars, askVars, errVars
    <2> QED BY <2>1, <2>2
  <1>6. CASE WatchAddFd(t)
    <2>1. m_kernel' \in [Fds -> Interest]
      BY <1>6 DEF WatchAddFd, TypeOK, add_fd, Interest
    <2>2. pc' \in [Threads -> WriterPCs \cup WorkerPCs]
      BY <1>6, AtType DEF WatchAddFd, WriterPCs
    <2> QED BY <1>6, <2>1, <2>2
            DEF WatchAddFd, TypeOK, callVars, sockVars, askVars, errVars
  <1>7. CASE WatchCount(t)
    <2>1. m_watching' \in Int
      BY <1>7 DEF WatchCount, WatchCounted, TypeOK
    <2>2. Return(t) /\ Unlock(fd[t])
      BY <1>7 DEF WatchCount
    <2> QED BY <1>7, <2>1, <2>2, ReturnType, UnlockType
            DEF WatchCount, TypeOK, sockVars, askVars, errVars
  <1> QED BY <1>1, <1>2, <1>3, <1>4, <1>5, <1>6, <1>7 DEF WriterStep

(* What epoll_wait reports: distinct descriptors, all armed. *)
LEMMA BatchFacts ==
  ASSUME NEW level \in SUBSET Fds, NEW max,
         NEW batch \in Batches(m_kernel, level, max)
  PROVE  /\ batch \in Seq(Fds)
         /\ \A i \in 1..Len(batch) : m_kernel[batch[i]] = "armed"
         /\ \A i, j \in 1..Len(batch) : batch[i] = batch[j] => i = j
  <1>1. PICK S \in SUBSET {f \in level : m_kernel[f] = "armed"} : batch \in Orders(S)
    BY DEF Batches
  <1>2. IsFiniteSet(S)
    BY FiniteAssumption, FS_Subset
  <1>3. Cardinality(S) \in Nat
    BY <1>2, FS_CardinalityType
  <1>4. batch \in [1..Cardinality(S) -> S]
    BY <1>1 DEF Orders
  <1>5. \A i, j \in DOMAIN batch : i # j => batch[i] # batch[j]
    BY <1>1 DEF Orders
  <1> QED BY <1>1, <1>3, <1>4, <1>5

(* poll_event keeps the types. *)
LEMMA PollType ==
  ASSUME TypeOK, poll_event
  PROVE  TypeOK'
  <1>1. PICK batch \in Batches(m_kernel, Writable, BacklogSize) :
          /\ m_kernel' = wait(m_kernel, batch)
          /\ m_queue' = Pushed(m_queue, batch)
    BY DEF poll_event
  <1>2. batch \in Seq(Fds)
    BY BatchFacts DEF Writable
  <1>3. m_queue' \in Seq(Fds)
    BY <1>1, <1>2 DEF TypeOK, Pushed
  <1>4. m_kernel' \in [Fds -> Interest]
    BY <1>1 DEF TypeOK, wait, Interest
  <1> QED BY <1>3, <1>4
          DEF poll_event, TypeOK, callVars, sockVars, askVars, errVars

(* The steps of a worker keep the types. *)
LEMMA WorkerType ==
  ASSUME TypeOK, LocksOK, NEW t \in Workers, WorkerStep(t)
  PROVE  TypeOK'
  <1>0. t \in Threads
    BY DEF Threads
  <1>1. CASE next(t)
    <2>1. m_queue \in Seq(Fds) /\ m_queue # <<>>
      BY <1>1 DEF next, TypeOK
    <2>2. Head(m_queue) \in Fds /\ Tail(m_queue) \in Seq(Fds)
      BY <2>1
    <2>3. m_queue' \in Seq(Fds) /\ fd' \in [Threads -> Fds \cup {None}]
      BY <1>0, <1>1, <2>2 DEF next, TypeOK
    <2>4. pc' \in [Threads -> WriterPCs \cup WorkerPCs]
      BY <1>0, <1>1, AtType DEF next, WorkerPCs
    <2> QED BY <1>1, <2>3, <2>4
            DEF next, TypeOK, sockVars, askVars, errVars
  <1>2. CASE ~next(t)
    <2>a. fd[t] \in Fds /\ m_fdctx[fd[t]] \in Seq(Element) /\ SockTypes
      BY <1>0, <1>2, Inside
         DEF WorkerStep, WriteEventLock, TryWriteOn, TryWriteBlocks, TryWriteDone,
             TryWriteFails, Reactivate, Remove, Clear, Unwatch
    <2> USE <1>0, <2>a
    <2>1. CASE WriteEventLock(t)
      <3>1. pc' \in [Threads -> WriterPCs \cup WorkerPCs]
        BY <2>1, AtType DEF WriteEventLock, WorkerPCs
      <3>2. owner' \in [Fds -> Threads \cup {None}]
        BY <2>1 DEF WriteEventLock, TypeOK
      <3> QED BY <2>1, <3>1, <3>2
              DEF WriteEventLock, TypeOK, queueVars, callVars, sockVars, askVars, errVars
    <2>2. CASE TryWriteOn(t)
      <3>1. SockTypes' /\ m_fdctx[fd[t]] # <<>>
        BY <2>2, CompletesType DEF TryWriteOn
      <3>2. m_fdctx' \in [Fds -> Seq(Element)]
        BY <2>2, <3>1, HeadTail DEF TryWriteOn, TypeOK
      <3> QED BY <2>2, <3>1, <3>2
              DEF TryWriteOn, TypeOK, SockTypes, queueVars, callVars, askVars, errVars
    <2>3. CASE TryWriteBlocks(t)
      <3>1. PICK n \in 0..(Head(m_fdctx[fd[t]]).len - 1) :
              /\ Blocks(fd[t], m_fdctx[fd[t]], n)
              /\ m_fdctx' = [m_fdctx EXCEPT ![fd[t]] = Trim(m_fdctx[fd[t]], n)]
        BY <2>3 DEF TryWriteBlocks
      <3>2. m_fdctx[fd[t]] # <<>>
        BY <2>3 DEF TryWriteBlocks
      <3>3. SockTypes' /\ Trim(m_fdctx[fd[t]], n) \in Seq(Element)
        BY <3>1, <3>2, BlocksType, TrimType
      <3>4. m_fdctx' \in [Fds -> Seq(Element)]
        BY <3>1, <3>3 DEF TypeOK
      <3>5. pc' \in [Threads -> WriterPCs \cup WorkerPCs]
        BY <2>3, AtType DEF TryWriteBlocks, WorkerPCs
      <3> QED BY <2>3, <3>3, <3>4, <3>5
              DEF TryWriteBlocks, TypeOK, SockTypes, queueVars, callVars, askVars, errVars
    <2>4. CASE TryWriteDone(t)
      <3>1. pc' \in [Threads -> WriterPCs \cup WorkerPCs]
        BY <2>4, AtType DEF TryWriteDone, WorkerPCs
      <3> QED BY <2>4, <3>1
              DEF TryWriteDone, TypeOK, queueVars, callVars, sockVars, askVars, errVars
    <2>5. CASE TryWriteFails(t)
      <3>1. pc' \in [Threads -> WriterPCs \cup WorkerPCs]
        BY <2>5, AtType DEF TryWriteFails, WorkerPCs
      <3> QED BY <2>5, <3>1
              DEF TryWriteFails, Fails, TypeOK, queueVars, callVars, sockVars, askVars
    <2>6. CASE Reactivate(t)
      <3>1. m_kernel' \in [Fds -> Interest]
        BY <2>6 DEF Reactivate, TypeOK, reactivate, Interest
      <3>2. Return(t) /\ Unlock(fd[t])
        BY <2>6 DEF Reactivate
      <3> QED BY <2>6, <3>1, <3>2, ReturnType, UnlockType
              DEF Reactivate, TypeOK, sockVars, askVars, errVars
    <2>7. CASE Remove(t)
      <3>1. m_kernel' \in [Fds -> Interest]
        BY <2>7 DEF Remove, TypeOK, remove, Interest
      <3>2. pc' \in [Threads -> WriterPCs \cup WorkerPCs]
        BY <2>7, AtType DEF Remove, WorkerPCs
      <3> QED BY <2>7, <3>1, <3>2
              DEF Remove, TypeOK, callVars, sockVars, askVars, errVars
    <2>8. CASE Clear(t)
      <3>1. m_fdctx[fd[t]] # <<>>
        BY <2>8 DEF Clear
      <3>2. Head(m_fdctx[fd[t]]) \in Element /\ Tail(m_fdctx[fd[t]]) \in Seq(Element)
        BY <3>1, HeadTail
      <3>3. SockTypes'
        <4>1. CASE Finalize(fd[t], Head(m_fdctx[fd[t]]))
          BY <3>2, <4>1, FinalizeType
        <4>2. CASE UNCHANGED <<finalized, sockVars>>
          BY <4>2 DEF SockTypes, sockVars
        <4> QED BY <2>8, <4>1, <4>2 DEF Clear
      <3>4. m_fdctx' \in [Fds -> Seq(Element)]
        BY <2>8, <3>2 DEF Clear, TypeOK
      <3> QED BY <2>8, <3>3, <3>4
              DEF Clear, TypeOK, SockTypes, queueVars, callVars, askVars, errVars
    <2>9. CASE Unwatch(t)
      <3>1. m_watching' \in Int
        BY <2>9 DEF Unwatch, Unwatched, TypeOK
      <3>2. Return(t) /\ Unlock(fd[t])
        BY <2>9 DEF Unwatch
      <3> QED BY <2>9, <3>1, <3>2, ReturnType, UnlockType
              DEF Unwatch, TypeOK, sockVars, askVars, errVars
    <2> QED BY <1>2, <2>1, <2>2, <2>3, <2>4, <2>5, <2>6, <2>7, <2>8, <2>9
            DEF WorkerStep
  <1> QED BY <1>1, <1>2

(* Every step keeps the types. *)
LEMMA TypeStep ==
  ASSUME TypeOK, LocksOK, [Next]_vars
  PROVE  TypeOK'
  <1>1. ASSUME NEW t \in Writers, Called(t) PROVE TypeOK'
    BY <1>1, CallType DEF Called, write, commit_raw, commit, Ops
  <1>2. ASSUME NEW f \in Fds, Drain(f) \/ PeerReset(f) PROVE TypeOK'
    <2>1. CASE Drain(f)
      <3>1. room' \in [Fds -> 0..Room]
        BY <2>1, BoundsAssumption DEF Drain, TypeOK
      <3> QED BY <2>1, <3>1 DEF Drain, TypeOK, queueVars, callVars, askVars, errVars
    <2>2. CASE PeerReset(f)
      BY <2>2 DEF PeerReset, TypeOK, queueVars, callVars, askVars, errVars
    <2> QED BY <1>2, <2>1, <2>2
  <1>3. CASE UNCHANGED vars
    BY <1>3 DEF vars, TypeOK, queueVars, callVars, sockVars, askVars, errVars
  <1> QED BY <1>1, <1>2, <1>3, WriterType, WorkerType, PollType DEF Next, Quiescent

-----------------------------------------------------------------------------
(* Mutual exclusion: LocksOK is inductive.                                 *)

(* The step a thread may be at. *)
PCsOf(t) == IF t \in Writers THEN WriterPCs ELSE WorkerPCs

(* A step between the lock and the unlock, or outside both. *)
LEMMA LocksMove ==
  ASSUME TypeOK, LocksOK, NEW t \in Threads, NEW s \in PCsOf(t), At(t, s),
         pc[t] # "idle", s # "idle", s \in LockedPCs <=> pc[t] \in LockedPCs,
         UNCHANGED <<fd, owner>>
  PROVE  LocksOK'
  BY ThreadsAssumption DEF TypeOK, LocksOK, At, PCsOf, Threads

(* Lock. *)
LEMMA LocksAcquire ==
  ASSUME TypeOK, LocksOK, NEW t \in Threads, NEW f \in Fds,
         NEW s \in PCsOf(t) \cap LockedPCs, At(t, s), owner[f] = None,
         pc[t] \notin LockedPCs, fd[t] \in {None, f},
         owner' = [owner EXCEPT ![f] = t], fd' = [fd EXCEPT ![t] = f]
  PROVE  LocksOK'
  <1>1. s # "idle" /\ f # None /\ t # None
    BY ThreadsAssumption DEF LockedPCs
  <1>2. /\ \A u \in Writers : pc'[u] \in WriterPCs
        /\ \A u \in Workers : pc'[u] \in WorkerPCs
        /\ \A u \in Threads : fd'[u] = None <=> pc'[u] = "idle"
    BY <1>1, ThreadsAssumption DEF TypeOK, LocksOK, At, PCsOf, Threads
  <1>3. ASSUME NEW u \in Threads, NEW g \in Fds
        PROVE  owner'[g] = u <=> fd'[u] = g /\ pc'[u] \in LockedPCs
    BY <1>1, ThreadsAssumption DEF TypeOK, LocksOK, At
  <1> QED BY <1>2, <1>3 DEF LocksOK

(* Unlock and return. *)
LEMMA LocksRelease ==
  ASSUME TypeOK, LocksOK, NEW t \in Threads, pc[t] \in LockedPCs,
         Return(t), Unlock(fd[t])
  PROVE  LocksOK'
  <1>1. fd[t] \in Fds /\ "idle" \notin LockedPCs /\ t # None /\ None \notin Fds
    BY ThreadsAssumption DEF TypeOK, LocksOK, LockedPCs
  <1>2. /\ \A u \in Writers : pc'[u] \in WriterPCs
        /\ \A u \in Workers : pc'[u] \in WorkerPCs
        /\ \A u \in Threads : fd'[u] = None <=> pc'[u] = "idle"
    BY <1>1, ThreadsAssumption
    DEF TypeOK, LocksOK, Return, Begin, Threads, WriterPCs, WorkerPCs
  <1>3. ASSUME NEW u \in Threads, NEW g \in Fds
        PROVE  owner'[g] = u <=> fd'[u] = g /\ pc'[u] \in LockedPCs
    BY <1>1, ThreadsAssumption DEF TypeOK, LocksOK, Return, Begin, Unlock
  <1> QED BY <1>2, <1>3 DEF LocksOK

(* The steps of a caller keep what is known of the locks. *)
LEMMA LocksWriter ==
  ASSUME TypeOK, LocksOK, NEW t \in Writers, WriterStep(t)
  PROVE  LocksOK'
  <1>0. t \in Threads /\ PCsOf(t) = WriterPCs
    BY DEF Threads, PCsOf
  <1> USE <1>0
  <1>1. CASE ExecuteOn(t)
    BY <1>1 DEF ExecuteOn, LocksOK, callVars
  <1>2. CASE ExecuteDone(t)
    BY <1>2, LocksRelease DEF ExecuteDone, LockedPCs
  <1>3. CASE ExecuteBlocks(t)
    BY <1>3, LocksMove DEF ExecuteBlocks, LockedPCs, WriterPCs, callVars
  <1>4. CASE ExecuteFails(t)
    <2>1. CASE Return(t)
      BY <1>4, <2>1, LocksRelease DEF ExecuteFails, LockedPCs
    <2>2. CASE At(t, "clear_xf") /\ UNCHANGED callVars
      <3>1. fd[t] \in Fds /\ pc[t] = "execute" /\ Unlock(fd[t]) /\ None \notin Threads
        BY <1>4, Inside, ThreadsAssumption DEF ExecuteFails
      <3>2. /\ \A u \in Writers : pc'[u] \in WriterPCs
            /\ \A u \in Workers : pc'[u] \in WorkerPCs
            /\ \A u \in Threads : fd'[u] = None <=> pc'[u] = "idle"
        BY <2>2, <3>1, ThreadsAssumption
        DEF TypeOK, LocksOK, At, Threads, WriterPCs, callVars
      <3>3. ASSUME NEW u \in Threads, NEW g \in Fds
            PROVE  owner'[g] = u <=> fd'[u] = g /\ pc'[u] \in LockedPCs
        BY <2>2, <3>1 DEF TypeOK, LocksOK, At, Unlock, LockedPCs, callVars
      <3> QED BY <3>2, <3>3 DEF LocksOK
    <2> QED BY <1>4, <2>1, <2>2 DEF ExecuteFails
  <1>5. CASE ClearCaller(t)
    <2>1. CASE Return(t)
      BY <1>5, <2>1, ThreadsAssumption
      DEF ClearCaller, TypeOK, LocksOK, Return, Begin, Threads, WriterPCs, LockedPCs
    <2>2. CASE UNCHANGED <<pc, callVars>>
      BY <1>5, <2>2 DEF ClearCaller, LocksOK, callVars
    <2> QED BY <1>5, <2>1, <2>2 DEF ClearCaller
  <1>6. CASE WatchAddFd(t)
    BY <1>6, LocksMove DEF WatchAddFd, LockedPCs, WriterPCs, callVars
  <1>7. CASE WatchCount(t)
    BY <1>7, LocksRelease DEF WatchCount, LockedPCs
  <1> QED BY <1>1, <1>2, <1>3, <1>4, <1>5, <1>6, <1>7 DEF WriterStep

(* A call takes the lock only if nobody has it. *)
LEMMA LocksCall ==
  ASSUME TypeOK, LocksOK, NEW t \in Writers, NEW f \in Fds, NEW o, NEW b,
         Call(t, f, o, b)
  PROVE  LocksOK'
  <1>1. CASE UNCHANGED <<owner, pc, callVars, xfbuf>>
    BY <1>1 DEF LocksOK, callVars
  <1>2. CASE /\ owner' = [owner EXCEPT ![f] = t]
             /\ At(t, "execute") /\ fd' = [fd EXCEPT ![t] = f]
    <2>1. t \in Threads /\ "execute" \in PCsOf(t) \cap LockedPCs
      BY DEF Threads, PCsOf, WriterPCs, LockedPCs
    <2>2. pc[t] = "idle" /\ owner[f] = None
      BY DEF Call
    <2>3. pc[t] \notin LockedPCs /\ fd[t] = None
      BY <2>1, <2>2 DEF LocksOK, LockedPCs
    <2> QED BY <1>2, <2>1, <2>2, <2>3, LocksAcquire
  <1> QED BY <1>1, <1>2 DEF Call, Begin

(* The steps of a worker keep what is known of the locks. *)
LEMMA LocksWorker ==
  ASSUME TypeOK, LocksOK, NEW t \in Workers, WorkerStep(t)
  PROVE  LocksOK'
  <1>0. t \in Threads /\ PCsOf(t) = WorkerPCs
    BY ThreadsAssumption DEF Threads, PCsOf
  <1> USE <1>0
  <1>1. CASE next(t)
    <2>1. /\ pc[t] = "idle" /\ fd[t] = None /\ Head(m_queue) \in Fds
          /\ t \notin Writers /\ Head(m_queue) # None
      BY <1>1, ThreadsAssumption DEF next, TypeOK, LocksOK
    <2>2. /\ pc' = [pc EXCEPT ![t] = "write_event"]
          /\ fd' = [fd EXCEPT ![t] = Head(m_queue)] /\ owner' = owner
      BY <1>1 DEF next, At
    <2>3. /\ \A u \in Writers : pc'[u] \in WriterPCs
          /\ \A u \in Workers : pc'[u] \in WorkerPCs
          /\ \A u \in Threads : fd'[u] = None <=> pc'[u] = "idle"
      BY <2>1, <2>2 DEF TypeOK, LocksOK, Threads, WorkerPCs
    <2>4. ASSUME NEW u \in Threads, NEW g \in Fds
          PROVE  owner'[g] = u <=> fd'[u] = g /\ pc'[u] \in LockedPCs
      <3>1. owner[g] = u <=> fd[u] = g /\ pc[u] \in LockedPCs
        BY DEF LocksOK
      <3>2. CASE u = t
        <4>1. pc'[u] = "write_event" /\ pc[u] = "idle"
          BY <2>1, <2>2, <3>2 DEF TypeOK
        <4> QED BY <2>2, <3>1, <4>1 DEF LockedPCs
      <3>3. CASE u # t
        <4>1. pc'[u] = pc[u] /\ fd'[u] = fd[u]
          BY <2>2, <3>3 DEF TypeOK
        <4> QED BY <2>2, <3>1, <4>1
      <3> QED BY <3>2, <3>3
    <2> QED BY <2>3, <2>4 DEF LocksOK
  <1>2. CASE WriteEventLock(t)
    <2>1. fd[t] \in Fds
      BY <1>2, Inside DEF WriteEventLock
    <2>2. fd' = [fd EXCEPT ![t] = fd[t]]
      BY <1>2 DEF WriteEventLock, callVars, TypeOK
    <2> QED BY <1>2, <2>1, <2>2, LocksAcquire
            DEF WriteEventLock, WorkerPCs, LockedPCs
  <1>3. CASE TryWriteOn(t)
    BY <1>3 DEF TryWriteOn, LocksOK, callVars
  <1>4. CASE TryWriteBlocks(t)
    BY <1>4, LocksMove DEF TryWriteBlocks, LockedPCs, WorkerPCs, callVars
  <1>5. CASE TryWriteDone(t)
    BY <1>5, LocksMove DEF TryWriteDone, LockedPCs, WorkerPCs, callVars
  <1>6. CASE TryWriteFails(t)
    BY <1>6, LocksMove DEF TryWriteFails, LockedPCs, WorkerPCs, callVars
  <1>7. CASE Reactivate(t)
    BY <1>7, LocksRelease DEF Reactivate, LockedPCs
  <1>8. CASE Remove(t)
    BY <1>8, LocksMove DEF Remove, LockedPCs, WorkerPCs, callVars
  <1>9. CASE Clear(t)
    BY <1>9 DEF Clear, LocksOK, callVars
  <1>10. CASE Unwatch(t)
    BY <1>10, LocksRelease DEF Unwatch, LockedPCs
  <1> QED BY <1>1, <1>2, <1>3, <1>4, <1>5, <1>6, <1>7, <1>8, <1>9, <1>10
          DEF WorkerStep

(* Every step keeps what is known of the locks. *)
LEMMA LocksStep ==
  ASSUME TypeOK, LocksOK, [Next]_vars
  PROVE  LocksOK'
  <1>1. ASSUME NEW t \in Writers, Called(t) PROVE LocksOK'
    BY <1>1, LocksCall DEF Called, write, commit_raw, commit
  <1>2. CASE UNCHANGED <<owner, pc, callVars>>
    BY <1>2 DEF LocksOK, callVars
  <1> QED BY <1>1, <1>2, LocksWriter, LocksWorker
          DEF Next, poll_event, Drain, PeerReset, Quiescent, vars

(* Type correctness, and that the mutex of a descriptor has one holder at  *)
(* a time: the thread that is between its lock and its unlock.             *)
THEOREM TypeCorrect == Spec => [](TypeOK /\ LocksOK)
  <1>1. TypeOK /\ LocksOK /\ [Next]_vars => (TypeOK /\ LocksOK)'
    BY TypeStep, LocksStep
  <1> QED BY TypeInit, <1>1, PTL DEF Spec

-----------------------------------------------------------------------------
(* Watching: HolderOK, EventServedOnce, QueuedIffWatched and WatchingExact *)
(* are preserved together.                                                 *)

WatchParts == HolderOK /\ EventServedOnce /\ QueuedIffWatched /\ WatchingExact

(* Two threads between lock and unlock work on different descriptors. *)
LEMMA Exclusive ==
  ASSUME LocksOK, NEW t \in Threads, NEW u \in Threads, t # u,
         pc[t] \in LockedPCs, pc[u] \in LockedPCs, fd[t] \in Fds
  PROVE  fd[u] # fd[t]
  BY DEF LocksOK

(* Nobody is between lock and unlock of a descriptor whose mutex is free. *)
LEMMA FreeLock ==
  ASSUME LocksOK, NEW f \in Fds, owner[f] = None, NEW u \in Threads,
         pc[u] \in LockedPCs
  PROVE  fd[u] # f
  BY ThreadsAssumption DEF LocksOK

(* The event of a descriptor that a worker serves has fired. *)
LEMMA ServedFired ==
  ASSUME TypeOK, EventServedOnce, NEW t \in Workers, fd[t] \in Fds, pc[t] # "clear"
  PROVE  m_kernel[fd[t]] = "fired"
  BY DEF EventServedOnce, Serving

(* What is counted is a finite set. *)
LEMMA CountedFinite ==
  IsFiniteSet({f \in Fds : Counted(f)}) /\ Cardinality({f \in Fds : Counted(f)}) \in Nat
  BY FiniteAssumption, FS_Subset, FS_CardinalityType

(* A step that changes nothing that is counted. *)
LEMMA CountKept ==
  ASSUME WatchingExact, UNCHANGED m_watching, \A f \in Fds : Counted(f)' <=> Counted(f)
  PROVE  WatchingExact'
  <1>1. {f \in Fds : Counted(f)'} = {f \in Fds : Counted(f)}
    OBVIOUS
  <1> QED BY <1>1 DEF WatchingExact

(* A step that moves no event. *)
LEMMA EventsKept ==
  ASSUME EventServedOnce, UNCHANGED <<m_kernel, m_queue>>,
         \A u \in Workers, f \in Fds : Serving(u, f)' <=> Serving(u, f)
  PROVE  EventServedOnce'
  BY DEF EventServedOnce

(* A step of the holder of a mutex that is seen by nobody else: it may     *)
(* change the queue of its descriptor.                                     *)
LEMMA QuietStep ==
  ASSUME TypeOK, LocksOK, WatchParts, NEW t \in Threads, pc[t] \in LockedPCs,
         NEW s \in LockedPCs, pc' = [pc EXCEPT ![t] = s],
         s = "clear" <=> pc[t] = "clear", s # "add_watching",
         UNCHANGED <<owner, m_kernel, m_queue, m_watching, fd>>,
         \A g \in Fds : g # fd[t] => m_fdctx'[g] = m_fdctx[g],
         s = "execute" => m_fdctx'[fd[t]] = <<>>,
         s \in {"add_fd", "reactivate"} => m_fdctx'[fd[t]] # <<>>,
         s \in {"execute", "add_fd", "clear"} => m_kernel[fd[t]] = "none"
  PROVE  WatchParts'
  <1>0. fd[t] \in Fds /\ owner[fd[t]] = t /\ t # None
    BY ThreadsAssumption DEF TypeOK, LocksOK, LockedPCs
  <1>1. HolderOK'
    <2>1. ASSUME NEW u \in Threads, u # t, pc[u] \in LockedPCs
          PROVE  fd[u] # fd[t] /\ fd[u] \in Fds
      BY <1>0, <2>1, Exclusive DEF TypeOK, LocksOK, LockedPCs
    <2> QED BY <1>0, <2>1 DEF HolderOK, WatchParts, TypeOK, LockedPCs
  <1>2. EventServedOnce'
    <2>1. \A u \in Workers, f \in Fds : Serving(u, f)' <=> Serving(u, f)
      BY DEF Serving, TypeOK, Threads
    <2> QED BY <2>1, EventsKept DEF WatchParts
  <1>3. QueuedIffWatched'
    BY <1>0 DEF QueuedIffWatched, WatchParts
  <1>4. WatchingExact'
    <2>1. \A f \in Fds : Counted(f)' <=> Counted(f)
      BY DEF Counted, TypeOK, Threads
    <2> QED BY <2>1, CountKept DEF WatchParts
  <1> QED BY <1>1, <1>2, <1>3, <1>4 DEF WatchParts

(* A step that leaves the queues, the watching and the locked steps alone. *)
LEMMA UnlockedStep ==
  ASSUME TypeOK, LocksOK, WatchParts, NEW t \in Writers, pc[t] \notin LockedPCs,
         NEW s, s \notin LockedPCs, pc' = [pc EXCEPT ![t] = s],
         UNCHANGED <<owner, m_fdctx, m_kernel, m_queue, m_watching>>,
         \A u \in Threads : u # t => fd'[u] = fd[u]
  PROVE  WatchParts'
  <1>0. t \in Threads /\ t \notin Workers
    BY ThreadsAssumption DEF Threads
  <1>1. HolderOK'
    BY <1>0 DEF HolderOK, WatchParts, TypeOK, LockedPCs
  <1>2. EventServedOnce'
    <2>1. \A u \in Workers, f \in Fds : Serving(u, f)' <=> Serving(u, f)
      BY <1>0 DEF Serving, TypeOK, Threads
    <2> QED BY <2>1, EventsKept DEF WatchParts
  <1>3. QueuedIffWatched'
    BY DEF QueuedIffWatched, WatchParts
  <1>4. WatchingExact'
    <2>1. \A f \in Fds : Counted(f)' <=> Counted(f)
      BY <1>0 DEF Counted, TypeOK, Threads
    <2> QED BY <2>1, CountKept DEF WatchParts
  <1> QED BY <1>1, <1>2, <1>3, <1>4 DEF WatchParts

(* A caller unlocks a descriptor that it leaves with an empty queue, not   *)
(* watched.                                                                *)
LEMMA CallerGivesUp ==
  ASSUME TypeOK, LocksOK, WatchParts, NEW t \in Writers, pc[t] = "execute",
         NEW s \in {"idle", "clear_xf"}, pc' = [pc EXCEPT ![t] = s],
         Unlock(fd[t]), UNCHANGED <<m_fdctx, m_kernel, m_queue, m_watching>>,
         \A u \in Threads : u # t => fd'[u] = fd[u]
  PROVE  WatchParts'
  <1>0. t \in Threads /\ t \notin Workers /\ fd[t] \in Fds /\ owner[fd[t]] = t
    BY ThreadsAssumption DEF Threads, TypeOK, LocksOK, LockedPCs
  <1>a. m_fdctx[fd[t]] = <<>> /\ m_kernel[fd[t]] = "none"
    BY <1>0 DEF HolderOK, WatchParts
  <1>1. HolderOK'
    BY <1>0 DEF HolderOK, WatchParts, TypeOK
  <1>2. EventServedOnce'
    <2>1. \A u \in Workers, f \in Fds : Serving(u, f)' <=> Serving(u, f)
      BY <1>0 DEF Serving, TypeOK, Threads
    <2> QED BY <2>1, EventsKept DEF WatchParts
  <1>3. QueuedIffWatched'
    BY <1>0, <1>a DEF QueuedIffWatched, WatchParts, Unlock, TypeOK
  <1>4. WatchingExact'
    <2>1. \A u \in Workers : pc'[u] = pc[u] /\ u # None
      BY <1>0, ThreadsAssumption DEF TypeOK, Threads
    <2>2. \A f \in Fds : f # fd[t] => owner'[f] = owner[f]
      BY <1>0 DEF Unlock, TypeOK
    <2>3. owner'[fd[t]] = None
      BY <1>0 DEF Unlock, TypeOK
    <2>4. \A f \in Fds : Counted(f)' <=> Counted(f)
      BY <1>0, <1>a, <2>1, <2>2, <2>3 DEF Counted
    <2> QED BY <2>4, CountKept DEF WatchParts
  <1> QED BY <1>1, <1>2, <1>3, <1>4 DEF WatchParts

(* A call appends to a queue that is watched already, or locks a           *)
(* descriptor that is not watched.                                         *)
LEMMA WatchCall ==
  ASSUME TypeOK, LocksOK, WatchParts, NEW t \in Writers, NEW f \in Fds, NEW o \in Ops,
         NEW b \in Requests, Call(t, f, o, b)
  PROVE  WatchParts'
  <1> DEFINE xf == Rebase(b, accepted[f], nfin[f])
  <1>0. /\ t \in Threads /\ t \notin Workers /\ t # None /\ owner[f] = None
        /\ pc[t] = "idle" /\ UNCHANGED <<m_kernel, m_queue, m_watching>>
    BY ThreadsAssumption DEF Threads, Call, queueVars
  <1>1. CASE /\ m_fdctx[f] # <<>>
             /\ m_fdctx' = [m_fdctx EXCEPT ![f] = migrate(xf, m_fdctx[f])]
             /\ UNCHANGED <<owner, pc, callVars, xfbuf>>
    <2>1. m_fdctx'[f] # <<>>
      <3>1. xf \in Seq(Element) /\ m_fdctx[f] \in Seq(Element)
        BY RequestsAssumption, RebaseType DEF IsXfer, IsPart, TypeOK
      <3> HIDE DEF xf
      <3>2. m_fdctx[f] \o xf # <<>>
        BY <1>1, <3>1
      <3> QED BY <1>1, <3>2 DEF migrate, TypeOK
    <2>2. \A g \in Fds : g # f => m_fdctx'[g] = m_fdctx[g]
      BY <1>1 DEF TypeOK
    <2>3. HolderOK'
      <3>1. ASSUME NEW u \in Threads, pc[u] \in LockedPCs
            PROVE  fd[u] # f /\ fd[u] \in Fds
        BY <1>0, <3>1, FreeLock DEF TypeOK, LocksOK, LockedPCs
      <3> QED BY <1>0, <1>1, <2>2, <3>1 DEF HolderOK, WatchParts, LockedPCs, callVars
    <2>4. EventServedOnce'
      BY <1>0, <1>1, EventsKept DEF WatchParts, Serving, callVars
    <2>5. QueuedIffWatched'
      BY <1>0, <1>1, <2>1, <2>2 DEF QueuedIffWatched, WatchParts
    <2>6. WatchingExact'
      BY <1>0, <1>1, CountKept DEF WatchParts, Counted
    <2> QED BY <2>3, <2>4, <2>5, <2>6 DEF WatchParts
  <1>2. CASE /\ m_fdctx[f] = <<>> /\ owner' = [owner EXCEPT ![f] = t]
             /\ At(t, "execute") /\ Begin(t, f, o, xf) /\ UNCHANGED m_fdctx
    <2>0. m_kernel[f] = "none"
      BY <1>0, <1>2 DEF QueuedIffWatched, WatchParts
    <2>1. /\ pc' = [pc EXCEPT ![t] = "execute"] /\ fd' = [fd EXCEPT ![t] = f]
          /\ owner'[f] = t /\ \A g \in Fds : g # f => owner'[g] = owner[g]
      BY <1>2 DEF At, Begin, TypeOK
    <2>2. HolderOK'
      BY <1>0, <1>2, <2>0, <2>1 DEF HolderOK, WatchParts, TypeOK
    <2>3. EventServedOnce'
      <3>1. \A u \in Workers, g \in Fds : Serving(u, g)' <=> Serving(u, g)
        BY <1>0, <2>1 DEF Serving, TypeOK, Threads
      <3> QED BY <1>0, <3>1, EventsKept DEF WatchParts
    <2>4. QueuedIffWatched'
      BY <1>0, <1>2, <2>1 DEF QueuedIffWatched, WatchParts
    <2>5. WatchingExact'
      <3>1. \A u \in Workers : pc'[u] = pc[u] /\ u # None
        BY <1>0, <2>1, ThreadsAssumption DEF TypeOK, Threads
      <3>2. \A g \in Fds : Counted(g)' <=> Counted(g)
        BY <1>0, <2>0, <2>1, <3>1 DEF Counted
      <3> QED BY <1>0, <3>2, CountKept DEF WatchParts
    <2> QED BY <2>2, <2>3, <2>4, <2>5 DEF WatchParts
  <1> QED BY <1>1, <1>2 DEF Call

(* watch(): the interest list. *)
LEMMA WatchAddFdStep ==
  ASSUME TypeOK, LocksOK, WatchParts, NEW t \in Writers, WatchAddFd(t)
  PROVE  WatchParts'
  <1>0. /\ t \in Threads /\ t \notin Workers /\ fd[t] \in Fds /\ owner[fd[t]] = t
        /\ pc[t] = "add_fd" /\ t # None
    BY ThreadsAssumption DEF Threads, WatchAddFd, TypeOK, LocksOK, LockedPCs
  <1>a. m_fdctx[fd[t]] # <<>> /\ m_kernel[fd[t]] = "none"
    BY <1>0 DEF HolderOK, WatchParts
  <1>b. /\ m_kernel' = [m_kernel EXCEPT ![fd[t]] = "armed"]
        /\ pc' = [pc EXCEPT ![t] = "add_watching"]
        /\ UNCHANGED <<m_fdctx, owner, m_queue, m_watching, fd>>
    BY <1>a DEF WatchAddFd, add_fd, At, callVars
  <1>1. HolderOK'
    <2>1. ASSUME NEW u \in Threads, u # t, pc[u] \in LockedPCs
          PROVE  fd[u] # fd[t] /\ fd[u] \in Fds
      BY <1>0, <2>1, Exclusive DEF TypeOK, LocksOK, LockedPCs
    <2> QED BY <1>0, <1>a, <1>b, <2>1 DEF HolderOK, WatchParts, TypeOK, LockedPCs
  <1>2. EventServedOnce'
    <2>1. \A u \in Workers, f \in Fds : Serving(u, f)' <=> Serving(u, f)
      BY <1>0, <1>b DEF Serving, TypeOK, Threads
    <2>2. \A f \in Fds : m_kernel'[f] = "fired" <=> m_kernel[f] = "fired"
      BY <1>0, <1>a, <1>b DEF TypeOK
    <2> QED BY <1>b, <2>1, <2>2 DEF EventServedOnce, WatchParts
  <1>3. QueuedIffWatched'
    BY <1>0, <1>b DEF QueuedIffWatched, WatchParts, TypeOK
  <1>4. WatchingExact'
    <2>1. \A f \in Fds : Counted(f)' <=> Counted(f)
      BY <1>0, <1>b DEF Counted, TypeOK, Threads
    <2> QED BY <1>b, <2>1, CountKept DEF WatchParts
  <1> QED BY <1>1, <1>2, <1>3, <1>4 DEF WatchParts

(* watch(): the counter, and the unlock. *)
LEMMA WatchCountStep ==
  ASSUME TypeOK, LocksOK, WatchParts, NEW t \in Writers, WatchCount(t)
  PROVE  WatchParts'
  <1> DEFINE S == {g \in Fds : Counted(g)}
  <1>f. fd[t] \in Fds
    BY Inside DEF Threads, WatchCount
  <1> PICK f \in Fds : f = fd[t]
    BY <1>f
  <1>0. /\ t \in Threads /\ t \notin Workers /\ owner[f] = t
        /\ pc[t] = "add_watching" /\ t # None
    BY ThreadsAssumption DEF Threads, WatchCount, TypeOK, LocksOK, LockedPCs
  <1>a. m_fdctx[f] # <<>> /\ m_kernel[f] # "none"
    BY <1>0 DEF HolderOK, WatchParts
  <1>b. /\ m_watching' = m_watching + 1
        /\ pc' = [pc EXCEPT ![t] = "idle"] /\ fd' = [fd EXCEPT ![t] = None]
        /\ owner'[f] = None /\ \A g \in Fds : g # f => owner'[g] = owner[g]
        /\ UNCHANGED <<m_fdctx, m_kernel, m_queue>>
    BY <1>0 DEF WatchCount, WatchCounted, Return, Begin, Unlock, TypeOK
  <1>c. \A u \in Workers : pc'[u] = pc[u] /\ fd'[u] = fd[u] /\ u # None
    BY <1>0, <1>b, ThreadsAssumption DEF TypeOK, Threads
  <1>1. HolderOK'
    BY <1>0, <1>b DEF HolderOK, WatchParts, TypeOK
  <1>2. EventServedOnce'
    <2>1. \A u \in Workers, g \in Fds : Serving(u, g)' <=> Serving(u, g)
      BY <1>c DEF Serving
    <2> QED BY <1>b, <2>1, EventsKept DEF WatchParts
  <1>3. QueuedIffWatched'
    BY <1>a, <1>b DEF QueuedIffWatched, WatchParts
  <1>4. WatchingExact'
    <2>1. f \notin S
      BY <1>0 DEF Counted
    <2>2. Counted(f)'
      BY <1>a, <1>b, ThreadsAssumption DEF Counted, Threads
    <2>3. \A g \in Fds : g # f => (Counted(g)' <=> Counted(g))
      BY <1>b, <1>c DEF Counted
    <2>4. {g \in Fds : Counted(g)'} = S \cup {f}
      BY <1>0, <2>2, <2>3
    <2>5. Cardinality(S \cup {f}) = Cardinality(S) + 1
      BY <2>1, CountedFinite, FS_AddElement
    <2> QED BY <1>b, <2>4, <2>5 DEF WatchingExact, WatchParts
  <1> QED BY <1>1, <1>2, <1>3, <1>4 DEF WatchParts

(* The steps of a caller keep the books of the watched descriptors. *)
LEMMA WatchWriter ==
  ASSUME TypeOK, LocksOK, WatchParts, NEW t \in Writers, WriterStep(t)
  PROVE  WatchParts'
  <1>0. t \in Threads
    BY DEF Threads
  <1>1. CASE ExecuteOn(t)
    <2>1. pc[t] = "execute" /\ pc' = [pc EXCEPT ![t] = "execute"]
      BY <1>0, <1>1 DEF ExecuteOn, TypeOK
    <2>2. m_fdctx[fd[t]] = <<>> /\ m_kernel[fd[t]] = "none"
      BY <1>0, <2>1 DEF HolderOK, WatchParts
    <2> QED BY <1>0, <1>1, <2>1, <2>2, QuietStep
            DEF ExecuteOn, LockedPCs, queueVars, callVars
  <1>2. CASE ExecuteDone(t)
    <2>1. \A u \in Threads : u # t => fd'[u] = fd[u]
      BY <1>0, <1>2 DEF ExecuteDone, Return, Begin, TypeOK
    <2> QED BY <1>2, <2>1, CallerGivesUp DEF ExecuteDone, Return, queueVars
  <1>3. CASE ExecuteBlocks(t)
    <2>1. pc[t] = "execute" /\ xfbuf[t] # <<>> /\ fd[t] \in Fds /\ xfbuf[t] \in Seq(Element)
      BY <1>0, <1>3, Inside DEF ExecuteBlocks
    <2>2. m_fdctx[fd[t]] = <<>> /\ m_kernel[fd[t]] = "none"
      BY <1>0, <2>1 DEF HolderOK, WatchParts
    <2>3. PICK n \in 0..(Head(xfbuf[t]).len - 1) :
            m_fdctx' = [m_fdctx EXCEPT
                          ![fd[t]] = migrate(Trim(xfbuf[t], n), m_fdctx[fd[t]])]
      BY <1>3 DEF ExecuteBlocks
    <2>4. Trim(xfbuf[t], n) \in Seq(Element) /\ Len(Trim(xfbuf[t], n)) = Len(xfbuf[t])
      <3>1. Head(xfbuf[t]).len \in Nat
        BY <2>1, HeadTail DEF Element
      <3>2. n \in 0..Head(xfbuf[t]).len
        BY <3>1
      <3> QED BY <2>1, <3>2, TrimType
    <2>5. migrate(Trim(xfbuf[t], n), m_fdctx[fd[t]]) = Trim(xfbuf[t], n)
      BY <2>2, <2>4 DEF migrate
    <2>6. Trim(xfbuf[t], n) # <<>>
      BY <2>1, <2>4
    <2>7. /\ m_fdctx'[fd[t]] # <<>>
          /\ \A g \in Fds : g # fd[t] => m_fdctx'[g] = m_fdctx[g]
      BY <2>1, <2>3, <2>5, <2>6 DEF TypeOK
    <2> QED BY <1>0, <1>3, <2>1, <2>2, <2>7, QuietStep
            DEF ExecuteBlocks, LockedPCs, At, queueVars, callVars
  <1>4. CASE ExecuteFails(t)
    <2>1. CASE Return(t)
      <3>1. \A u \in Threads : u # t => fd'[u] = fd[u]
        BY <1>0, <2>1 DEF Return, Begin, TypeOK
      <3> QED BY <1>4, <2>1, <3>1, CallerGivesUp DEF ExecuteFails, Return, queueVars
    <2>2. CASE At(t, "clear_xf") /\ UNCHANGED callVars
      BY <1>4, <2>2, CallerGivesUp DEF ExecuteFails, At, queueVars, callVars
    <2> QED BY <1>4, <2>1, <2>2 DEF ExecuteFails
  <1>5. CASE ClearCaller(t)
    <2>1. pc[t] \notin LockedPCs
      BY <1>5 DEF ClearCaller, LockedPCs
    <2>2. CASE Return(t)
      <3>1. \A u \in Threads : u # t => fd'[u] = fd[u]
        BY <1>0, <2>2 DEF Return, Begin, TypeOK
      <3> QED BY <1>5, <2>1, <2>2, <3>1, UnlockedStep
              DEF ClearCaller, Return, queueVars, LockedPCs
    <2>3. CASE UNCHANGED <<pc, callVars>>
      <3>1. pc' = [pc EXCEPT ![t] = pc[t]]
        BY <1>0, <2>3 DEF TypeOK
      <3> QED BY <1>5, <2>1, <2>3, <3>1, UnlockedStep
              DEF ClearCaller, queueVars, callVars
    <2> QED BY <1>5, <2>2, <2>3 DEF ClearCaller
  <1> QED BY <1>1, <1>2, <1>3, <1>4, <1>5, WatchAddFdStep, WatchCountStep DEF WriterStep

(* poll_event: armed descriptors become fired and are queued once. *)
LEMMA WatchPoll ==
  ASSUME TypeOK, LocksOK, WatchParts, poll_event
  PROVE  WatchParts'
  <1>1. PICK batch \in Batches(m_kernel, Writable, BacklogSize) :
          /\ m_kernel' = wait(m_kernel, batch)
          /\ m_queue' = Pushed(m_queue, batch)
    BY DEF poll_event
  <1>2. /\ batch \in Seq(Fds)
        /\ \A i \in 1..Len(batch) : m_kernel[batch[i]] = "armed"
        /\ \A i, j \in 1..Len(batch) : batch[i] = batch[j] => i = j
    BY BatchFacts DEF Writable
  <1>3. UNCHANGED <<m_fdctx, owner, m_watching, pc, fd>>
    BY DEF poll_event, callVars
  <1>4. \A f \in Fds : m_kernel'[f] =
          IF \E i \in 1..Len(batch) : batch[i] = f THEN "fired" ELSE m_kernel[f]
    <2>1. DOMAIN m_kernel = Fds /\ DOMAIN batch = 1..Len(batch)
      BY <1>2 DEF TypeOK
    <2> QED BY <1>1, <2>1 DEF wait
  <1>5. \A f \in Fds : m_kernel'[f] = "none" <=> m_kernel[f] = "none"
    BY <1>2, <1>4
  <1>6. /\ Len(m_queue') = Len(m_queue) + Len(batch)
        /\ \A i \in 1..Len(m_queue) : m_queue'[i] = m_queue[i]
        /\ \A i \in 1..Len(batch) : m_queue'[Len(m_queue) + i] = batch[i]
        /\ Len(m_queue) \in Nat /\ Len(batch) \in Nat
    BY <1>1, <1>2 DEF Pushed, TypeOK
  <1>7. HolderOK'
    <2>1. \A u \in Threads : pc[u] \in LockedPCs => fd[u] \in Fds
      BY DEF TypeOK, LocksOK, LockedPCs
    <2> QED BY <1>3, <1>5, <2>1 DEF HolderOK, WatchParts, LockedPCs
  <1>8. EventServedOnce'
    <2> SUFFICES ASSUME NEW f \in Fds
                 PROVE  /\ m_kernel'[f] = "fired" <=>
                             \/ \E i \in 1..Len(m_queue') : m_queue'[i] = f
                             \/ \E t \in Workers : Serving(t, f)
                        /\ \A i \in 1..Len(m_queue') : m_queue'[i] = f =>
                             /\ \A j \in 1..Len(m_queue') : m_queue'[j] = f => i = j
                             /\ \A t \in Workers : ~Serving(t, f)
                        /\ \A t, u \in Workers : Serving(t, f) /\ Serving(u, f) => t = u
      BY <1>3 DEF EventServedOnce, Serving
    <2>1. \A i \in 1..Len(m_queue') :
            \/ i \in 1..Len(m_queue) /\ m_queue'[i] = m_queue[i]
            \/ \E j \in 1..Len(batch) : i = Len(m_queue) + j /\ m_queue'[i] = batch[j]
      <3> SUFFICES ASSUME NEW i \in 1..Len(m_queue'), i \notin 1..Len(m_queue)
                   PROVE  \E j \in 1..Len(batch) :
                            i = Len(m_queue) + j /\ m_queue'[i] = batch[j]
        BY <1>6
      <3>1. i - Len(m_queue) \in 1..Len(batch) /\ i = Len(m_queue) + (i - Len(m_queue))
        BY <1>6
      <3> QED BY <1>6, <3>1
    <2>2. CASE \E i \in 1..Len(batch) : batch[i] = f
      <3>1. m_kernel[f] = "armed" /\ m_kernel'[f] = "fired"
        BY <1>2, <1>4, <2>2
      <3>2. /\ \A i \in 1..Len(m_queue) : m_queue[i] # f
            /\ \A t \in Workers : ~Serving(t, f)
        BY <3>1 DEF EventServedOnce, WatchParts
      <3>3. \E i \in 1..Len(m_queue') : m_queue'[i] = f
        BY <1>6, <2>2
      <3>4. \A i, j \in 1..Len(m_queue') : m_queue'[i] = f /\ m_queue'[j] = f => i = j
        <4> SUFFICES ASSUME NEW i \in 1..Len(m_queue'), NEW j \in 1..Len(m_queue'),
                            m_queue'[i] = f, m_queue'[j] = f
                     PROVE  i = j
          OBVIOUS
        <4>1. PICK k \in 1..Len(batch) : i = Len(m_queue) + k /\ batch[k] = f
          BY <2>1, <3>2
        <4>2. PICK l \in 1..Len(batch) : j = Len(m_queue) + l /\ batch[l] = f
          BY <2>1, <3>2
        <4>3. k = l
          BY <1>2, <4>1, <4>2
        <4> QED BY <4>1, <4>2, <4>3
      <3> QED BY <3>1, <3>2, <3>3, <3>4
    <2>3. CASE ~\E i \in 1..Len(batch) : batch[i] = f
      <3>1. m_kernel'[f] = m_kernel[f]
        BY <1>4, <2>3
      <3>2. \A i \in 1..Len(m_queue') :
              m_queue'[i] = f => i \in 1..Len(m_queue) /\ m_queue[i] = f
        BY <2>1, <2>3
      <3>3. \A i \in 1..Len(m_queue) :
              i \in 1..Len(m_queue') /\ m_queue'[i] = m_queue[i]
        BY <1>6
      <3> QED BY <3>1, <3>2, <3>3 DEF EventServedOnce, WatchParts
    <2> QED BY <2>2, <2>3
  <1>9. QueuedIffWatched'
    BY <1>3, <1>5 DEF QueuedIffWatched, WatchParts
  <1>10. WatchingExact'
    <2>1. \A f \in Fds : Counted(f)' <=> Counted(f)
      BY <1>3, <1>5 DEF Counted
    <2> QED BY <1>3, <2>1, CountKept DEF WatchParts
  <1> QED BY <1>7, <1>8, <1>9, <1>10 DEF WatchParts

(* next: the event moves from the queue to the worker. *)
LEMMA WatchNext ==
  ASSUME TypeOK, LocksOK, WatchParts, NEW t \in Workers, next(t)
  PROVE  WatchParts'
  <1>1. m_queue \in Seq(Fds) /\ m_queue # <<>> /\ pc[t] = "idle" /\ t \in Threads
    BY DEF next, TypeOK, Threads
  <1>2. /\ Head(m_queue) = m_queue[1] /\ m_queue[1] \in Fds /\ Len(m_queue) \in Nat \ {0}
        /\ Len(Tail(m_queue)) = Len(m_queue) - 1
        /\ \A i \in 1..(Len(m_queue) - 1) : Tail(m_queue)[i] = m_queue[i + 1]
    BY <1>1
  <1>3. /\ m_queue' = Tail(m_queue) /\ pc' = [pc EXCEPT ![t] = "write_event"]
        /\ fd' = [fd EXCEPT ![t] = m_queue[1]]
        /\ UNCHANGED <<m_fdctx, owner, m_kernel, m_watching>>
    BY <1>2 DEF next, At
  <1>4. fd[t] = None /\ None \notin Fds /\ None \notin Threads
    BY <1>1, ThreadsAssumption DEF LocksOK
  <1>5. HolderOK'
    BY <1>1, <1>3 DEF HolderOK, WatchParts, TypeOK
  <1>6. EventServedOnce'
    <2> SUFFICES ASSUME NEW f \in Fds
                 PROVE  /\ m_kernel[f] = "fired" <=>
                             \/ \E i \in 1..Len(m_queue') : m_queue'[i] = f
                             \/ \E u \in Workers : Serving(u, f)'
                        /\ \A i \in 1..Len(m_queue') : m_queue'[i] = f =>
                             /\ \A j \in 1..Len(m_queue') : m_queue'[j] = f => i = j
                             /\ \A u \in Workers : ~Serving(u, f)'
                        /\ \A u, v \in Workers : Serving(u, f)' /\ Serving(v, f)' => u = v
      BY <1>3 DEF EventServedOnce
    <2>1. \A u \in Workers : u # t => (Serving(u, f)' <=> Serving(u, f))
      BY <1>3 DEF Serving, TypeOK, Threads
    <2>2. Serving(t, f)' <=> f = m_queue[1]
      BY <1>1, <1>3 DEF Serving, TypeOK
    <2>3. ~Serving(t, f)
      BY <1>4 DEF Serving
    <2>4. \A i \in 1..Len(m_queue') : i + 1 \in 2..Len(m_queue) /\ m_queue'[i] = m_queue[i + 1]
      BY <1>2, <1>3
    <2>5. \A i \in 2..Len(m_queue) : i - 1 \in 1..Len(m_queue') /\ m_queue'[i - 1] = m_queue[i]
      BY <1>2, <1>3
    <2>6. /\ m_kernel[f] = "fired" <=>
               \/ \E i \in 1..Len(m_queue) : m_queue[i] = f
               \/ \E u \in Workers : Serving(u, f)
          /\ \A i \in 1..Len(m_queue) : m_queue[i] = f =>
               /\ \A j \in 1..Len(m_queue) : m_queue[j] = f => i = j
               /\ \A u \in Workers : ~Serving(u, f)
          /\ \A u, v \in Workers : Serving(u, f) /\ Serving(v, f) => u = v
      BY DEF EventServedOnce, WatchParts
    <2>7. CASE f = m_queue[1]
      <3>1. m_kernel[f] = "fired" /\ \A u \in Workers : ~Serving(u, f)
        BY <1>2, <2>6, <2>7
      <3>2. \A i \in 2..Len(m_queue) : m_queue[i] # f
        BY <1>2, <2>6, <2>7
      <3>3. \A i \in 1..Len(m_queue') : m_queue'[i] # f
        BY <2>4, <3>2
      <3> QED BY <2>1, <2>2, <2>7, <3>1, <3>3
    <2>8. CASE f # m_queue[1]
      <3>1. \A u \in Workers : Serving(u, f)' <=> Serving(u, f)
        BY <2>1, <2>2, <2>3, <2>8
      <3>2. (\E i \in 1..Len(m_queue') : m_queue'[i] = f)
              <=> (\E i \in 1..Len(m_queue) : m_queue[i] = f)
        <4>1. ASSUME NEW i \in 1..Len(m_queue), m_queue[i] = f
              PROVE  \E j \in 1..Len(m_queue') : m_queue'[j] = f
          <5>1. i \in 2..Len(m_queue)
            BY <1>2, <2>8, <4>1
          <5> QED BY <2>5, <4>1, <5>1
        <4>2. ASSUME NEW i \in 1..Len(m_queue'), m_queue'[i] = f
              PROVE  \E j \in 1..Len(m_queue) : m_queue[j] = f
          BY <1>2, <2>4, <4>2
        <4> QED BY <4>1, <4>2
      <3>3. \A i, j \in 1..Len(m_queue') : m_queue'[i] = f /\ m_queue'[j] = f => i = j
        <4> SUFFICES ASSUME NEW i \in 1..Len(m_queue'), NEW j \in 1..Len(m_queue'),
                            m_queue'[i] = f, m_queue'[j] = f
                     PROVE  i = j
          OBVIOUS
        <4>1. /\ m_queue[i + 1] = f /\ m_queue[j + 1] = f
              /\ i + 1 \in 1..Len(m_queue) /\ j + 1 \in 1..Len(m_queue)
          BY <1>2, <2>4
        <4>2. i + 1 = j + 1
          BY <2>6, <4>1
        <4> QED BY <1>2, <1>3, <4>2
      <3> QED BY <2>6, <3>1, <3>2, <3>3
    <2> QED BY <2>7, <2>8
  <1>7. QueuedIffWatched'
    BY <1>3 DEF QueuedIffWatched, WatchParts
  <1>8. WatchingExact'
    <2>1. \A f \in Fds : Counted(f)' <=> Counted(f)
      <3>1. \A u \in Workers : u # t => pc'[u] = pc[u]
        BY <1>3 DEF TypeOK, Threads
      <3>2. pc[t] # "clear" /\ pc'[t] # "clear"
        BY <1>1, <1>3 DEF TypeOK
      <3> QED BY <1>3, <3>1, <3>2 DEF Counted
    <2> QED BY <1>3, <2>1, CountKept DEF WatchParts
  <1> QED BY <1>5, <1>6, <1>7, <1>8 DEF WatchParts

(* write_event gets the mutex: the descriptor stays watched. *)
LEMMA WatchLock ==
  ASSUME TypeOK, LocksOK, WatchParts, NEW t \in Workers, WriteEventLock(t)
  PROVE  WatchParts'
  <1>0. /\ t \in Threads /\ t \notin Writers /\ fd[t] \in Fds /\ owner[fd[t]] = None
        /\ pc[t] = "write_event" /\ None \notin Threads /\ None \notin Writers
    BY ThreadsAssumption DEF Threads, WriteEventLock, TypeOK, LocksOK
  <1>a. m_kernel[fd[t]] = "fired"
    BY <1>0, ServedFired DEF WatchParts
  <1>b. /\ owner'[fd[t]] = t /\ \A g \in Fds : g # fd[t] => owner'[g] = owner[g]
        /\ pc' = [pc EXCEPT ![t] = "try_write"]
        /\ UNCHANGED <<m_fdctx, m_kernel, m_queue, m_watching, fd>>
    BY <1>0 DEF WriteEventLock, At, queueVars, callVars, TypeOK
  <1>c. /\ \A u \in Workers : u # t => pc'[u] = pc[u]
        /\ pc'[t] = "try_write"
    BY <1>0, <1>b DEF TypeOK, Threads
  <1>1. HolderOK'
    BY <1>0, <1>b DEF HolderOK, WatchParts, TypeOK
  <1>2. EventServedOnce'
    <2>1. \A u \in Workers, f \in Fds : Serving(u, f)' <=> Serving(u, f)
      BY <1>0, <1>b, <1>c DEF Serving
    <2> QED BY <1>b, <2>1, EventsKept DEF WatchParts
  <1>3. QueuedIffWatched'
    BY <1>0, <1>b DEF QueuedIffWatched, WatchParts
  <1>4. WatchingExact'
    <2>1. \A f \in Fds : Counted(f)' <=> Counted(f)
      BY <1>0, <1>a, <1>b, <1>c DEF Counted
    <2> QED BY <1>b, <2>1, CountKept DEF WatchParts
  <1> QED BY <1>1, <1>2, <1>3, <1>4 DEF WatchParts

(* A worker gives up the event it serves. *)
LEMMA EventEnds ==
  ASSUME TypeOK, EventServedOnce, NEW t \in Workers, NEW f \in Fds, Serving(t, f),
         NEW s, s # "fired", m_kernel' = [m_kernel EXCEPT ![f] = s], UNCHANGED m_queue,
         \A g \in Fds : ~Serving(t, g)',
         \A u \in Workers, g \in Fds : u # t => (Serving(u, g)' <=> Serving(u, g))
  PROVE  EventServedOnce'
  <1> SUFFICES ASSUME NEW g \in Fds
               PROVE  /\ m_kernel'[g] = "fired" <=>
                           \/ \E i \in 1..Len(m_queue) : m_queue[i] = g
                           \/ \E u \in Workers : Serving(u, g)'
                      /\ \A i \in 1..Len(m_queue) : m_queue[i] = g =>
                           /\ \A j \in 1..Len(m_queue) : m_queue[j] = g => i = j
                           /\ \A u \in Workers : ~Serving(u, g)'
                      /\ \A u, v \in Workers : Serving(u, g)' /\ Serving(v, g)' => u = v
    BY DEF EventServedOnce
  <1>1. CASE g = f
    <2>1. \A i \in 1..Len(m_queue) : m_queue[i] # f
      BY DEF EventServedOnce
    <2>2. \A u \in Workers : ~Serving(u, f)'
      BY DEF EventServedOnce
    <2>3. m_kernel'[f] # "fired"
      BY DEF TypeOK
    <2> QED BY <1>1, <2>1, <2>2, <2>3
  <1>2. CASE g # f
    <2>1. m_kernel'[g] = m_kernel[g] /\ ~Serving(t, g)
      BY <1>2 DEF Serving, TypeOK
    <2>2. \A u \in Workers : Serving(u, g)' <=> Serving(u, g)
      BY <2>1
    <2> QED BY <2>1, <2>2 DEF EventServedOnce
  <1> QED BY <1>1, <1>2

(* write_event re-arms the descriptor, which has more to write. *)
LEMMA WatchReactivate ==
  ASSUME TypeOK, LocksOK, WatchParts, NEW t \in Workers, Reactivate(t)
  PROVE  WatchParts'
  <1>f. fd[t] \in Fds
    BY Inside DEF Threads, Reactivate
  <1> PICK f \in Fds : f = fd[t]
    BY <1>f
  <1>0. /\ t \in Threads /\ owner[f] = t /\ pc[t] = "reactivate"
        /\ t \notin Writers /\ None \notin Threads /\ None \notin Writers /\ f # None
    BY ThreadsAssumption DEF Threads, Reactivate, TypeOK, LocksOK, LockedPCs
  <1>a. m_fdctx[f] # <<>> /\ m_kernel[f] = "fired"
    BY <1>0, ServedFired DEF HolderOK, WatchParts
  <1>b. /\ m_kernel' = [m_kernel EXCEPT ![f] = "armed"]
        /\ pc' = [pc EXCEPT ![t] = "idle"] /\ fd' = [fd EXCEPT ![t] = None]
        /\ owner'[f] = None /\ \A g \in Fds : g # f => owner'[g] = owner[g]
        /\ UNCHANGED <<m_fdctx, m_queue, m_watching>>
    BY <1>0, <1>a DEF Reactivate, reactivate, Return, Begin, Unlock, TypeOK
  <1>c. /\ \A u \in Workers : u # t => pc'[u] = pc[u] /\ fd'[u] = fd[u]
        /\ pc'[t] = "idle" /\ fd'[t] = None
        /\ \A g \in Fds : g # f => m_kernel'[g] = m_kernel[g]
        /\ m_kernel'[f] = "armed"
    BY <1>0, <1>b DEF TypeOK, Threads
  <1>1. HolderOK'
    <2>1. ASSUME NEW u \in Threads, u # t, pc[u] \in LockedPCs
          PROVE  fd[u] # f /\ fd[u] \in Fds
      BY <1>0, <2>1, Exclusive DEF TypeOK, LocksOK, LockedPCs
    <2> QED BY <1>0, <1>b, <1>c, <2>1 DEF HolderOK, WatchParts, TypeOK, LockedPCs
  <1>2. EventServedOnce'
    <2>1. Serving(t, f) /\ \A g \in Fds : ~Serving(t, g)'
      BY <1>0, <1>c, ThreadsAssumption DEF Serving
    <2>2. \A u \in Workers, g \in Fds : u # t => (Serving(u, g)' <=> Serving(u, g))
      BY <1>c DEF Serving
    <2> QED BY <1>b, <2>1, <2>2, EventEnds DEF WatchParts
  <1>3. QueuedIffWatched'
    BY <1>a, <1>b, <1>c DEF QueuedIffWatched, WatchParts
  <1>4. WatchingExact'
    <2>1. \A g \in Fds : Counted(g)' <=> Counted(g)
      BY <1>0, <1>a, <1>b, <1>c DEF Counted
    <2> QED BY <1>b, <2>1, CountKept DEF WatchParts
  <1> QED BY <1>1, <1>2, <1>3, <1>4 DEF WatchParts

(* write_event removes the descriptor, which is counted until Unwatch. *)
LEMMA WatchRemove ==
  ASSUME TypeOK, LocksOK, WatchParts, NEW t \in Workers, Remove(t)
  PROVE  WatchParts'
  <1>f. fd[t] \in Fds
    BY Inside DEF Threads, Remove
  <1> PICK f \in Fds : f = fd[t]
    BY <1>f
  <1>0. /\ t \in Threads /\ owner[f] = t /\ pc[t] = "remove"
        /\ t \notin Writers /\ t # None
    BY ThreadsAssumption DEF Threads, Remove, TypeOK, LocksOK, LockedPCs
  <1>a. m_kernel[f] = "fired"
    BY <1>0, ServedFired DEF WatchParts
  <1>b. /\ m_kernel' = [m_kernel EXCEPT ![f] = "none"]
        /\ pc' = [pc EXCEPT ![t] = "clear"]
        /\ UNCHANGED <<m_fdctx, owner, m_queue, m_watching, fd>>
    BY DEF Remove, remove, At, callVars
  <1>c. /\ \A u \in Workers : u # t => pc'[u] = pc[u]
        /\ pc'[t] = "clear" /\ m_kernel'[f] = "none"
        /\ \A g \in Fds : g # f => m_kernel'[g] = m_kernel[g]
    BY <1>0, <1>b DEF TypeOK, Threads
  <1>1. HolderOK'
    <2>1. ASSUME NEW u \in Threads, u # t, pc[u] \in LockedPCs
          PROVE  fd[u] # f /\ fd[u] \in Fds
      BY <1>0, <2>1, Exclusive DEF TypeOK, LocksOK, LockedPCs
    <2> QED BY <1>0, <1>b, <1>c, <2>1 DEF HolderOK, WatchParts, TypeOK, LockedPCs
  <1>2. EventServedOnce'
    <2>1. Serving(t, f) /\ \A g \in Fds : ~Serving(t, g)'
      BY <1>0, <1>c DEF Serving
    <2>2. \A u \in Workers, g \in Fds : u # t => (Serving(u, g)' <=> Serving(u, g))
      BY <1>b, <1>c DEF Serving
    <2> QED BY <1>b, <2>1, <2>2, EventEnds DEF WatchParts
  <1>3. QueuedIffWatched'
    BY <1>0, <1>b, <1>c DEF QueuedIffWatched, WatchParts
  <1>4. WatchingExact'
    <2>1. Counted(f) /\ Counted(f)'
      BY <1>0, <1>a, <1>b, <1>c DEF Counted
    <2>2. \A g \in Fds : g # f => owner[g] # t
      BY <1>0 DEF LocksOK
    <2>3. \A g \in Fds : g # f => (Counted(g)' <=> Counted(g))
      BY <1>b, <1>c, <2>2 DEF Counted
    <2> QED BY <1>b, <2>1, <2>3, CountKept DEF WatchParts
  <1> QED BY <1>1, <1>2, <1>3, <1>4 DEF WatchParts

(* The end of write_event: the counter, and the unlock. *)
LEMMA WatchUnwatch ==
  ASSUME TypeOK, LocksOK, WatchParts, NEW t \in Workers, Unwatch(t)
  PROVE  WatchParts'
  <1> DEFINE S == {g \in Fds : Counted(g)}
  <1>f. fd[t] \in Fds
    BY Inside DEF Threads, Unwatch
  <1> PICK f \in Fds : f = fd[t]
    BY <1>f
  <1>0. /\ t \in Threads /\ owner[f] = t /\ pc[t] = "clear" /\ m_fdctx[f] = <<>>
        /\ t \notin Writers /\ None \notin Threads
    BY ThreadsAssumption DEF Threads, Unwatch, TypeOK, LocksOK, LockedPCs
  <1>a. m_kernel[f] = "none"
    BY <1>0 DEF HolderOK, WatchParts
  <1>b. /\ m_watching' = m_watching - 1
        /\ pc' = [pc EXCEPT ![t] = "idle"] /\ fd' = [fd EXCEPT ![t] = None]
        /\ owner'[f] = None /\ \A g \in Fds : g # f => owner'[g] = owner[g]
        /\ UNCHANGED <<m_fdctx, m_kernel, m_queue>>
    BY <1>0 DEF Unwatch, Unwatched, Return, Begin, Unlock, TypeOK
  <1>c. /\ \A u \in Workers : u # t => pc'[u] = pc[u] /\ fd'[u] = fd[u]
        /\ pc'[t] = "idle" /\ fd'[t] = None
    BY <1>0, <1>b DEF TypeOK, Threads
  <1>1. HolderOK'
    BY <1>0, <1>b DEF HolderOK, WatchParts, TypeOK
  <1>2. EventServedOnce'
    <2>1. \A u \in Workers, g \in Fds : Serving(u, g)' <=> Serving(u, g)
      BY <1>0, <1>c, ThreadsAssumption DEF Serving
    <2> QED BY <1>b, <2>1, EventsKept DEF WatchParts
  <1>3. QueuedIffWatched'
    BY <1>0, <1>a, <1>b DEF QueuedIffWatched, WatchParts
  <1>4. WatchingExact'
    <2>1. f \in S
      BY <1>0 DEF Counted
    <2>2. ~Counted(f)'
      BY <1>0, <1>a, <1>b, ThreadsAssumption DEF Counted, Threads
    <2>3. \A g \in Fds : g # f => owner[g] # t
      BY <1>0 DEF LocksOK
    <2>4. \A g \in Fds : g # f => (Counted(g)' <=> Counted(g))
      BY <1>b, <1>c, <2>3 DEF Counted
    <2>5. {g \in Fds : Counted(g)'} = S \ {f}
      BY <2>2, <2>4
    <2>6. Cardinality(S \ {f}) = Cardinality(S) - 1
      BY <2>1, CountedFinite, FS_RemoveElement
    <2> QED BY <1>b, <2>5, <2>6 DEF WatchingExact, WatchParts
  <1> QED BY <1>1, <1>2, <1>3, <1>4 DEF WatchParts

(* The steps of a worker keep them. *)
LEMMA WatchWorker ==
  ASSUME TypeOK, LocksOK, WatchParts, NEW t \in Workers, WorkerStep(t)
  PROVE  WatchParts'
  <1>0. t \in Threads /\ \A f \in Fds : \A q : [m_fdctx EXCEPT ![fd[t]] = q][f] =
                           IF f = fd[t] THEN q ELSE m_fdctx[f]
    BY DEF Threads, TypeOK
  <1>1. CASE TryWriteOn(t)
    <2>1. pc[t] = "try_write" /\ pc' = [pc EXCEPT ![t] = "try_write"]
      BY <1>0, <1>1 DEF TryWriteOn, TypeOK
    <2>2. \A g \in Fds : g # fd[t] => m_fdctx'[g] = m_fdctx[g]
      BY <1>0, <1>1 DEF TryWriteOn
    <2> QED BY <1>0, <1>1, <2>1, <2>2, QuietStep
            DEF TryWriteOn, LockedPCs, queueVars, callVars
  <1>2. CASE TryWriteBlocks(t)
    <2>1. fd[t] \in Fds /\ m_fdctx[fd[t]] \in Seq(Element) /\ m_fdctx[fd[t]] # <<>>
      BY <1>0, <1>2, Inside DEF TryWriteBlocks, TypeOK
    <2>2. PICK n \in 0..(Head(m_fdctx[fd[t]]).len - 1) :
            m_fdctx' = [m_fdctx EXCEPT ![fd[t]] = Trim(m_fdctx[fd[t]], n)]
      BY <1>2 DEF TryWriteBlocks
    <2>3. Len(Trim(m_fdctx[fd[t]], n)) = Len(m_fdctx[fd[t]])
      <3>1. Head(m_fdctx[fd[t]]).len \in Nat
        BY <2>1, HeadTail DEF Element
      <3>2. n \in 0..Head(m_fdctx[fd[t]]).len
        BY <3>1
      <3> QED BY <2>1, <3>2, TrimType
    <2>4. m_fdctx'[fd[t]] # <<>> /\ \A g \in Fds : g # fd[t] => m_fdctx'[g] = m_fdctx[g]
      BY <1>0, <2>1, <2>2, <2>3
    <2> QED BY <1>0, <1>2, <2>4, QuietStep
            DEF TryWriteBlocks, At, LockedPCs, queueVars, callVars
  <1>3. CASE TryWriteDone(t)
    BY <1>0, <1>3, QuietStep DEF TryWriteDone, At, LockedPCs, queueVars, callVars
  <1>4. CASE TryWriteFails(t)
    BY <1>0, <1>4, QuietStep DEF TryWriteFails, At, LockedPCs, queueVars, callVars
  <1>5. CASE Clear(t)
    <2>1. pc[t] = "clear" /\ pc' = [pc EXCEPT ![t] = "clear"]
      BY <1>0, <1>5 DEF Clear, TypeOK
    <2>2. m_kernel[fd[t]] = "none"
      BY <1>0, <2>1 DEF HolderOK, WatchParts
    <2>3. \A g \in Fds : g # fd[t] => m_fdctx'[g] = m_fdctx[g]
      BY <1>0, <1>5 DEF Clear
    <2> QED BY <1>0, <1>5, <2>1, <2>2, <2>3, QuietStep
            DEF Clear, LockedPCs, queueVars, callVars
  <1> QED BY <1>1, <1>2, <1>3, <1>4, <1>5, WatchNext, WatchLock, WatchReactivate,
             WatchRemove, WatchUnwatch DEF WorkerStep

(* Every step keeps them. *)
LEMMA WatchStep ==
  ASSUME TypeOK, LocksOK, WatchParts, [Next]_vars
  PROVE  WatchParts'
  <1>1. ASSUME NEW t \in Writers, Called(t) PROVE WatchParts'
    <2>1. PICK f \in Fds, b \in Requests :
            Call(t, f, "write", b) \/ Call(t, f, "commit_raw", b) \/ Call(t, f, "commit", b)
      BY <1>1 DEF Called, write, commit_raw, commit
    <2> QED BY <2>1, WatchCall DEF Ops
  <1>2. CASE UNCHANGED <<m_fdctx, owner, queueVars, pc, callVars>>
    <2>1. UNCHANGED <<m_fdctx, owner, m_kernel, m_queue, m_watching, pc, fd>>
      BY <1>2 DEF queueVars, callVars
    <2>2. HolderOK' /\ QueuedIffWatched'
      BY <2>1 DEF HolderOK, QueuedIffWatched, WatchParts
    <2>3. EventServedOnce'
      BY <2>1, EventsKept DEF WatchParts, Serving
    <2>4. WatchingExact'
      BY <2>1, CountKept DEF WatchParts, Counted
    <2> QED BY <2>2, <2>3, <2>4 DEF WatchParts
  <1> QED BY <1>1, <1>2, WatchWriter, WatchWorker, WatchPoll
          DEF Next, Drain, PeerReset, Quiescent, vars

(* They hold at the start. *)
LEMMA WatchInit == Init => WatchParts
  <1> SUFFICES ASSUME Init PROVE WatchParts
    OBVIOUS
  <1>0. \A t \in Threads : pc[t] = "idle" /\ fd[t] = None
    BY DEF Init
  <1>1. HolderOK
    BY <1>0 DEF HolderOK
  <1>2. EventServedOnce
    <2>1. \A t \in Workers, f \in Fds : ~Serving(t, f)
      BY <1>0, ThreadsAssumption DEF Serving, Threads
    <2> QED BY <2>1 DEF EventServedOnce, Init
  <1>3. QueuedIffWatched
    BY DEF QueuedIffWatched, Init
  <1>4. WatchingExact
    <2>1. \A f \in Fds : ~Counted(f)
      BY ThreadsAssumption DEF Init, Counted, Threads
    <2>2. {f \in Fds : Counted(f)} = {}
      BY <2>1
    <2> QED BY <2>2, FS_EmptySet DEF WatchingExact, Init
  <1> QED BY <1>1, <1>2, <1>3, <1>4 DEF WatchParts

(* The inductive invariant of watching: who holds a mutex knows the queue  *)
(* and the interest list of its descriptor, every fired event is served by *)
(* one worker, a free descriptor is watched exactly if data is queued, and *)
(* m_watching counts the watched ones.                                     *)
THEOREM WatchCorrect == Spec => []WatchInv
  <1>1. WatchInv /\ [Next]_vars => WatchInv'
    BY TypeStep, LocksStep, WatchStep DEF WatchInv, WatchParts
  <1>2. Init => WatchInv
    BY TypeInit, WatchInit DEF WatchInv, WatchParts
  <1> QED BY <1>1, <1>2, PTL DEF Spec

(* The one-shot event of a descriptor is served by one worker, once. *)
THEOREM EventsServedOnce == Spec => []EventServedOnce
  <1>1. WatchInv => EventServedOnce
    BY DEF WatchInv
  <1> QED BY <1>1, WatchCorrect, PTL

(* write, commit_raw, commit and write_event never leave queued data       *)
(* without a registration that will report the socket writable.            *)
THEOREM QueuesWatched == Spec => []QueuedIffWatched
  <1>1. WatchInv => QueuedIffWatched
    BY DEF WatchInv
  <1> QED BY <1>1, WatchCorrect, PTL

(* The counter that flush() waits for reaches zero only when nothing is    *)
(* queued, but for a caller that has not returned from commit() yet.       *)
THEOREM FlushSound == Spec => []FlushWaitsForData
  <1>1. ASSUME WatchInv PROVE FlushWaitsForData
    <2> SUFFICES ASSUME m_watching = 0, NEW f \in Fds, m_fdctx[f] # <<>>,
                        owner[f] \notin Writers
                 PROVE  FALSE
      BY DEF FlushWaitsForData
    <2>1. {g \in Fds : Counted(g)} = {}
      BY <1>1, CountedFinite, FS_EmptySet DEF WatchInv, WatchingExact
    <2>2. m_kernel[f] = "none"
      BY <2>1 DEF Counted
    <2>3. owner[f] # None
      BY <1>1, <2>2 DEF WatchInv, QueuedIffWatched
    <2>4. PICK t \in Workers : t = owner[f]
      BY <1>1, <2>3 DEF WatchInv, TypeOK, Threads
    <2>5. fd[t] = f /\ pc[t] \in LockedPCs /\ pc[t] \in WorkerPCs
      BY <1>1, <2>4 DEF WatchInv, LocksOK, Threads
    <2>6. pc[t] = "clear"
      BY <1>1, <2>2, <2>5, ServedFired DEF WatchInv
    <2> QED BY <2>1, <2>4, <2>6 DEF Counted
  <1> QED BY <1>1, WatchCorrect, PTL

-----------------------------------------------------------------------------
(* Parts of a stream.                                                      *)

(* A nonempty set of numbers has a least element: the form in which the    *)
(* proofs below use induction.                                             *)
LEMMA LeastNat ==
  ASSUME NEW T \in SUBSET Nat, T # {}
  PROVE  \E n \in T : \A m \in T : n <= m
  <1> DEFINE R == {ss \in Nat \X Nat : ss[1] < ss[2]}
  <1>1. IsWellFoundedOn(R, Nat)
    BY NatLessThanWellFounded DEF OpToRel
  <1> HIDE DEF R
  <1>2. PICK n \in T : \A m \in T : <<m, n>> \notin R
    BY <1>1, WFMin
  <1>3. \A m \in T : n <= m
    <2> SUFFICES ASSUME NEW m \in T, m < n PROVE FALSE
      OBVIOUS
    <2>1. m \in Nat /\ n \in Nat
      OBVIOUS
    <2>2. <<m, n>> \in Nat \X Nat /\ <<m, n>>[1] = m /\ <<m, n>>[2] = n
      BY <2>1
    <2>3. <<m, n>> \in R
      BY <2>2 DEF R
    <2> QED BY <1>2, <2>3
  <1> QED BY <1>3

(* The fields of an element of a buffer. *)
LEMMA Fields ==
  ASSUME NEW b \in Seq(Element), NEW i \in 1..Len(b)
  PROVE  /\ b[i] \in Element
         /\ b[i].type \in {"data", "finalize"} /\ b[i].pos \in Nat
         /\ b[i].len \in Nat /\ b[i].fin \in Nat
  <1>1. b[i] \in Element
    OBVIOUS
  <1> QED BY <1>1 DEF Element

(* Element d comes before element e in a stream. *)
Before(d, e) ==
  /\ d.pos + d.len <= e.pos /\ d.fin <= e.fin
  /\ e.type = "finalize" => d.fin < e.fin

(* What follows an element comes after all that is before the element. *)
LEMMA BeforeNext ==
  ASSUME NEW d \in Element, NEW e \in Element, NEW g \in Element,
         d = e \/ Before(d, e), Follows(e.pos + e.len, e.fin, g)
  PROVE  Before(d, g)
  BY DEF Before, Follows, Element

(* The elements of a part of a stream are in the order of their positions, *)
(* and its finalizers in the order of their numbers.                       *)
LEMMA Ordered ==
  ASSUME NEW b, IsPart(b), NEW i \in 1..Len(b), NEW j \in 1..Len(b), i < j
  PROVE  Before(b[i], b[j])
  <1> DEFINE T == {m \in 1..Len(b) : i < m /\ ~Before(b[i], b[m])}
  <1>0. b \in Seq(Element) /\ Len(b) \in Nat
    BY DEF IsPart
  <1> SUFFICES ASSUME T # {} PROVE FALSE
    <2>1. j \notin T => Before(b[i], b[j])
      OBVIOUS
    <2> QED BY <2>1
  <1>1. T \in SUBSET Nat
    BY <1>0
  <1> HIDE DEF T
  <1>2. PICK m \in T : \A k \in T : m <= k
    BY <1>1, LeastNat
  <1>3. m \in 1..Len(b) /\ i < m /\ ~Before(b[i], b[m])
    BY <1>2 DEF T
  <1>4. PICK p \in 1..Len(b) : p = m - 1
    BY <1>0, <1>3
  <1>5. i < p => Before(b[i], b[p])
    BY <1>0, <1>2, <1>3, <1>4 DEF T
  <1>6. Follows(b[p].pos + b[p].len, b[p].fin, b[m])
    <2>1. p \in 1..(Len(b) - 1) /\ p + 1 = m
      BY <1>0, <1>3, <1>4
    <2> QED BY <2>1 DEF IsPart, Chained
  <1>7. b[i] \in Element /\ b[p] \in Element /\ b[m] \in Element
    BY <1>0, <1>3, <1>4
  <1>8. p = i \/ Before(b[i], b[p])
    BY <1>3, <1>4, <1>5
  <1> QED BY <1>3, <1>6, <1>7, <1>8, BeforeNext

(* What the push_ operations number: the finalizers of a buffer are 1 to   *)
(* their count.                                                            *)
LEMMA XferFins ==
  ASSUME NEW b, IsXfer(b)
  PROVE  FinalizersIn(b) = 1..Finalizers(b)
  <1>0. b \in Seq(Element) /\ Len(b) \in Nat /\ IsPart(b)
    BY DEF IsXfer, IsPart
  <1>1. CASE b = <<>>
    BY <1>1 DEF FinalizersIn, Finalizers
  <1>2. CASE b # <<>>
    <2> DEFINE n == Len(b)
    <2>1. n \in 1..n /\ 1 \in 1..n /\ Finalizers(b) = b[n].fin
      BY <1>0, <1>2 DEF Finalizers
    <2>2. \A i \in 1..n : b[i].fin \in Nat /\ b[i].type \in {"data", "finalize"}
      BY <1>0, Fields
    <2>3. b[1].fin = IF b[1].type = "finalize" THEN 1 ELSE 0
      BY <1>2 DEF IsXfer, Follows
    <2>4. ASSUME NEW i \in 1..n, b[i].type = "finalize"
          PROVE  b[i].fin \in 1..Finalizers(b)
      <3>1. 1 <= b[i].fin
        <4>1. CASE i = 1
          BY <2>3, <2>4, <4>1
        <4>2. CASE i # 1
          <5>1. Before(b[1], b[i])
            BY <1>0, <2>1, <4>2, Ordered
          <5> QED BY <2>1, <2>2, <2>4, <5>1 DEF Before
        <4> QED BY <4>1, <4>2
      <3>2. b[i].fin <= b[n].fin
        <4>1. CASE i = n
          BY <2>2, <4>1
        <4>2. CASE i # n
          <5>1. Before(b[i], b[n])
            BY <1>0, <2>1, <4>2, Ordered
          <5> QED BY <5>1 DEF Before
        <4> QED BY <4>1, <4>2
      <3> QED BY <2>1, <2>2, <3>1, <3>2
    <2>5. ASSUME NEW k \in 1..Finalizers(b)
          PROVE  \E i \in 1..n : b[i].type = "finalize" /\ b[i].fin = k
      <3> DEFINE T == {i \in 1..n : k <= b[i].fin}
      <3>1. T \in SUBSET Nat /\ T # {}
        <4>1. n \in T
          BY <2>1
        <4> QED BY <4>1
      <3> HIDE DEF T
      <3>2. PICK i \in T : \A j \in T : i <= j
        BY <3>1, LeastNat
      <3> USE DEF T
      <3>3. i \in 1..n /\ k <= b[i].fin
        BY <3>2
      <3>4. CASE i = 1
        BY <2>2, <2>3, <3>3, <3>4
      <3>5. CASE i # 1
        <4>1. i - 1 \in 1..n /\ i - 1 \in 1..(n - 1) /\ (i - 1) + 1 = i
          BY <1>0, <3>3, <3>5
        <4>2. b[i - 1].fin < k
          BY <2>2, <3>2, <4>1
        <4>3. Follows(b[i - 1].pos + b[i - 1].len, b[i - 1].fin, b[i])
          BY <1>0, <4>1 DEF IsPart, Chained
        <4> QED BY <2>2, <3>3, <4>1, <4>2, <4>3 DEF Follows
      <3> QED BY <3>4, <3>5
    <2> QED BY <2>4, <2>5 DEF FinalizersIn
  <1> QED BY <1>1, <1>2

(* Without its head a part of a stream is a part of it. *)
LEMMA TailPart ==
  ASSUME NEW b, IsPart(b), b # <<>>
  PROVE  /\ IsPart(Tail(b))
         /\ Tail(b) = <<>> => Size(b) = b[1].pos + b[1].len /\ Finalizers(b) = b[1].fin
         /\ Tail(b) # <<>> => /\ Size(Tail(b)) = Size(b)
                              /\ Finalizers(Tail(b)) = Finalizers(b)
                              /\ Tail(b)[1] \in Element
                              /\ Follows(b[1].pos + b[1].len, b[1].fin, Tail(b)[1])
  <1>0. b \in Seq(Element)
    BY DEF IsPart
  <1> DEFINE c == Tail(b)
  <1>1. /\ Len(b) \in Nat \ {0} /\ c \in Seq(Element) /\ Len(c) = Len(b) - 1
        /\ \A i \in 1..Len(c) : c[i] = b[i + 1]
    BY <1>0, HeadTail
  <1> HIDE DEF c
  <1>2. IsPart(c)
    <2>1. Chained(c)
      <3> SUFFICES ASSUME NEW i \in 1..(Len(c) - 1)
                   PROVE  Follows(c[i].pos + c[i].len, c[i].fin, c[i + 1])
        BY DEF Chained
      <3>1. i + 1 \in 1..(Len(b) - 1) /\ c[i] = b[i + 1] /\ c[i + 1] = b[(i + 1) + 1]
        BY <1>1
      <3> QED BY <3>1 DEF IsPart, Chained
    <2>2. \A i \in 1..Len(c) : c[i].type = "finalize" => c[i].len = 0
      <3> SUFFICES ASSUME NEW i \in 1..Len(c) PROVE c[i].type = "finalize" => c[i].len = 0
        OBVIOUS
      <3>1. i + 1 \in 1..Len(b) /\ c[i] = b[i + 1]
        BY <1>1
      <3> QED BY <3>1 DEF IsPart
    <2> QED BY <1>1, <2>1, <2>2 DEF IsPart
  <1>3. CASE c = <<>>
    <2>1. Len(b) = 1
      BY <1>1, <1>3
    <2> QED BY <1>2, <1>3, <2>1 DEF Size, Finalizers, c
  <1>4. CASE c # <<>>
    <2>1. Len(c) \in 1..Len(c) /\ 1 \in 1..Len(c) /\ 1 \in 1..(Len(b) - 1)
      BY <1>1, <1>4
    <2>2. c[Len(c)] = b[Len(b)] /\ c[1] = b[1 + 1] /\ c[1] \in Element
      BY <1>1, <2>1
    <2>3. Follows(b[1].pos + b[1].len, b[1].fin, b[1 + 1])
      BY <2>1 DEF IsPart, Chained
    <2> QED BY <1>2, <1>4, <2>2, <2>3 DEF Size, Finalizers, c
  <1> QED BY <1>3, <1>4

(* After a short write what is left is a part of the stream. *)
LEMMA TrimPart ==
  ASSUME NEW b, IsPart(b), b # <<>>, b[1].type = "data", NEW n \in 0..b[1].len
  PROVE  /\ IsPart(Trim(b, n)) /\ Trim(b, n) # <<>>
         /\ Trim(b, n)[1] = El("data", b[1].pos + n, b[1].len - n, b[1].fin)
         /\ Size(Trim(b, n)) = Size(b) /\ Finalizers(Trim(b, n)) = Finalizers(b)
  <1>0. b \in Seq(Element)
    BY DEF IsPart
  <1> DEFINE c == Trim(b, n)
             h == El("data", b[1].pos + n, b[1].len - n, b[1].fin)
  <1>1. Len(b) \in Nat \ {0} /\ Head(b) = b[1] /\ b[1] \in Element
    BY <1>0, HeadTail
  <1>2. /\ c \in Seq(Element) /\ Len(c) = Len(b) /\ c[1] = h
        /\ \A i \in 2..Len(b) : c[i] = b[i]
    BY <1>0, <1>1, TrimType
  <1>3. /\ h.pos + h.len = b[1].pos + b[1].len /\ h.fin = b[1].fin /\ h.type = "data"
    BY <1>1 DEF El, Element
  <1> HIDE DEF c, h
  <1>4. Chained(c)
    <2> SUFFICES ASSUME NEW i \in 1..(Len(c) - 1)
                 PROVE  Follows(c[i].pos + c[i].len, c[i].fin, c[i + 1])
      BY DEF Chained
    <2>1. i \in 1..(Len(b) - 1) /\ i + 1 \in 2..Len(b) /\ i \in 1..Len(b)
      BY <1>1, <1>2
    <2>2. Follows(b[i].pos + b[i].len, b[i].fin, b[i + 1]) /\ c[i + 1] = b[i + 1]
      BY <1>2, <2>1 DEF IsPart, Chained
    <2>3. c[i].pos + c[i].len = b[i].pos + b[i].len /\ c[i].fin = b[i].fin
      <3>1. CASE i = 1
        BY <1>2, <1>3, <3>1
      <3>2. CASE i # 1
        <4>1. i \in 2..Len(b)
          BY <2>1, <3>2
        <4> QED BY <1>2, <4>1
      <3> QED BY <3>1, <3>2
    <2> QED BY <2>2, <2>3
  <1>5. \A i \in 1..Len(c) : c[i].type = "finalize" => c[i].len = 0
    <2> SUFFICES ASSUME NEW i \in 1..Len(c), c[i].type = "finalize" PROVE c[i].len = 0
      OBVIOUS
    <2>1. i # 1
      BY <1>2, <1>3
    <2>2. i \in 2..Len(b) /\ i \in 1..Len(b) /\ c[i] = b[i]
      BY <1>2, <2>1
    <2> QED BY <2>2 DEF IsPart
  <1>6. c # <<>>
    BY <1>1, <1>2
  <1>7. Size(c) = Size(b) /\ Finalizers(c) = Finalizers(b)
    <2>1. CASE Len(b) = 1
      BY <1>2, <1>3, <1>6, <2>1 DEF Size, Finalizers
    <2>2. CASE Len(b) # 1
      <3>1. c[Len(c)] = b[Len(b)]
        BY <1>1, <1>2, <2>2
      <3> QED BY <1>6, <3>1 DEF Size, Finalizers
    <2> QED BY <2>1, <2>2
  <1> QED BY <1>2, <1>4, <1>5, <1>6, <1>7 DEF IsPart, c, h

(* Element d of a call's buffer, renumbered. *)
Shift(d, a, k) == El(d.type, d.pos + a, d.len, d.fin + k)

(* Renumbering keeps neighbours neighbours. *)
LEMMA FollowsShift ==
  ASSUME NEW d \in Element, NEW e \in Element, NEW a \in Nat, NEW k \in Nat,
         Follows(d.pos + d.len, d.fin, e)
  PROVE  Follows(Shift(d, a, k).pos + Shift(d, a, k).len, Shift(d, a, k).fin, Shift(e, a, k))
  BY DEF Follows, Shift, El, Element

(* A call's buffer, renumbered, continues the stream. *)
LEMMA RebasePart ==
  ASSUME NEW x, IsXfer(x), NEW a \in Nat, NEW k \in Nat
  PROVE  /\ IsPart(Rebase(x, a, k)) /\ Len(Rebase(x, a, k)) = Len(x)
         /\ Rebase(x, a, k) = <<>> <=> x = <<>>
         /\ x # <<>> => /\ Follows(a, k, Rebase(x, a, k)[1])
                        /\ Size(Rebase(x, a, k)) = a + Size(x)
                        /\ Finalizers(Rebase(x, a, k)) = k + Finalizers(x)
  <1>0. x \in Seq(Element) /\ IsPart(x)
    BY DEF IsXfer, IsPart
  <1> DEFINE c == Rebase(x, a, k)
  <1>1. /\ c \in Seq(Element) /\ Len(c) = Len(x)
        /\ \A i \in 1..Len(x) : c[i] = Shift(x[i], a, k)
    BY <1>0, RebaseType DEF Shift
  <1> HIDE DEF c
  <1>2. \A i \in 1..Len(x) : /\ c[i].type = x[i].type /\ c[i].pos = x[i].pos + a
                             /\ c[i].len = x[i].len /\ c[i].fin = x[i].fin + k
    <2> SUFFICES ASSUME NEW i \in 1..Len(x)
                 PROVE  /\ c[i].type = x[i].type /\ c[i].pos = x[i].pos + a
                        /\ c[i].len = x[i].len /\ c[i].fin = x[i].fin + k
      OBVIOUS
    <2>1. c[i] = Shift(x[i], a, k)
      BY <1>1
    <2> QED BY <2>1 DEF Shift, El
  <1>3. \A i \in 1..Len(x) : x[i].pos \in Nat /\ x[i].len \in Nat /\ x[i].fin \in Nat
    BY <1>0, Fields
  <1>4. Chained(c)
    <2> SUFFICES ASSUME NEW i \in 1..(Len(c) - 1)
                 PROVE  Follows(c[i].pos + c[i].len, c[i].fin, c[i + 1])
      BY DEF Chained
    <2>1. PICK j \in 1..Len(x) : j = i + 1
      BY <1>0, <1>1
    <2>2. i \in 1..Len(x) /\ i \in 1..(Len(x) - 1)
      BY <1>0, <1>1
    <2>3. Follows(x[i].pos + x[i].len, x[i].fin, x[j])
      BY <1>0, <2>1, <2>2 DEF IsPart, Chained
    <2>4. Follows(c[i].pos + c[i].len, c[i].fin, c[j])
      <3>1. x[i] \in Element /\ x[j] \in Element
        BY <1>0, <2>2
      <3>2. c[i] = Shift(x[i], a, k) /\ c[j] = Shift(x[j], a, k)
        BY <1>1, <2>2
      <3> QED BY <2>3, <3>1, <3>2, FollowsShift
    <2> QED BY <2>1, <2>4
  <1>5. \A i \in 1..Len(c) : c[i].type = "finalize" => c[i].len = 0
    BY <1>0, <1>1, <1>2 DEF IsPart
  <1>6. c = <<>> <=> x = <<>>
    BY <1>0, <1>1
  <1>7. ASSUME x # <<>>
        PROVE  /\ Follows(a, k, c[1]) /\ Size(c) = a + Size(x)
               /\ Finalizers(c) = k + Finalizers(x)
    <2>1. 1 \in 1..Len(x) /\ Len(x) \in 1..Len(x)
      BY <1>0, <1>7
    <2>2. Follows(a, k, c[1])
      BY <1>2, <1>3, <1>7, <2>1 DEF Follows, IsXfer
    <2>3. Size(c) = a + Size(x) /\ Finalizers(c) = k + Finalizers(x)
      BY <1>1, <1>2, <1>3, <1>6, <1>7, <2>1 DEF Size, Finalizers
    <2> QED BY <2>2, <2>3
  <1> QED BY <1>1, <1>4, <1>5, <1>6, <1>7 DEF IsPart, c

(* Two parts of which the second follows the first are one part. *)
LEMMA JoinPart ==
  ASSUME NEW b, NEW c, IsPart(b), IsPart(c), b # <<>>,
         c # <<>> => Follows(Size(b), Finalizers(b), c[1])
  PROVE  /\ IsPart(b \o c) /\ b \o c # <<>> /\ (b \o c)[1] = b[1]
         /\ Size(b \o c) = IF c = <<>> THEN Size(b) ELSE Size(c)
         /\ Finalizers(b \o c) = IF c = <<>> THEN Finalizers(b) ELSE Finalizers(c)
  <1>0. b \in Seq(Element) /\ c \in Seq(Element) /\ Len(b) \in Nat \ {0} /\ Len(c) \in Nat
    BY DEF IsPart
  <1> DEFINE d == b \o c
  <1>1. /\ d \in Seq(Element) /\ Len(d) = Len(b) + Len(c)
        /\ \A i \in 1..Len(b) : d[i] = b[i]
        /\ \A i \in 1..Len(c) : d[Len(b) + i] = c[i]
    BY <1>0
  <1> HIDE DEF d
  <1>2. Chained(d)
    <2> SUFFICES ASSUME NEW i \in 1..(Len(d) - 1)
                 PROVE  Follows(d[i].pos + d[i].len, d[i].fin, d[i + 1])
      BY DEF Chained
    <2>1. CASE i < Len(b)
      <3>1. i \in 1..Len(b) /\ i + 1 \in 1..Len(b) /\ i \in 1..(Len(b) - 1)
        BY <1>0, <2>1
      <3>2. Follows(b[i].pos + b[i].len, b[i].fin, b[i + 1])
        BY <3>1 DEF IsPart, Chained
      <3>3. d[i] = b[i] /\ d[i + 1] = b[i + 1]
        BY <1>1, <3>1
      <3> QED BY <3>2, <3>3
    <2>2. CASE i = Len(b)
      <3>1. 1 \in 1..Len(c) /\ Len(b) \in 1..Len(b) /\ c # <<>>
        BY <1>0, <1>1, <2>2
      <3>2. d[i] = b[Len(b)] /\ d[i + 1] = c[1]
        BY <1>1, <2>2, <3>1
      <3>3. Follows(b[Len(b)].pos + b[Len(b)].len, b[Len(b)].fin, c[1])
        BY <3>1 DEF Size, Finalizers
      <3> QED BY <3>2, <3>3
    <2>3. CASE i > Len(b)
      <3>1. PICK j \in 1..(Len(c) - 1) : i = Len(b) + j
        <4>1. i - Len(b) \in 1..(Len(c) - 1) /\ i = Len(b) + (i - Len(b))
          BY <1>0, <1>1, <2>3
        <4> QED BY <4>1
      <3>2. j \in 1..Len(c) /\ j + 1 \in 1..Len(c) /\ i + 1 = Len(b) + (j + 1)
        BY <1>0, <3>1
      <3>3. d[i] = c[j] /\ d[i + 1] = c[j + 1]
        BY <1>1, <3>1, <3>2
      <3>4. Follows(c[j].pos + c[j].len, c[j].fin, c[j + 1])
        BY DEF IsPart, Chained
      <3> QED BY <3>3, <3>4
    <2> QED BY <1>0, <1>1, <2>1, <2>2, <2>3
  <1>3. \A i \in 1..Len(d) : d[i].type = "finalize" => d[i].len = 0
    <2> SUFFICES ASSUME NEW i \in 1..Len(d) PROVE d[i].type = "finalize" => d[i].len = 0
      OBVIOUS
    <2>1. CASE i <= Len(b)
      <3>1. i \in 1..Len(b) /\ d[i] = b[i]
        BY <1>0, <1>1, <2>1
      <3> QED BY <3>1 DEF IsPart
    <2>2. CASE i > Len(b)
      <3>1. PICK j \in 1..Len(c) : i = Len(b) + j
        <4>1. i - Len(b) \in 1..Len(c) /\ i = Len(b) + (i - Len(b))
          BY <1>0, <1>1, <2>2
        <4> QED BY <4>1
      <3>2. d[i] = c[j]
        BY <1>1, <3>1
      <3> QED BY <3>2 DEF IsPart
    <2> QED BY <1>0, <1>1, <2>1, <2>2
  <1>4. d # <<>> /\ d[1] = b[1]
    BY <1>0, <1>1
  <1>5. /\ Size(d) = IF c = <<>> THEN Size(b) ELSE Size(c)
        /\ Finalizers(d) = IF c = <<>> THEN Finalizers(b) ELSE Finalizers(c)
    <2>1. CASE c = <<>>
      <3>1. d[Len(d)] = b[Len(b)]
        BY <1>0, <1>1, <2>1
      <3> QED BY <1>4, <2>1, <3>1 DEF Size, Finalizers
    <2>2. CASE c # <<>>
      <3>1. Len(c) \in 1..Len(c)
        BY <1>0, <2>2
      <3>2. d[Len(d)] = c[Len(c)]
        BY <1>1, <3>1
      <3> QED BY <1>4, <2>2, <3>2 DEF Size, Finalizers
    <2> QED BY <2>1, <2>2
  <1> QED BY <1>1, <1>2, <1>3, <1>4, <1>5 DEF IsPart, d

-----------------------------------------------------------------------------
(* The finalizers of a buffer.                                             *)

(* What it is to be a finalizer of a buffer. *)
LEMMA FinsMember ==
  ASSUME NEW b
  PROVE  /\ \A k : k \in FinalizersIn(b) <=>
                   \E i \in 1..Len(b) : b[i].type = "finalize" /\ b[i].fin = k
         /\ \A e : e \in FinsOf(b) <=>
                   \E i \in 1..Len(b) : b[i].type = "finalize" /\ b[i] = e
  BY DEF FinalizersIn, FinsOf

(* Every finalizer of b is also in c, or among those excepted. *)
Within(b, c, E) ==
  \A i \in 1..Len(b) : b[i].type = "finalize" =>
     b[i] \in E \/ \E j \in 1..Len(c) : c[j] = b[i]

(* A buffer made of another and of E has the finalizers of both at most. *)
LEMMA FinsWithin ==
  ASSUME NEW b, NEW c, NEW E, Within(b, c, E)
  PROVE  /\ \A k \in FinalizersIn(b) : k \in FinalizersIn(c) \/ \E e \in E : e.fin = k
         /\ \A e \in FinsOf(b) : e \in FinsOf(c) \/ e \in E
  <1>1. ASSUME NEW k \in FinalizersIn(b)
        PROVE  k \in FinalizersIn(c) \/ \E e \in E : e.fin = k
    <2>1. PICK i \in 1..Len(b) : b[i].type = "finalize" /\ b[i].fin = k
      BY FinsMember
    <2>2. CASE b[i] \in E
      BY <2>1, <2>2
    <2>3. CASE \E j \in 1..Len(c) : c[j] = b[i]
      <3>1. PICK j \in 1..Len(c) : c[j] = b[i]
        BY <2>3
      <3>2. c[j].type = "finalize" /\ c[j].fin = k
        BY <2>1, <3>1
      <3> QED BY <3>2, FinsMember
    <2> QED BY <2>1, <2>2, <2>3 DEF Within
  <1>2. ASSUME NEW e \in FinsOf(b), e \notin E
        PROVE  e \in FinsOf(c)
    <2>1. PICK i \in 1..Len(b) : b[i].type = "finalize" /\ b[i] = e
      BY FinsMember
    <2>2. PICK j \in 1..Len(c) : c[j] = e
      BY <1>2, <2>1 DEF Within
    <2>3. c[j].type = "finalize"
      BY <2>1, <2>2
    <2> QED BY <2>2, <2>3, FinsMember
  <1> QED BY <1>1, <1>2

(* An empty buffer has none. *)
LEMMA FinsEmpty == FinalizersIn(<<>>) = {} /\ FinsOf(<<>>) = {}
  BY DEF FinalizersIn, FinsOf

(* The head of a part leaves, and nothing else. *)
LEMMA FinsTail ==
  ASSUME NEW b, IsPart(b), b # <<>>
  PROVE  /\ b[1].type # "finalize" => /\ FinalizersIn(Tail(b)) = FinalizersIn(b)
                                      /\ FinsOf(Tail(b)) = FinsOf(b)
         /\ b[1].type = "finalize" =>
              /\ b[1].fin \in FinalizersIn(b) /\ b[1] \in FinsOf(b)
              /\ FinalizersIn(Tail(b)) = FinalizersIn(b) \ {b[1].fin}
              /\ FinsOf(Tail(b)) = FinsOf(b) \ {b[1]}
  <1>0. b \in Seq(Element)
    BY DEF IsPart
  <1> DEFINE c == Tail(b)
  <1>1. /\ Len(b) \in Nat \ {0} /\ c \in Seq(Element) /\ Len(c) = Len(b) - 1
        /\ \A i \in 1..Len(c) : c[i] = b[i + 1]
    BY <1>0, HeadTail
  <1> HIDE DEF c
  <1>2. \A i \in 1..Len(b) : i # 1 => \E j \in 1..Len(c) : c[j] = b[i]
    <2> SUFFICES ASSUME NEW i \in 1..Len(b), i # 1 PROVE \E j \in 1..Len(c) : c[j] = b[i]
      OBVIOUS
    <2>1. i - 1 \in 1..Len(c) /\ (i - 1) + 1 = i
      BY <1>1
    <2> QED BY <1>1, <2>1
  <1>3. \A j \in 1..Len(c) : \E i \in 1..Len(b) : i # 1 /\ c[j] = b[i]
    <2> SUFFICES ASSUME NEW j \in 1..Len(c)
                 PROVE  \E i \in 1..Len(b) : i # 1 /\ c[j] = b[i]
      OBVIOUS
    <2>1. j + 1 \in 1..Len(b) /\ j + 1 # 1
      BY <1>1
    <2> QED BY <1>1, <2>1
  <1>4. 1 \in 1..Len(b)
    BY <1>1
  <1>5. \A i \in 1..Len(b) : i # 1 /\ b[i].type = "finalize" => b[i].fin # b[1].fin
    <2> SUFFICES ASSUME NEW i \in 1..Len(b), i # 1, b[i].type = "finalize"
                 PROVE  b[i].fin # b[1].fin
      OBVIOUS
    <2>1. Before(b[1], b[i])
      BY <1>1, <1>4, Ordered
    <2>2. b[1].fin < b[i].fin /\ b[1].fin \in Nat
      BY <1>0, <1>4, <2>1, Fields DEF Before
    <2> QED BY <2>2
  <1>6. CASE b[1].type # "finalize"
    <2>1. Within(b, c, {})
      BY <1>2, <1>6 DEF Within
    <2>2. Within(c, b, {})
      BY <1>3 DEF Within
    <2>3. FinalizersIn(c) = FinalizersIn(b) /\ FinsOf(c) = FinsOf(b)
      <3>1. /\ \A k \in FinalizersIn(b) : k \in FinalizersIn(c)
            /\ \A e \in FinsOf(b) : e \in FinsOf(c)
        BY <2>1, FinsWithin
      <3>2. /\ \A k \in FinalizersIn(c) : k \in FinalizersIn(b)
            /\ \A e \in FinsOf(c) : e \in FinsOf(b)
        BY <2>2, FinsWithin
      <3> QED BY <3>1, <3>2
    <2> QED BY <1>6, <2>3 DEF c
  <1>7. CASE b[1].type = "finalize"
    <2>1. b[1].fin \in FinalizersIn(b) /\ b[1] \in FinsOf(b)
      BY <1>4, <1>7 DEF FinalizersIn, FinsOf
    <2>a. Within(b, c, {b[1]})
      BY <1>2 DEF Within
    <2>b. Within(c, b, {})
      BY <1>3 DEF Within
    <2>c. /\ \A k \in FinalizersIn(b) : k \in FinalizersIn(c) \/ k = b[1].fin
          /\ \A e \in FinsOf(b) : e \in FinsOf(c) \/ e = b[1]
      BY <2>a, FinsWithin
    <2>d. /\ \A k \in FinalizersIn(c) : k \in FinalizersIn(b)
          /\ \A e \in FinsOf(c) : e \in FinsOf(b)
      BY <2>b, FinsWithin
    <2>e. \A i \in 1..Len(c) : c[i].type = "finalize" => c[i].fin # b[1].fin
      BY <1>3, <1>5
    <2>f. b[1].fin \notin FinalizersIn(c) /\ b[1] \notin FinsOf(c)
      BY <2>e, FinsMember
    <2>2. FinalizersIn(c) = FinalizersIn(b) \ {b[1].fin}
      BY <2>c, <2>d, <2>f
    <2>3. FinsOf(c) = FinsOf(b) \ {b[1]}
      BY <2>c, <2>d, <2>f
    <2> QED BY <1>7, <2>1, <2>2, <2>3 DEF c
  <1> QED BY <1>6, <1>7

(* A short write touches no finalizer. *)
LEMMA FinsTrim ==
  ASSUME NEW b, IsPart(b), b # <<>>, b[1].type = "data", NEW n \in 0..b[1].len
  PROVE  FinalizersIn(Trim(b, n)) = FinalizersIn(b) /\ FinsOf(Trim(b, n)) = FinsOf(b)
  <1>0. b \in Seq(Element) /\ Head(b) = b[1]
    BY HeadTail DEF IsPart
  <1> DEFINE c == Trim(b, n)
  <1>1. /\ Len(c) = Len(b) /\ c[1].type = "data"
        /\ \A i \in 2..Len(b) : c[i] = b[i]
    <2>1. c[1] = El("data", b[1].pos + n, b[1].len - n, b[1].fin)
      BY TrimPart
    <2>2. Len(c) = Len(b) /\ \A i \in 2..Len(b) : c[i] = b[i]
      BY <1>0, TrimType
    <2> QED BY <2>1, <2>2 DEF El
  <1> HIDE DEF c
  <1>2. \A i \in 1..Len(b) : /\ b[i].type = "finalize" <=> c[i].type = "finalize"
                             /\ b[i].type = "finalize" => c[i] = b[i]
    <2> SUFFICES ASSUME NEW i \in 1..Len(b)
                 PROVE  /\ b[i].type = "finalize" <=> c[i].type = "finalize"
                        /\ b[i].type = "finalize" => c[i] = b[i]
      OBVIOUS
    <2>1. CASE i = 1
      BY <1>1, <2>1
    <2>2. CASE i # 1
      <3>1. i \in 2..Len(b)
        BY <1>0, <2>2
      <3> QED BY <1>1, <3>1
    <2> QED BY <2>1, <2>2
  <1> QED BY <1>1, <1>2 DEF FinalizersIn, FinsOf, c

(* The finalizers of two buffers, one after the other. *)
LEMMA FinsJoin ==
  ASSUME NEW b \in Seq(Element), NEW c \in Seq(Element)
  PROVE  FinalizersIn(b \o c) = FinalizersIn(b) \cup FinalizersIn(c)
  <1> DEFINE d == b \o c
  <1>1. /\ Len(b) \in Nat /\ Len(c) \in Nat /\ Len(d) = Len(b) + Len(c)
        /\ \A i \in 1..Len(b) : d[i] = b[i]
        /\ \A i \in 1..Len(c) : d[Len(b) + i] = c[i]
    OBVIOUS
  <1> HIDE DEF d
  <1>2. \A i \in 1..Len(d) : \/ \E j \in 1..Len(b) : d[i] = b[j]
                             \/ \E j \in 1..Len(c) : d[i] = c[j]
    <2> SUFFICES ASSUME NEW i \in 1..Len(d), i > Len(b)
                 PROVE  \E j \in 1..Len(c) : d[i] = c[j]
      BY <1>1
    <2>1. i - Len(b) \in 1..Len(c) /\ i = Len(b) + (i - Len(b))
      BY <1>1
    <2> QED BY <1>1, <2>1
  <1>3. /\ \A j \in 1..Len(b) : \E i \in 1..Len(d) : d[i] = b[j]
        /\ \A j \in 1..Len(c) : \E i \in 1..Len(d) : d[i] = c[j]
    <2>1. \A j \in 1..Len(b) : j \in 1..Len(d)
      BY <1>1
    <2>2. \A j \in 1..Len(c) : Len(b) + j \in 1..Len(d)
      BY <1>1
    <2> QED BY <1>1, <2>1, <2>2
  <1>4. \A k \in FinalizersIn(d) : k \in FinalizersIn(b) \/ k \in FinalizersIn(c)
    <2> SUFFICES ASSUME NEW k \in FinalizersIn(d)
                 PROVE  k \in FinalizersIn(b) \/ k \in FinalizersIn(c)
      OBVIOUS
    <2>1. PICK i \in 1..Len(d) : d[i].type = "finalize" /\ d[i].fin = k
      BY FinsMember
    <2>2. CASE \E j \in 1..Len(b) : d[i] = b[j]
      <3>1. PICK j \in 1..Len(b) : b[j].type = "finalize" /\ b[j].fin = k
        BY <2>1, <2>2
      <3> QED BY <3>1, FinsMember
    <2>3. CASE \E j \in 1..Len(c) : d[i] = c[j]
      <3>1. PICK j \in 1..Len(c) : c[j].type = "finalize" /\ c[j].fin = k
        BY <2>1, <2>3
      <3> QED BY <3>1, FinsMember
    <2> QED BY <1>2, <2>2, <2>3
  <1>5. Within(b, d, {})
    BY <1>3 DEF Within
  <1>6. \A k \in FinalizersIn(b) : k \in FinalizersIn(d)
    BY <1>5, FinsWithin
  <1>7. Within(c, d, {})
    BY <1>3 DEF Within
  <1>8. \A k \in FinalizersIn(c) : k \in FinalizersIn(d)
    BY <1>7, FinsWithin
  <1> QED BY <1>4, <1>6, <1>8 DEF d

(* A call asks for the next finalizers. *)
LEMMA FinsRebase ==
  ASSUME NEW x, IsXfer(x), NEW a \in Nat, NEW k \in Nat
  PROVE  FinalizersIn(Rebase(x, a, k)) = (k + 1)..(k + Finalizers(x))
  <1>0. x \in Seq(Element)
    BY DEF IsXfer, IsPart
  <1> DEFINE c == Rebase(x, a, k)
  <1>1. Len(c) = Len(x) /\ \A i \in 1..Len(x) : c[i] = Shift(x[i], a, k)
    BY <1>0, RebaseType DEF Shift
  <1> HIDE DEF c
  <1>2. \A i \in 1..Len(x) : c[i].type = x[i].type /\ c[i].fin = x[i].fin + k
    <2> SUFFICES ASSUME NEW i \in 1..Len(x)
                 PROVE  c[i].type = x[i].type /\ c[i].fin = x[i].fin + k
      OBVIOUS
    <2>1. c[i] = Shift(x[i], a, k)
      BY <1>1
    <2> QED BY <2>1 DEF Shift, El
  <1>3. FinalizersIn(c) = {j + k : j \in FinalizersIn(x)}
    BY <1>1, <1>2 DEF FinalizersIn
  <1>4. FinalizersIn(x) = 1..Finalizers(x) /\ Finalizers(x) \in Nat
    BY <1>0, XferFins, SizeType
  <1>5. {j + k : j \in 1..Finalizers(x)} = (k + 1)..(k + Finalizers(x))
    <2>1. ASSUME NEW m \in (k + 1)..(k + Finalizers(x))
          PROVE  \E j \in 1..Finalizers(x) : m = j + k
      <3>1. m - k \in 1..Finalizers(x) /\ m = (m - k) + k
        BY <1>4
      <3> QED BY <3>1
    <2>2. \A j \in 1..Finalizers(x) : j + k \in (k + 1)..(k + Finalizers(x))
      BY <1>4
    <2> QED BY <2>1, <2>2
  <1> QED BY <1>3, <1>4, <1>5 DEF c

-----------------------------------------------------------------------------
(* What is left of a stream, as it is written.                             *)

(* The head is done: the rest begins where it ended. *)
LEMMA EndTail ==
  ASSUME NEW b, NEW a, NEW k, EndOf(b, a, k), b # <<>>
  PROVE  /\ EndOf(Tail(b), a, k) /\ b[1] \in Element
         /\ BytesBefore(Tail(b), a) = b[1].pos + b[1].len
         /\ FinsBefore(Tail(b), k) = b[1].fin
         /\ BytesBefore(b, a) = b[1].pos
         /\ FinsBefore(b, k) = IF b[1].type = "finalize" THEN b[1].fin - 1 ELSE b[1].fin
  <1>0. IsPart(b) /\ Size(b) = a /\ Finalizers(b) = k
    BY DEF EndOf
  <1>1. b[1] \in Element
    BY <1>0, HeadTail DEF IsPart
  <1>2. BytesBefore(b, a) = b[1].pos
        /\ FinsBefore(b, k) = IF b[1].type = "finalize" THEN b[1].fin - 1 ELSE b[1].fin
    BY DEF BytesBefore, FinsBefore
  <1>3. IsPart(Tail(b))
    BY <1>0, TailPart
  <1>4. CASE Tail(b) = <<>>
    <2>1. a = b[1].pos + b[1].len /\ k = b[1].fin
      BY <1>0, <1>4, TailPart
    <2> QED BY <1>1, <1>2, <1>3, <1>4, <2>1 DEF EndOf, BytesBefore, FinsBefore
  <1>5. CASE Tail(b) # <<>>
    <2> DEFINE d == Tail(b)[1]
    <2>1. /\ Size(Tail(b)) = a /\ Finalizers(Tail(b)) = k /\ d \in Element
          /\ Follows(b[1].pos + b[1].len, b[1].fin, d)
      BY <1>0, <1>5, TailPart
    <2>2. BytesBefore(Tail(b), a) = d.pos
          /\ FinsBefore(Tail(b), k) = IF d.type = "finalize" THEN d.fin - 1 ELSE d.fin
      BY <1>5 DEF BytesBefore, FinsBefore
    <2> HIDE DEF d
    <2>3. /\ d.pos = b[1].pos + b[1].len
          /\ (IF d.type = "finalize" THEN d.fin - 1 ELSE d.fin) = b[1].fin
      BY <1>1, <2>1 DEF Follows, Element
    <2> QED BY <1>1, <1>2, <1>3, <2>1, <2>2, <2>3 DEF EndOf
  <1> QED BY <1>4, <1>5

(* n bytes of the head are written: the rest begins behind them. *)
LEMMA EndTrim ==
  ASSUME NEW b, NEW a, NEW k, EndOf(b, a, k), b # <<>>, b[1].type = "data",
         NEW n \in 0..b[1].len
  PROVE  /\ EndOf(Trim(b, n), a, k)
         /\ BytesBefore(Trim(b, n), a) = b[1].pos + n
         /\ FinsBefore(Trim(b, n), k) = b[1].fin
  <1>0. IsPart(b) /\ Size(b) = a /\ Finalizers(b) = k
    BY DEF EndOf
  <1>1. /\ IsPart(Trim(b, n)) /\ Trim(b, n) # <<>>
        /\ Trim(b, n)[1] = El("data", b[1].pos + n, b[1].len - n, b[1].fin)
        /\ Size(Trim(b, n)) = a /\ Finalizers(Trim(b, n)) = k
    BY <1>0, TrimPart
  <1>2. EndOf(Trim(b, n), a, k)
    BY <1>1 DEF EndOf
  <1> QED BY <1>1, <1>2 DEF BytesBefore, FinsBefore, El

(* What is appended does not change where the buffer begins. *)
LEMMA EndJoin ==
  ASSUME NEW b, NEW a \in Nat, NEW k \in Nat, EndOf(b, a, k), NEW x, IsXfer(x)
  PROVE  /\ EndOf(b \o Rebase(x, a, k), a + Size(x), k + Finalizers(x))
         /\ BytesBefore(b \o Rebase(x, a, k), a + Size(x)) = BytesBefore(b, a)
         /\ FinsBefore(b \o Rebase(x, a, k), k + Finalizers(x)) = FinsBefore(b, k)
  <1> DEFINE c == Rebase(x, a, k)
  <1>0. /\ IsPart(c) /\ (c = <<>> <=> x = <<>>)
        /\ x # <<>> => /\ Follows(a, k, c[1]) /\ Size(c) = a + Size(x)
                       /\ Finalizers(c) = k + Finalizers(x)
    BY RebasePart
  <1>1. x = <<>> => Size(x) = 0 /\ Finalizers(x) = 0
    BY DEF Size, Finalizers
  <1>2. c \in Seq(Element) /\ b \in Seq(Element) /\ IsPart(b)
    BY <1>0 DEF IsPart, EndOf
  <1> HIDE DEF c
  <1>3. CASE b = <<>>
    <2>1. b \o c = c
      BY <1>2, <1>3
    <2>2. EndOf(c, a + Size(x), k + Finalizers(x))
      BY <1>0 DEF EndOf
    <2>3. CASE c = <<>>
      BY <1>0, <1>1, <1>3, <2>1, <2>2, <2>3 DEF BytesBefore, FinsBefore, c
    <2>4. CASE c # <<>>
      <3>1. c[1] \in Element /\ Follows(a, k, c[1])
        BY <1>0, <1>2, <2>4, HeadTail
      <3>2. c[1].pos = a /\ (IF c[1].type = "finalize" THEN c[1].fin - 1 ELSE c[1].fin) = k
        BY <3>1 DEF Follows, Element
      <3> QED BY <1>3, <2>1, <2>2, <2>4, <3>2 DEF BytesBefore, FinsBefore, c
    <2> QED BY <2>3, <2>4
  <1>4. CASE b # <<>>
    <2>1. Size(b) = a /\ Finalizers(b) = k
      BY <1>4 DEF EndOf
    <2>2. /\ IsPart(b \o c) /\ b \o c # <<>> /\ (b \o c)[1] = b[1]
          /\ Size(b \o c) = IF c = <<>> THEN Size(b) ELSE Size(c)
          /\ Finalizers(b \o c) = IF c = <<>> THEN Finalizers(b) ELSE Finalizers(c)
      BY <1>0, <1>2, <1>4, <2>1, JoinPart
    <2>3. Size(b \o c) = a + Size(x) /\ Finalizers(b \o c) = k + Finalizers(x)
      BY <1>0, <1>1, <2>1, <2>2
    <2> QED BY <1>4, <2>2, <2>3 DEF EndOf, BytesBefore, FinsBefore, c
  <1> QED BY <1>3, <1>4

(* What is left starts within the stream. *)
LEMMA EndWithin ==
  ASSUME NEW b, NEW a \in Nat, NEW k \in Nat, EndOf(b, a, k)
  PROVE  BytesBefore(b, a) \in Nat /\ BytesBefore(b, a) <= a
  <1>1. CASE b = <<>>
    BY <1>1 DEF BytesBefore
  <1>2. CASE b # <<>>
    <2>0. IsPart(b) /\ b \in Seq(Element) /\ Len(b) \in Nat \ {0}
      BY <1>2 DEF EndOf, IsPart
    <2>1. a = b[Len(b)].pos + b[Len(b)].len /\ BytesBefore(b, a) = b[1].pos
      BY <1>2 DEF EndOf, Size, BytesBefore
    <2>2. b[1] \in Element /\ b[Len(b)] \in Element
      BY <2>0
    <2>3. CASE Len(b) = 1
      BY <2>1, <2>2, <2>3 DEF Element
    <2>4. CASE Len(b) # 1
      <3>1. Before(b[1], b[Len(b)])
        <4>a. \A n \in Nat \ {0} : n # 1 => 1 \in 1..n /\ n \in 1..n /\ 1 < n
          OBVIOUS
        <4>1. 1 \in 1..Len(b) /\ Len(b) \in 1..Len(b) /\ 1 < Len(b)
          BY <2>0, <2>4, <4>a
        <4> QED BY <2>0, <4>1, Ordered
      <3> QED BY <2>1, <2>2, <3>1 DEF Before, Element
    <2> QED BY <2>3, <2>4
  <1> QED BY <1>1, <1>2

(* The next n positions reach the socket. *)
Sent(w, p, n) == w \o [i \in 1..n |-> p + i]

(* A write of the next n positions keeps the wire in order. *)
LEMMA SentNext ==
  ASSUME NEW w \in Seq(Nat), NEW p \in Nat, NEW n \in Nat
  PROVE  /\ Sent(w, p, n) \in Seq(Nat) /\ Len(Sent(w, p, n)) = Len(w) + n
         /\ SentWithin(w, p) => SentWithin(Sent(w, p, n), p + n)
         /\ \A fs, q : DoneExactly(w, fs, p, q) => DoneExactly(Sent(w, p, n), fs, p + n, q)
  <1> DEFINE s == [i \in 1..n |-> p + i]
             v == Sent(w, p, n)
  <1>1. /\ s \in Seq(Nat) /\ Len(s) = n /\ \A i \in 1..n : s[i] = p + i
    OBVIOUS
  <1> HIDE DEF s
  <1>2. /\ v \in Seq(Nat) /\ Len(v) = Len(w) + n /\ Len(w) \in Nat
        /\ \A i \in 1..Len(w) : v[i] = w[i] /\ w[i] \in Nat
        /\ \A i \in 1..n : v[Len(w) + i] = p + i
    <2>1. v = w \o s
      BY DEF Sent, s
    <2>2. v \in Seq(Nat) /\ Len(v) = Len(w) + n /\ Len(w) \in Nat
      <3>1. w \o s \in Seq(Nat) /\ Len(w \o s) = Len(w) + Len(s)
        BY <1>1, ConcatProperties
      <3> QED BY <1>1, <2>1, <3>1
    <2>3. \A i \in 1..Len(w) : v[i] = w[i] /\ w[i] \in Nat
      BY <1>1, <2>1
    <2>4. ASSUME NEW i \in 1..n PROVE v[Len(w) + i] = p + i
      <3>1. v[Len(w) + i] = s[i]
        BY <1>1, <2>1
      <3> QED BY <1>1, <3>1
    <2> QED BY <2>2, <2>3, <2>4
  <1> HIDE DEF v
  <1>3. \A i \in 1..Len(v) : i > Len(w) => /\ i - Len(w) \in 1..n
                                           /\ v[i] = p + (i - Len(w))
    <2> SUFFICES ASSUME NEW i \in 1..Len(v), i > Len(w)
                 PROVE  i - Len(w) \in 1..n /\ v[i] = p + (i - Len(w))
      OBVIOUS
    <2>1. i - Len(w) \in 1..n /\ i = Len(w) + (i - Len(w))
      BY <1>2
    <2> QED BY <1>2, <2>1
  <1>4. ASSUME SentWithin(w, p) PROVE SentWithin(v, p + n)
    <2>1. ASSUME NEW i \in 1..Len(v) PROVE v[i] <= p + n
      <3>1. CASE i <= Len(w)
        <4>1. i \in 1..Len(w) /\ v[i] = w[i] /\ w[i] \in Nat
          BY <1>2, <3>1
        <4> QED BY <1>4, <4>1 DEF SentWithin
      <3>2. CASE i > Len(w)
        BY <1>2, <1>3, <3>2
      <3> QED BY <1>2, <3>1, <3>2
    <2>2. ASSUME NEW i \in 1..Len(v), NEW j \in 1..Len(v), i < j PROVE v[i] < v[j]
      <3>1. CASE j <= Len(w)
        <4>1. i \in 1..Len(w) /\ j \in 1..Len(w) /\ v[i] = w[i] /\ v[j] = w[j]
          BY <1>2, <2>2, <3>1
        <4> QED BY <1>4, <2>2, <4>1 DEF SentWithin
      <3>2. CASE i <= Len(w) /\ j > Len(w)
        <4>1. i \in 1..Len(w) /\ v[i] = w[i] /\ w[i] \in Nat
          BY <1>2, <3>2
        <4>2. w[i] <= p
          BY <1>4, <4>1 DEF SentWithin
        <4>3. v[j] = p + (j - Len(w)) /\ j - Len(w) \in 1..n
          BY <1>3, <3>2
        <4> QED BY <4>1, <4>2, <4>3
      <3>3. CASE i > Len(w)
        <4>1. j > Len(w)
          BY <1>2, <2>2, <3>3
        <4> QED BY <1>2, <1>3, <2>2, <3>3, <4>1
      <3> QED BY <1>2, <2>2, <3>1, <3>2, <3>3
    <2> QED BY <2>1, <2>2 DEF SentWithin
  <1>5. ASSUME NEW fs, NEW q, DoneExactly(w, fs, p, q) PROVE DoneExactly(v, fs, p + n, q)
    <2>1. Len(w) = p /\ \A i \in 1..Len(w) : w[i] = i
      BY <1>5 DEF DoneExactly
    <2>2. ASSUME NEW i \in 1..Len(v) PROVE v[i] = i
      <3>1. CASE i <= Len(w)
        BY <1>2, <2>1, <3>1
      <3>2. CASE i > Len(w)
        BY <1>2, <1>3, <2>1, <3>2
      <3> QED BY <1>2, <3>1, <3>2
    <2> QED BY <1>2, <1>5, <2>1, <2>2 DEF DoneExactly
  <1> QED BY <1>2, <1>4, <1>5 DEF v

(* The records of the finalizers that ran. *)
FinRec == [fin : Nat, pos : Nat, sent : Nat]
Rec(e, w) == [fin |-> e.fin, pos |-> e.pos, sent |-> Len(w)]

(* The finalizer numbered q + 1 runs when all bytes before it were sent. *)
LEMMA DoneNext ==
  ASSUME NEW w \in Seq(Nat), NEW fs \in Seq(FinRec), NEW p \in Nat, NEW q \in Nat,
         DoneExactly(w, fs, p, q), NEW e \in Element, e.pos = p, e.fin = q + 1
  PROVE  DoneExactly(w, Append(fs, Rec(e, w)), p, q + 1)
  <1> DEFINE r == Rec(e, w)
             gs == Append(fs, r)
  <1>1. r.fin = q + 1 /\ r.sent = r.pos
    BY DEF Rec, DoneExactly
  <1>2. Len(fs) = q /\ \A i \in 1..Len(fs) : fs[i].fin = i /\ fs[i].sent = fs[i].pos
    BY DEF DoneExactly
  <1>3. /\ Len(gs) = Len(fs) + 1 /\ gs[Len(fs) + 1] = r
        /\ \A i \in 1..Len(fs) : gs[i] = fs[i]
    <2> HIDE DEF r
    <2> QED OBVIOUS
  <1> HIDE DEF gs, r
  <1>4. ASSUME NEW i \in 1..Len(gs) PROVE gs[i].fin = i /\ gs[i].sent = gs[i].pos
    <2>1. CASE i = q + 1
      BY <1>1, <1>2, <1>3, <2>1
    <2>2. CASE i # q + 1
      <3>1. i \in 1..Len(fs)
        BY <1>2, <1>3, <2>2
      <3> QED BY <1>2, <1>3, <3>1
    <2> QED BY <2>1, <2>2
  <1>5. Len(gs) = q + 1
    BY <1>2, <1>3
  <1> QED BY <1>4, <1>5 DEF DoneExactly, gs, r

(* A call appends to what is left. *)
LEMMA RestAsk ==
  ASSUME NEW b, NEW w, NEW fs, NEW a \in Nat, NEW k \in Nat, NEW bad,
         Rest(b, w, fs, a, k, bad), NEW x, IsXfer(x)
  PROVE  Rest(b \o Rebase(x, a, k), w, fs, a + Size(x), k + Finalizers(x), bad)
  BY EndJoin DEF Rest

(* The socket takes the data at the head, or the beginning of it. *)
LEMMA RestSend ==
  ASSUME NEW b, NEW w \in Seq(Nat), NEW fs, NEW a, NEW k, NEW bad,
         Rest(b, w, fs, a, k, bad), b # <<>>, b[1].type = "data", NEW n \in 0..b[1].len
  PROVE  /\ Rest(Trim(b, n), Sent(w, b[1].pos, n), fs, a, k, bad)
         /\ n = b[1].len => Rest(Tail(b), Sent(w, b[1].pos, n), fs, a, k, bad)
  <1>1. EndOf(b, a, k)
    BY DEF Rest
  <1>2. /\ b[1] \in Element /\ BytesBefore(b, a) = b[1].pos /\ FinsBefore(b, k) = b[1].fin
        /\ EndOf(Tail(b), a, k) /\ BytesBefore(Tail(b), a) = b[1].pos + b[1].len
        /\ FinsBefore(Tail(b), k) = b[1].fin
    BY <1>1, EndTail
  <1>3. /\ EndOf(Trim(b, n), a, k) /\ BytesBefore(Trim(b, n), a) = b[1].pos + n
        /\ FinsBefore(Trim(b, n), k) = b[1].fin
    BY <1>1, EndTrim
  <1>4. b[1].pos \in Nat /\ n \in Nat
    BY <1>2 DEF Element
  <1>5. SentWithin(w, b[1].pos) /\ (~bad => DoneExactly(w, fs, b[1].pos, b[1].fin))
    BY <1>2 DEF Rest
  <1>6. /\ SentWithin(Sent(w, b[1].pos, n), b[1].pos + n)
        /\ ~bad => DoneExactly(Sent(w, b[1].pos, n), fs, b[1].pos + n, b[1].fin)
    BY <1>4, <1>5, SentNext
  <1> QED BY <1>2, <1>3, <1>6 DEF Rest

(* The finalizer at the head runs. *)
LEMMA RestFinalize ==
  ASSUME NEW b, NEW w \in Seq(Nat), NEW fs \in Seq(FinRec), NEW a, NEW k, NEW bad,
         Rest(b, w, fs, a, k, bad), b # <<>>, b[1].type = "finalize"
  PROVE  Rest(Tail(b), w, Append(fs, Rec(b[1], w)), a, k, bad)
  <1>1. EndOf(b, a, k)
    BY DEF Rest
  <1>2. /\ b[1] \in Element /\ BytesBefore(b, a) = b[1].pos
        /\ FinsBefore(b, k) = b[1].fin - 1
        /\ EndOf(Tail(b), a, k) /\ BytesBefore(Tail(b), a) = b[1].pos + b[1].len
        /\ FinsBefore(Tail(b), k) = b[1].fin
    BY <1>1, EndTail
  <1>3. b[1].pos \in Nat /\ b[1].len = 0 /\ b[1].fin \in Nat
    <2>1. 1 \in 1..Len(b)
      BY <1>1 DEF EndOf, IsPart
    <2> QED BY <1>1, <1>2, <2>1 DEF Element, EndOf, IsPart
  <1>4. b[1].pos + b[1].len = b[1].pos
    BY <1>3
  <1>5. ASSUME ~bad
        PROVE  DoneExactly(w, Append(fs, Rec(b[1], w)), b[1].pos, b[1].fin)
    <2>1. DoneExactly(w, fs, b[1].pos, b[1].fin - 1)
      BY <1>2, <1>5 DEF Rest
    <2>2. PICK q \in Nat : q = b[1].fin - 1
      <3>1. Len(fs) = b[1].fin - 1 /\ Len(fs) \in Nat
        BY <2>1 DEF DoneExactly
      <3> QED BY <3>1
    <2>3. b[1].fin = q + 1
      BY <1>3, <2>2
    <2> QED BY <1>2, <1>3, <2>1, <2>2, <2>3, DoneNext
  <1> QED BY <1>2, <1>4, <1>5 DEF Rest

(* After an error what is left is dropped, at once or element by element. *)
LEMMA RestDiscard ==
  ASSUME NEW b, NEW w \in Seq(Nat), NEW fs, NEW a \in Nat, NEW k \in Nat, NEW bad,
         Rest(b, w, fs, a, k, bad), NEW gs
  PROVE  /\ Rest(<<>>, w, gs, a, k, TRUE) /\ Rest(b, w, gs, a, k, TRUE)
         /\ b # <<>> => Rest(Tail(b), w, gs, a, k, TRUE)
  <1>1. EndOf(b, a, k) /\ SentWithin(w, BytesBefore(b, a))
    BY DEF Rest
  <1>2. \A i \in 1..Len(w) : w[i] \in Nat
    OBVIOUS
  <1>3. ASSUME NEW p \in Nat, NEW q \in Nat, SentWithin(w, p), p <= q
        PROVE  SentWithin(w, q)
    BY <1>2, <1>3 DEF SentWithin
  <1>4. BytesBefore(b, a) \in Nat /\ BytesBefore(b, a) <= a
    BY <1>1, EndWithin
  <1>5. Rest(<<>>, w, gs, a, k, TRUE)
    <2>1. EndOf(<<>>, a, k) /\ BytesBefore(<<>>, a) = a
      BY DEF EndOf, IsPart, Chained, BytesBefore
    <2> QED BY <1>1, <1>3, <1>4, <2>1 DEF Rest
  <1>6. Rest(b, w, gs, a, k, TRUE)
    BY <1>1 DEF Rest
  <1>7. ASSUME b # <<>> PROVE Rest(Tail(b), w, gs, a, k, TRUE)
    <2>1. /\ EndOf(Tail(b), a, k) /\ b[1] \in Element
          /\ BytesBefore(Tail(b), a) = b[1].pos + b[1].len /\ BytesBefore(b, a) = b[1].pos
      BY <1>1, <1>7, EndTail
    <2>2. b[1].pos \in Nat /\ b[1].len \in Nat
      BY <2>1 DEF Element
    <2>3. SentWithin(w, b[1].pos + b[1].len)
      BY <1>1, <1>3, <2>1, <2>2
    <2> QED BY <2>1, <2>3 DEF Rest
  <1> QED BY <1>5, <1>6, <1>7

-----------------------------------------------------------------------------
(* Every finalizer is accounted for, as they are asked for, move and run.  *)

(* What it is to be held in some buffer. *)
LEMMA HeldMember ==
  ASSUME NEW h
  PROVE  \A k : k \in AllHeld(h) <=> \E x \in DOMAIN h : k \in h[x]
  BY DEF AllHeld

(* What it is to have run. *)
LEMMA NumbersMember ==
  ASSUME NEW fs
  PROVE  \A k : k \in NumbersOf(fs) <=> \E i \in 1..Len(fs) : fs[i].fin = k
  BY DEF NumbersOf

(* One more finalizer ran. *)
LEMMA NumbersNext ==
  ASSUME NEW fs \in Seq(FinRec), NEW r \in FinRec
  PROVE  /\ NumbersOf(Append(fs, r)) = NumbersOf(fs) \cup {r.fin}
         /\ (/\ \A i, j \in 1..Len(fs) : fs[i].fin = fs[j].fin => i = j
             /\ r.fin \notin NumbersOf(fs))
            => \A i, j \in 1..Len(Append(fs, r)) :
                 Append(fs, r)[i].fin = Append(fs, r)[j].fin => i = j
  <1> DEFINE gs == Append(fs, r)
             n == Len(fs)
  <1>1. /\ n \in Nat /\ Len(gs) = n + 1 /\ gs[n + 1] = r
        /\ \A i \in 1..n : gs[i] = fs[i]
    BY DEF FinRec
  <1> HIDE DEF gs, n
  <1>2. \A i \in 1..Len(gs) : i = n + 1 \/ i \in 1..n
    BY <1>1
  <1>3. n + 1 \in 1..Len(gs) /\ \A i \in 1..n : i \in 1..Len(gs)
    BY <1>1
  <1>4. \A k : k \in NumbersOf(fs) <=> \E i \in 1..n : fs[i].fin = k
    BY NumbersMember DEF n
  <1>5. \A k : k \in NumbersOf(gs) <=> \E i \in 1..Len(gs) : gs[i].fin = k
    BY NumbersMember
  <1>6. NumbersOf(gs) = NumbersOf(fs) \cup {r.fin}
    BY <1>1, <1>2, <1>3, <1>4, <1>5
  <1>7. ASSUME \A i, j \in 1..n : fs[i].fin = fs[j].fin => i = j,
               r.fin \notin NumbersOf(fs),
               NEW i \in 1..Len(gs), NEW j \in 1..Len(gs), gs[i].fin = gs[j].fin
        PROVE  i = j
    <2>1. CASE i \in 1..n /\ j \in 1..n
      BY <1>1, <1>7, <2>1
    <2>2. CASE i = n + 1 /\ j \in 1..n
      BY <1>1, <1>4, <1>7, <2>2
    <2>3. CASE j = n + 1 /\ i \in 1..n
      BY <1>1, <1>4, <1>7, <2>3
    <2> QED BY <1>2, <2>1, <2>2, <2>3
  <1> QED BY <1>6, <1>7 DEF gs, n

(* The finalizer k runs where it waited. *)
LEMMA AccountRun ==
  ASSUME NEW fs \in Seq(FinRec), NEW h, NEW g, NEW D, NEW n, Accounted(fs, h, D, n),
         NEW x \in DOMAIN h, NEW r \in FinRec, r.fin \in h[x], DOMAIN g = DOMAIN h,
         g[x] = h[x] \ {r.fin}, \A y \in DOMAIN h : y # x => g[y] = h[y]
  PROVE  Accounted(Append(fs, r), g, D, n)
  <1>1. \A k : k \in AllHeld(h) <=> \E y \in DOMAIN h : k \in h[y]
    BY HeldMember
  <1>2. \A k : k \in AllHeld(g) <=> \E y \in DOMAIN h : k \in g[y]
    BY HeldMember
  <1>3. \A y \in DOMAIN h : y # x => r.fin \notin h[y]
    BY DEF Accounted
  <1>4. \A k : k \in AllHeld(g) <=> k \in AllHeld(h) /\ k # r.fin
    BY <1>1, <1>2, <1>3
  <1>5. r.fin \in AllHeld(h)
    BY <1>1
  <1>6. r.fin \notin NumbersOf(fs)
    BY <1>5 DEF Accounted
  <1>7. NumbersOf(Append(fs, r)) = NumbersOf(fs) \cup {r.fin}
    BY NumbersNext
  <1>8. \A i, j \in 1..Len(Append(fs, r)) :
          Append(fs, r)[i].fin = Append(fs, r)[j].fin => i = j
    BY <1>6, NumbersNext DEF Accounted
  <1>9. \A y, z \in DOMAIN g : y # z => g[y] \cap g[z] = {}
    BY DEF Accounted
  <1>10. /\ NumbersOf(Append(fs, r)) \cup AllHeld(g) \cup D = 1..n
         /\ NumbersOf(Append(fs, r)) \cap AllHeld(g) = {}
         /\ (NumbersOf(Append(fs, r)) \cup AllHeld(g)) \cap D = {}
    BY <1>4, <1>5, <1>7 DEF Accounted
  <1> QED BY <1>8, <1>9, <1>10 DEF Accounted

(* What waits at x moves to an empty place, or is dropped. *)
LEMMA AccountMove ==
  ASSUME NEW fs, NEW h, NEW g, NEW D, NEW n, Accounted(fs, h, D, n),
         NEW x \in DOMAIN h, NEW y \in DOMAIN h, x # y, h[y] = {}, DOMAIN g = DOMAIN h,
         g[x] = {}, g[y] = h[x], \A z \in DOMAIN h : z \notin {x, y} => g[z] = h[z]
  PROVE  Accounted(fs, g, D, n)
  <1>1. \A k : k \in AllHeld(h) <=> \E z \in DOMAIN h : k \in h[z]
    BY HeldMember
  <1>2. \A k : k \in AllHeld(g) <=> \E z \in DOMAIN h : k \in g[z]
    BY HeldMember
  <1>3. \A k : k \in AllHeld(g) <=> k \in AllHeld(h)
    BY <1>1, <1>2
  <1>4. AllHeld(g) = AllHeld(h)
    BY <1>3
  <1>5. \A v, z \in DOMAIN g : v # z => g[v] \cap g[z] = {}
    BY DEF Accounted
  <1> QED BY <1>4, <1>5 DEF Accounted

(* The finalizers of a buffer are given up together. *)
LEMMA AccountDrop ==
  ASSUME NEW fs, NEW h, NEW g, NEW D, NEW n, Accounted(fs, h, D, n),
         NEW x \in DOMAIN h, DOMAIN g = DOMAIN h,
         g[x] = {}, \A y \in DOMAIN h : y # x => g[y] = h[y]
  PROVE  Accounted(fs, g, D \cup h[x], n)
  <1>1. \A k : k \in AllHeld(h) <=> \E y \in DOMAIN h : k \in h[y]
    BY HeldMember
  <1>2. \A k : k \in AllHeld(g) <=> \E y \in DOMAIN h : k \in g[y]
    BY HeldMember
  <1>3. \A k, y : y \in DOMAIN h /\ y # x /\ k \in h[y] => k \notin h[x]
    BY DEF Accounted
  <1>4. \A k : k \in AllHeld(g) <=> k \in AllHeld(h) /\ k \notin h[x]
    BY <1>1, <1>2, <1>3
  <1>5. \A k \in h[x] : k \in AllHeld(h)
    BY <1>1
  <1>6. \A y, z \in DOMAIN g : y # z => g[y] \cap g[z] = {}
    BY DEF Accounted
  <1>7. /\ NumbersOf(fs) \cup AllHeld(g) \cup (D \cup h[x]) = 1..n
        /\ NumbersOf(fs) \cap AllHeld(g) = {}
        /\ (NumbersOf(fs) \cup AllHeld(g)) \cap (D \cup h[x]) = {}
    BY <1>4, <1>5 DEF Accounted
  <1> QED BY <1>6, <1>7 DEF Accounted

(* A call asks for m more, which wait at x. *)
LEMMA AccountAsk ==
  ASSUME NEW fs, NEW h, NEW g, NEW D, NEW n \in Nat, NEW m \in Nat,
         Accounted(fs, h, D, n), NEW x \in DOMAIN h, DOMAIN g = DOMAIN h,
         g[x] = h[x] \cup ((n + 1)..(n + m)), \A y \in DOMAIN h : y # x => g[y] = h[y]
  PROVE  Accounted(fs, g, D, n + m)
  <1> DEFINE new == (n + 1)..(n + m)
  <1>0. /\ \A k : k \in 1..(n + m) <=> k \in 1..n \/ k \in new
        /\ \A k \in new : k \notin 1..n
    OBVIOUS
  <1> HIDE DEF new
  <1>1. \A k : k \in AllHeld(h) <=> \E y \in DOMAIN h : k \in h[y]
    BY HeldMember
  <1>2. \A k : k \in AllHeld(g) <=> \E y \in DOMAIN h : k \in g[y]
    BY HeldMember
  <1>3. \A k : k \in AllHeld(g) <=> k \in AllHeld(h) \/ k \in new
    BY <1>1, <1>2 DEF new
  <1>4. \A k : k \in NumbersOf(fs) \/ k \in AllHeld(h) \/ k \in D <=> k \in 1..n
    BY DEF Accounted
  <1>5. \A y \in DOMAIN h : \A k \in h[y] : k \notin new
    BY <1>0, <1>1, <1>4
  <1>6. \A y, z \in DOMAIN g : y # z => g[y] \cap g[z] = {}
    <2> SUFFICES ASSUME NEW y \in DOMAIN h, NEW z \in DOMAIN h, y # z,
                        NEW k \in g[y], k \in g[z]
                 PROVE  FALSE
      OBVIOUS
    <2>1. h[y] \cap h[z] = {}
      BY DEF Accounted
    <2>2. g[x] = h[x] \cup new
      BY DEF new
    <2> QED BY <1>5, <2>1, <2>2
  <1>7. /\ NumbersOf(fs) \cup AllHeld(g) \cup D = 1..(n + m)
        /\ NumbersOf(fs) \cap AllHeld(g) = {}
        /\ (NumbersOf(fs) \cup AllHeld(g)) \cap D = {}
    BY <1>0, <1>3, <1>4 DEF Accounted
  <1> QED BY <1>6, <1>7 DEF Accounted

-----------------------------------------------------------------------------
(* What a step of one thread, for one descriptor, leaves alone.            *)

(* The stream of f is the same after the step. *)
Same(f) ==
  /\ Unsent(f)' = Unsent(f) /\ Late(f)' = Late(f) /\ Held(f)' = Held(f)
  /\ wire'[f] = wire[f] /\ broken'[f] = broken[f]
  /\ accepted'[f] = accepted[f] /\ nfin'[f] = nfin[f]
  /\ finalized'[f] = finalized[f] /\ dropped'[f] = dropped[f] /\ failed'[f] = failed[f]

(* A step of thread t changes its own variables and those of f only. *)
Touches(t, f) ==
  /\ fd[t] \in {None, f} /\ fd'[t] \in {None, f}
  /\ \A u \in Threads : u # t => pc'[u] = pc[u] /\ xfbuf'[u] = xfbuf[u] /\ fd'[u] = fd[u]
  /\ \A g \in Fds : g # f =>
       /\ owner'[g] = owner[g] /\ m_fdctx'[g] = m_fdctx[g]
       /\ wire'[g] = wire[g] /\ broken'[g] = broken[g]
       /\ accepted'[g] = accepted[g] /\ nfin'[g] = nfin[g]
       /\ finalized'[g] = finalized[g] /\ dropped'[g] = dropped[g]
       /\ failed'[g] = failed[g]

(* The discarded finalizers of f in its queue, with t, with the others. *)
OwnLate(f) == IF Discarding(f) THEN FinsOf(m_fdctx[f]) ELSE {}
MyLate(f, t) == IF t \in Clearing(f) THEN FinsOf(xfbuf[t]) ELSE {}
OthersLate(f, t) == UNION {FinsOf(xfbuf[u]) : u \in Clearing(f) \ {t}}

(* Who may run a finalizer late: the owner, the thread t, the others. *)
LEMMA LateSplit ==
  ASSUME NEW f, NEW t
  PROVE  /\ Late(f) = OwnLate(f) \cup MyLate(f, t) \cup OthersLate(f, t)
         /\ Late(f)' = OwnLate(f)' \cup MyLate(f, t)' \cup OthersLate(f, t)'
  BY DEF Late, OwnLate, MyLate, OthersLate

(* The other streams are the same. *)
LEMMA OthersSame ==
  ASSUME TypeOK, LocksOK, NEW t \in Threads, NEW f \in Fds, Touches(t, f)
  PROVE  \A g \in Fds : g # f => Same(g)
  <1> SUFFICES ASSUME NEW g \in Fds, g # f PROVE Same(g)
    OBVIOUS
  <1>0. g # None /\ Writers \subseteq Threads /\ Workers \subseteq Threads /\ None \notin Writers
        /\ None \notin Workers
    BY ThreadsAssumption DEF Threads
  <1>1. owner[g] # t /\ owner[g] \in Threads \cup {None}
    BY <1>0 DEF TypeOK, LocksOK, Touches
  <1>2. owner'[g] = owner[g] /\ m_fdctx'[g] = m_fdctx[g]
    BY DEF Touches
  <1>3. owner[g] \in Threads => pc'[owner[g]] = pc[owner[g]] /\ xfbuf'[owner[g]] = xfbuf[owner[g]]
    BY <1>1 DEF Touches
  <1>4. Discarding(g)' <=> Discarding(g)
    BY <1>0, <1>1, <1>2, <1>3 DEF Discarding
  <1>5. Unsent(g)' = Unsent(g)
    BY <1>0, <1>1, <1>2, <1>3, <1>4 DEF Unsent
  <1>6. \A u \in Writers : /\ fd'[u] = g <=> fd[u] = g
                           /\ fd[u] = g => pc'[u] = pc[u] /\ xfbuf'[u] = xfbuf[u]
    BY <1>0 DEF Touches
  <1>7. Clearing(g)' = Clearing(g)
    BY <1>6 DEF Clearing
  <1>8. {FinsOf(xfbuf'[u]) : u \in Clearing(g)} = {FinsOf(xfbuf[u]) : u \in Clearing(g)}
    <2>1. \A u \in Clearing(g) : xfbuf'[u] = xfbuf[u]
      BY <1>6 DEF Clearing
    <2> QED BY <2>1
  <1>9. Late(g)' = Late(g)
    BY <1>2, <1>4, <1>7, <1>8 DEF Late
  <1>10. Held(g)' = Held(g)
    <2>1. \A x \in {None} \cup Writers :
            (IF x = None THEN m_fdctx'[g] ELSE IF fd'[x] = g THEN xfbuf'[x] ELSE <<>>)
            = (IF x = None THEN m_fdctx[g] ELSE IF fd[x] = g THEN xfbuf[x] ELSE <<>>)
      BY <1>2, <1>6
    <2> QED BY <2>1 DEF Held
  <1> QED BY <1>5, <1>9, <1>10 DEF Same, Touches

(* In the stream of f, what other threads hold is the same. *)
LEMMA OthersHold ==
  ASSUME NEW t \in Threads, NEW f \in Fds, Touches(t, f)
  PROVE  /\ OthersLate(f, t)' = OthersLate(f, t)
         /\ \A x \in Writers : x # t => Held(f)'[x] = Held(f)[x]
         /\ DOMAIN Held(f)' = {None} \cup Writers /\ DOMAIN Held(f) = {None} \cup Writers
         /\ Held(f)'[None] = FinalizersIn(m_fdctx'[f])
         /\ Held(f)[None] = FinalizersIn(m_fdctx[f])
         /\ t \in Writers => /\ Held(f)'[t] = FinalizersIn(IF fd'[t] = f THEN xfbuf'[t] ELSE <<>>)
                             /\ Held(f)[t] = FinalizersIn(IF fd[t] = f THEN xfbuf[t] ELSE <<>>)
  <1>0. Writers \subseteq Threads /\ None \notin Writers
    BY ThreadsAssumption DEF Threads
  <1>1. \A u \in Writers : u # t => pc'[u] = pc[u] /\ xfbuf'[u] = xfbuf[u] /\ fd'[u] = fd[u]
    BY <1>0 DEF Touches
  <1>2. (Clearing(f) \ {t})' = Clearing(f) \ {t}
    BY <1>1 DEF Clearing
  <1>3. OthersLate(f, t)' = OthersLate(f, t)
    <2>1. \A u \in Clearing(f) \ {t} : xfbuf'[u] = xfbuf[u]
      BY <1>1 DEF Clearing
    <2>2. {FinsOf(xfbuf'[u]) : u \in Clearing(f) \ {t}}
            = {FinsOf(xfbuf[u]) : u \in Clearing(f) \ {t}}
      BY <2>1
    <2> QED BY <1>2, <2>2 DEF OthersLate
  <1>4. DOMAIN Held(f)' = {None} \cup Writers /\ DOMAIN Held(f) = {None} \cup Writers
    BY DEF Held
  <1>5. ASSUME NEW x \in Writers
        PROVE  /\ Held(f)'[x] = FinalizersIn(IF fd'[x] = f THEN xfbuf'[x] ELSE <<>>)
               /\ Held(f)[x] = FinalizersIn(IF fd[x] = f THEN xfbuf[x] ELSE <<>>)
    BY <1>0 DEF Held
  <1>6. Held(f)'[None] = FinalizersIn(m_fdctx'[f]) /\ Held(f)[None] = FinalizersIn(m_fdctx[f])
    BY DEF Held
  <1> QED BY <1>1, <1>3, <1>4, <1>5, <1>6

(* A step that changes nothing of the stream of f either. *)
LEMMA QuietSame ==
  ASSUME TypeOK, LocksOK, NEW t \in Threads, NEW f \in Fds, Touches(t, f),
         m_fdctx'[f] = m_fdctx[f], Unsent(f)' = Unsent(f),
         Discarding(f)' \/ Discarding(f) =>
            FinsOf(m_fdctx[f]) = {} \/ (Discarding(f)' <=> Discarding(f)),
         t \in Writers => /\ fd[t] = f /\ xfbuf'[t] = xfbuf[t]
                          /\ fd'[t] = f \/ xfbuf[t] = <<>>
                          /\ \/ pc'[t] = "clear_xf" <=> pc[t] = "clear_xf"
                             \/ xfbuf[t] = <<>>,
         wire'[f] = wire[f], broken'[f] = broken[f], accepted'[f] = accepted[f],
         nfin'[f] = nfin[f], finalized'[f] = finalized[f], dropped'[f] = dropped[f],
         failed'[f] = failed[f]
  PROVE  \A g \in Fds : Same(g)
  <1>0. None \notin Writers
    BY ThreadsAssumption DEF Threads
  <1>1. Held(f)' = Held(f)
    <2>1. \A x \in DOMAIN Held(f) : Held(f)'[x] = Held(f)[x]
      BY OthersHold
    <2>2. /\ Held(f) = [x \in DOMAIN Held(f) |-> Held(f)[x]]
          /\ Held(f)' = [x \in DOMAIN Held(f)' |-> Held(f)'[x]]
      BY DEF Held
    <2> QED BY <2>1, <2>2, OthersHold
  <1>2. Late(f)' = Late(f)
    <2>1. OwnLate(f)' = OwnLate(f)
      BY DEF OwnLate
    <2>2. MyLate(f, t)' = MyLate(f, t)
      <3>1. CASE t \notin Writers
        BY <3>1 DEF Clearing, MyLate
      <3>2. CASE t \in Writers
        <4>1. CASE xfbuf[t] = <<>>
          BY <3>2, <4>1, FinsEmpty DEF MyLate
        <4>2. CASE xfbuf[t] # <<>>
          BY <3>2, <4>2 DEF Clearing, MyLate
        <4> QED BY <4>1, <4>2
      <3> QED BY <3>1, <3>2
    <2>3. OthersLate(f, t)' = OthersLate(f, t)
      BY OthersHold
    <2>4. Late(f) = OwnLate(f) \cup MyLate(f, t) \cup OthersLate(f, t)
      BY LateSplit
    <2>5. Late(f)' = OwnLate(f)' \cup MyLate(f, t)' \cup OthersLate(f, t)'
      BY LateSplit
    <2> QED BY <2>1, <2>2, <2>3, <2>4, <2>5
  <1>3. Same(f)
    BY <1>1, <1>2 DEF Same
  <1> QED BY <1>3, OthersSame

-----------------------------------------------------------------------------
(* What a step does to the stream of f, one operator per action of         *)
(* OutStream.                                                              *)

(* A call appends b. *)
Asks(f, b) ==
  /\ b \in Requests
  /\ Unsent(f)' = Unsent(f) \o Rebase(b, accepted[f], nfin[f]) /\ Late(f)' = Late(f)
  /\ accepted'[f] = accepted[f] + Size(b) /\ nfin'[f] = nfin[f] + Finalizers(b)
  /\ wire'[f] = wire[f] /\ broken'[f] = broken[f] /\ finalized'[f] = finalized[f]
  /\ dropped'[f] = dropped[f] /\ failed'[f] = failed[f]

(* The socket takes the first n bytes of the data at the head. *)
Sends(f, n) ==
  /\ Unsent(f) # <<>> /\ Unsent(f)[1].type = "data" /\ n \in 0..Unsent(f)[1].len
  /\ ~broken[f]
  /\ \/ n < Unsent(f)[1].len /\ Unsent(f)' = Trim(Unsent(f), n)
     \/ n = Unsent(f)[1].len /\ n > 0 /\ Unsent(f)' = Tail(Unsent(f))
  /\ wire'[f] = Sent(wire[f], Unsent(f)[1].pos, n)
  /\ Late(f)' = Late(f) /\ broken'[f] = broken[f]
  /\ accepted'[f] = accepted[f] /\ nfin'[f] = nfin[f] /\ finalized'[f] = finalized[f]
  /\ dropped'[f] = dropped[f] /\ failed'[f] = failed[f]

(* The finalizer at the head runs. *)
Runs(f) ==
  /\ Unsent(f) # <<>> /\ Unsent(f)[1].type = "finalize"
  /\ Unsent(f)' = Tail(Unsent(f)) /\ Late(f)' = Late(f)
  /\ finalized'[f] = Append(finalized[f], Rec(Unsent(f)[1], wire[f]))
  /\ wire'[f] = wire[f] /\ broken'[f] = broken[f]
  /\ accepted'[f] = accepted[f] /\ nfin'[f] = nfin[f]
  /\ dropped'[f] = dropped[f] /\ failed'[f] = failed[f]

(* An error discards the rest. *)
Discards(f) ==
  /\ Unsent(f) # <<>> /\ Unsent(f)[1].type = "data"
  /\ broken[f] \/ Unsent(f)[1].len = 0
  /\ Unsent(f)' = <<>>
  /\ \/ Late(f)' = Late(f) \cup FinsOf(Unsent(f)) /\ dropped'[f] = dropped[f]
     \/ Late(f)' = Late(f) /\ dropped'[f] = dropped[f] \cup FinalizersIn(Unsent(f))
  /\ wire'[f] = wire[f] /\ broken'[f] = broken[f] /\ finalized'[f] = finalized[f]
  /\ accepted'[f] = accepted[f] /\ nfin'[f] = nfin[f] /\ failed'[f] = TRUE

(* A finalizer of a discarded part runs. *)
RunsLate(f, e) ==
  /\ e \in Late(f) /\ Late(f)' = Late(f) \ {e} /\ Unsent(f)' = Unsent(f)
  /\ finalized'[f] = Append(finalized[f], Rec(e, wire[f]))
  /\ wire'[f] = wire[f] /\ broken'[f] = broken[f]
  /\ accepted'[f] = accepted[f] /\ nfin'[f] = nfin[f]
  /\ dropped'[f] = dropped[f] /\ failed[f] /\ failed'[f]

(* The connection is reset. *)
Resets(f) ==
  /\ Unsent(f)' = Unsent(f) /\ Late(f)' = Late(f) /\ broken'[f] = TRUE
  /\ wire'[f] = wire[f] /\ finalized'[f] = finalized[f]
  /\ accepted'[f] = accepted[f] /\ nfin'[f] = nfin[f]
  /\ dropped'[f] = dropped[f] /\ failed'[f] = failed[f]

Effect(f) ==
  \/ Same(f) \/ Runs(f) \/ Discards(f) \/ Resets(f)
  \/ \E b : Asks(f, b)
  \/ \E n : Sends(f, n)
  \/ \E e : RunsLate(f, e)

(* The part of the invariant about the stream of f. *)
RestAt(f) == Rest(Unsent(f), wire[f], finalized[f], accepted[f], nfin[f], failed[f])
FinsAt(f) == Accounted(finalized[f], Held(f), dropped[f], nfin[f])

(* Whatever the effect, what is left is still the rest of the stream. *)
LEMMA EffectRest ==
  ASSUME TypeOK, NEW f \in Fds, RestAt(f), Effect(f)
  PROVE  RestAt(f)'
  <1>1. /\ wire[f] \in Seq(Nat) /\ finalized[f] \in Seq(FinRec)
        /\ accepted[f] \in Nat /\ nfin[f] \in Nat
    BY DEF TypeOK, FinRec
  <1>2. CASE Same(f)
    BY <1>2 DEF Same, RestAt
  <1>3. CASE Runs(f)
    BY <1>1, <1>3, RestFinalize DEF Runs, RestAt
  <1>4. CASE Discards(f)
    <2>1. Rest(<<>>, wire[f], finalized[f], accepted[f], nfin[f], TRUE)
      BY <1>1, RestDiscard DEF RestAt
    <2> QED BY <1>4, <2>1 DEF Discards, RestAt
  <1>5. CASE Resets(f)
    BY <1>5 DEF Resets, RestAt
  <1>6. ASSUME NEW b, Asks(f, b) PROVE RestAt(f)'
    <2>1. IsXfer(b)
      BY <1>6, RequestsAssumption DEF Asks
    <2> QED BY <1>1, <1>6, <2>1, RestAsk DEF Asks, RestAt
  <1>7. ASSUME NEW n, Sends(f, n) PROVE RestAt(f)'
    BY <1>1, <1>7, RestSend DEF Sends, RestAt
  <1>8. ASSUME NEW e, RunsLate(f, e) PROVE RestAt(f)'
    <2>1. Rest(Unsent(f), wire[f], finalized'[f], accepted[f], nfin[f], TRUE)
      BY <1>1, RestDiscard DEF RestAt
    <2> QED BY <1>8, <2>1 DEF RunsLate, RestAt, Rest
  <1> QED BY <1>2, <1>3, <1>4, <1>5, <1>6, <1>7, <1>8 DEF Effect

(* The other streams keep their part of the invariant. *)
LEMMA SameKept ==
  ASSUME NEW f, Same(f), RestAt(f), FinsAt(f)
  PROVE  RestAt(f)' /\ FinsAt(f)'
  BY DEF Same, RestAt, FinsAt

-----------------------------------------------------------------------------
(* The refinement, one stream at a time.                                   *)

(* What is left after a delivery, in the words of OutStream. *)
LEMMA DeliverRest ==
  ASSUME NEW b \in Seq(Element), b # <<>>, b[1].type = "data", NEW n \in 0..b[1].len
  PROVE  /\ n < b[1].len =>
              Trim(b, n) = (IF n = Head(b).len THEN <<>>
                            ELSE <<El("data", Head(b).pos + n, Head(b).len - n, Head(b).fin)>>)
                           \o Tail(b)
         /\ n = b[1].len =>
              Tail(b) = (IF n = Head(b).len THEN <<>>
                         ELSE <<El("data", Head(b).pos + n, Head(b).len - n, Head(b).fin)>>)
                        \o Tail(b)
         /\ n = 0 => Trim(b, n) = b
  <1>1. /\ Head(b) = b[1] /\ b[1] \in Element /\ Tail(b) \in Seq(Element)
        /\ Len(b) \in Nat \ {0}
    BY HeadTail
  <1>2. b[1].len \in Nat /\ b[1].pos \in Nat
    BY <1>1 DEF Element
  <1>3. n < b[1].len => n # b[1].len
    BY <1>2
  <1>4. ASSUME n = 0 PROVE Trim(b, n) = b
    <2>1. /\ Trim(b, n) \in Seq(Element) /\ Len(Trim(b, n)) = Len(b)
          /\ Trim(b, n)[1] = El(b[1].type, b[1].pos + n, b[1].len - n, b[1].fin)
          /\ \A i \in 2..Len(b) : Trim(b, n)[i] = b[i]
      BY <1>1, TrimType
    <2>2. b[1].pos + n = b[1].pos /\ b[1].len - n = b[1].len
      BY <1>2, <1>4
    <2>3. Trim(b, n)[1] = b[1]
      BY <1>1, <2>1, <2>2 DEF El, Element
    <2>4. \A i \in 1..Len(b) : Trim(b, n)[i] = b[i]
      BY <1>1, <2>1, <2>3
    <2> QED BY <2>1, <2>4
  <1>5. Tail(b) = <<>> \o Tail(b)
    BY <1>1
  <1> QED BY <1>1, <1>3, <1>4, <1>5 DEF Trim

(* OutStream means the same by the words of Xfer. *)
LEMMA StreamWords ==
  ASSUME NEW b
  PROVE  /\ Stream!Size(b) = Size(b) /\ Stream!Finalizers(b) = Finalizers(b)
         /\ Stream!FinsOf(b) = FinsOf(b) /\ Stream!FinalizersIn(b) = FinalizersIn(b)
         /\ \A a, k : Stream!Rebase(b, a, k) = Rebase(b, a, k)
         /\ \A p, n, k : Stream!El("data", p, n, k) = El("data", p, n, k)
  BY DEF Stream!Size, Size, Stream!Finalizers, Finalizers, Stream!FinsOf, FinsOf,
         Stream!FinalizersIn, FinalizersIn, Stream!Rebase, Rebase, Stream!El, El

(* A step with such an effect on one stream is a step of OutStream. *)
LEMMA EffectRefines ==
  ASSUME TypeOK, TypeOK', NEW f \in Fds, Effect(f), RestAt(f),
         \A g \in Fds : g # f => Same(g)
  PROVE  [Stream!Next]_Stream!vars
  <1>1. /\ todo[f] = Unsent(f) /\ todo'[f] = Unsent(f)'
        /\ late[f] = Late(f) /\ late'[f] = Late(f)'
    BY DEF todo, late
  <1>2. /\ \A g \in Fds : g # f => todo'[g] = todo[g]
        /\ \A g \in Fds : g # f => late'[g] = late[g]
    BY DEF Same, todo, late
  <1>3. /\ \A g \in Fds : g # f => wire'[g] = wire[g]
        /\ \A g \in Fds : g # f => broken'[g] = broken[g]
        /\ \A g \in Fds : g # f => accepted'[g] = accepted[g]
        /\ \A g \in Fds : g # f => nfin'[g] = nfin[g]
        /\ \A g \in Fds : g # f => finalized'[g] = finalized[g]
        /\ \A g \in Fds : g # f => dropped'[g] = dropped[g]
    BY DEF Same
  <1>4. \A x : /\ todo'[f] = x => todo' = [todo EXCEPT ![f] = x]
               /\ late'[f] = x => late' = [late EXCEPT ![f] = x]
    <2>1. todo = [g \in Fds |-> todo[g]] /\ todo' = [g \in Fds |-> todo'[g]]
      BY DEF todo
    <2>2. late = [g \in Fds |-> late[g]] /\ late' = [g \in Fds |-> late'[g]]
      BY DEF late
    <2> HIDE DEF todo, late
    <2> QED BY <1>2, <2>1, <2>2
  <1>5. \A x : /\ wire'[f] = x => wire' = [wire EXCEPT ![f] = x]
               /\ broken'[f] = x => broken' = [broken EXCEPT ![f] = x]
               /\ accepted'[f] = x => accepted' = [accepted EXCEPT ![f] = x]
    BY <1>3 DEF TypeOK
  <1>6. \A x : /\ nfin'[f] = x => nfin' = [nfin EXCEPT ![f] = x]
               /\ finalized'[f] = x => finalized' = [finalized EXCEPT ![f] = x]
               /\ dropped'[f] = x => dropped' = [dropped EXCEPT ![f] = x]
    BY <1>3 DEF TypeOK
  <1>7. (todo'[f] = todo[f] => todo' = todo) /\ (late'[f] = late[f] => late' = late)
    <2>1. todo = [g \in Fds |-> todo[g]] /\ todo' = [g \in Fds |-> todo'[g]]
      BY DEF todo
    <2>2. late = [g \in Fds |-> late[g]] /\ late' = [g \in Fds |-> late'[g]]
      BY DEF late
    <2> HIDE DEF todo, late
    <2> QED BY <1>2, <2>1, <2>2
  <1>8. /\ wire'[f] = wire[f] => wire' = wire
        /\ broken'[f] = broken[f] => broken' = broken
        /\ accepted'[f] = accepted[f] => accepted' = accepted
        /\ nfin'[f] = nfin[f] => nfin' = nfin
        /\ finalized'[f] = finalized[f] => finalized' = finalized
        /\ dropped'[f] = dropped[f] => dropped' = dropped
    BY <1>3 DEF TypeOK
  <1>9. IsPart(Unsent(f)) /\ Unsent(f) \in Seq(Element)
    BY DEF RestAt, Rest, EndOf, IsPart
  <1> HIDE DEF todo, late
  <1>10. CASE Same(f)
    BY <1>1, <1>7, <1>8, <1>10 DEF Same, Stream!vars
  <1>11. CASE Runs(f)
    <2>1. Head(todo[f]) = Unsent(f)[1] /\ todo[f] # <<>>
      BY <1>1, <1>9, <1>11, HeadTail DEF Runs
    <2>2. Stream!Ran(f, Head(todo[f]))
      BY <1>6, <1>11, <2>1 DEF Runs, Rec, Stream!Ran
    <2>3. todo' = [todo EXCEPT ![f] = Tail(todo[f])]
      BY <1>1, <1>4, <1>11 DEF Runs
    <2>4. UNCHANGED <<late, wire, broken, accepted, nfin, dropped>>
      BY <1>1, <1>7, <1>8, <1>11 DEF Runs
    <2>5. Stream!Run(f)
      BY <1>11, <2>1, <2>2, <2>3, <2>4 DEF Runs, Stream!Run
    <2> QED BY <2>1, <2>5 DEF Stream!Next
  <1>12. CASE Discards(f)
    <2>1. Head(todo[f]) = Unsent(f)[1] /\ todo[f] # <<>>
      BY <1>1, <1>9, <1>12, HeadTail DEF Discards
    <2>2. todo' = [todo EXCEPT ![f] = <<>>]
      BY <1>1, <1>4, <1>12 DEF Discards
    <2>3. \/ late' = [late EXCEPT ![f] = late[f] \cup FinsOf(todo[f])] /\ UNCHANGED dropped
          \/ /\ dropped' = [dropped EXCEPT ![f] = dropped[f] \cup FinalizersIn(todo[f])]
             /\ UNCHANGED late
      BY <1>1, <1>4, <1>6, <1>7, <1>8, <1>12 DEF Discards
    <2>4. UNCHANGED <<wire, broken, accepted, nfin, finalized>>
      BY <1>8, <1>12 DEF Discards
    <2>5. Stream!Discard(f)
      BY <1>12, <2>1, <2>2, <2>3, <2>4, StreamWords DEF Discards, Stream!Discard
    <2> QED BY <2>1, <2>5 DEF Stream!Next
  <1>13. CASE Resets(f)
    <2>1. broken' = [broken EXCEPT ![f] = TRUE]
      BY <1>5, <1>13 DEF Resets
    <2>2. UNCHANGED <<todo, late, wire, accepted, nfin, finalized, dropped>>
      BY <1>1, <1>7, <1>8, <1>13 DEF Resets
    <2>3. Stream!Reset(f)
      BY <2>1, <2>2 DEF Stream!Reset
    <2> QED BY <2>3 DEF Stream!Next
  <1>14. ASSUME NEW b, Asks(f, b) PROVE [Stream!Next]_Stream!vars
    <2>1. todo' = [todo EXCEPT ![f] = todo[f] \o Rebase(b, accepted[f], nfin[f])]
      BY <1>1, <1>4, <1>14 DEF Asks
    <2>2. /\ accepted' = [accepted EXCEPT ![f] = accepted[f] + Size(b)]
          /\ nfin' = [nfin EXCEPT ![f] = nfin[f] + Finalizers(b)]
      BY <1>5, <1>6, <1>14 DEF Asks
    <2>3. UNCHANGED <<late, wire, broken, finalized, dropped>>
      BY <1>1, <1>7, <1>8, <1>14 DEF Asks
    <2>4. /\ Stream!Rebase(b, accepted[f], nfin[f]) = Rebase(b, accepted[f], nfin[f])
          /\ Stream!Size(b) = Size(b) /\ Stream!Finalizers(b) = Finalizers(b)
      BY StreamWords
    <2>5. Stream!Ask(f, b)
      BY <2>1, <2>2, <2>3, <2>4 DEF Stream!Ask
    <2>6. b \in Requests
      BY <1>14 DEF Asks
    <2> QED BY <2>5, <2>6 DEF Stream!Next
  <1>15. ASSUME NEW n, Sends(f, n) PROVE [Stream!Next]_Stream!vars
    <2> DEFINE b == Unsent(f)
    <2>1. /\ b # <<>> /\ b[1].type = "data" /\ n \in 0..b[1].len /\ ~broken[f]
          /\ wire'[f] = Sent(wire[f], b[1].pos, n)
      BY <1>15 DEF Sends
    <2>2. UNCHANGED <<late, broken, accepted, nfin, finalized, dropped>>
      BY <1>1, <1>7, <1>8, <1>15 DEF Sends
    <2>3. Head(b) = b[1] /\ b[1] \in Element /\ b[1].len \in Nat /\ b[1].pos \in Nat
      BY <1>9, <2>1, HeadTail DEF Element
    <2>4. b \in Seq(Element) /\ todo[f] = b
      BY <1>1, <1>9
    <2>5. b' = Trim(b, n) \/ b' = Tail(b)
      BY <1>15 DEF Sends
    <2>6. CASE n = 0
      <3>1. b' = b
        <4>1. b' = Trim(b, n)
          BY <1>15, <2>6 DEF Sends
        <4> HIDE DEF b
        <4> QED BY <2>1, <2>4, <2>6, <4>1, DeliverRest
      <3>2. wire'[f] = wire[f]
        <4>1. wire[f] \in Seq(Nat)
          BY DEF TypeOK
        <4>2. Sent(wire[f], b[1].pos, 0) = wire[f]
          BY <4>1 DEF Sent
        <4> QED BY <2>1, <2>6, <4>2
      <3> QED BY <1>1, <1>7, <1>8, <2>2, <3>1, <3>2 DEF Stream!vars
    <2>7. CASE n # 0
      <3> DEFINE rest == IF n = Head(b).len THEN <<>>
                         ELSE <<El("data", Head(b).pos + n, Head(b).len - n, Head(b).fin)>>
      <3>1. b' = rest \o Tail(b)
        <4>1. \/ n < b[1].len /\ b' = Trim(b, n)
              \/ n = b[1].len /\ b' = Tail(b)
          BY <1>15 DEF Sends
        <4> HIDE DEF b
        <4> QED BY <2>1, <2>4, <4>1, DeliverRest
      <3>2. todo' = [todo EXCEPT ![f] = rest \o Tail(todo[f])]
        <4>1. todo'[f] = rest \o Tail(todo[f])
          BY <1>1, <3>1
        <4> HIDE DEF rest
        <4> QED BY <1>4, <4>1
      <3>3. wire' = [wire EXCEPT ![f] = wire[f] \o [i \in 1..n |-> Head(b).pos + i]]
        BY <1>5, <2>1, <2>3 DEF Sent
      <3>4. n \in 1..Head(b).len /\ 0 < n /\ n <= Head(b).len
        <4> HIDE DEF b
        <4> QED BY <2>1, <2>3, <2>7
      <3>5. Head(b).type = "data"
        BY <2>1, <2>3
      <3>6. Stream!Deliver(f, n)
        <4> HIDE DEF b
        <4> QED BY <2>1, <2>2, <2>4, <3>2, <3>3, <3>4, <3>5, StreamWords
            DEF Stream!Deliver
      <3>7. todo[f] # <<>> /\ n \in 1..Head(todo[f]).len
        <4> HIDE DEF b
        <4> QED BY <2>1, <2>4, <3>4
      <3> QED BY <3>6, <3>7 DEF Stream!Next
    <2> QED BY <2>6, <2>7
  <1>16. ASSUME NEW e, RunsLate(f, e) PROVE [Stream!Next]_Stream!vars
    <2>1. Stream!Ran(f, e)
      BY <1>6, <1>16 DEF RunsLate, Rec, Stream!Ran
    <2>2. e \in late[f] /\ late' = [late EXCEPT ![f] = late[f] \ {e}]
      BY <1>1, <1>4, <1>16 DEF RunsLate
    <2>3. UNCHANGED <<todo, wire, broken, accepted, nfin, dropped>>
      BY <1>1, <1>7, <1>8, <1>16 DEF RunsLate
    <2>4. Stream!RunLate(f)
      BY <2>1, <2>2, <2>3 DEF Stream!RunLate
    <2> QED BY <2>4 DEF Stream!Next
  <1> QED BY <1>10, <1>11, <1>12, <1>13, <1>14, <1>15, <1>16 DEF Effect

-----------------------------------------------------------------------------
(* The invariant and the refinement are preserved together: StepOK.        *)

StreamParts == RestOK /\ BuffersOK /\ FinsOK
StepOK == StreamParts' /\ [Stream!Next]_Stream!vars

(* A step that has an effect on one descriptor is a step of its stream. *)
LEMMA StepOf ==
  ASSUME TypeOK, TypeOK', StreamParts, NEW f \in Fds, Effect(f),
         \A g \in Fds : g # f => Same(g), FinsAt(f)', BuffersOK'
  PROVE  StepOK
  <1>1. \A g \in Fds : RestAt(g) /\ FinsAt(g)
    BY DEF StreamParts, RestOK, FinsOK, RestAt, FinsAt
  <1>2. RestAt(f)'
    BY <1>1, EffectRest
  <1>3. ASSUME NEW g \in Fds PROVE RestAt(g)' /\ FinsAt(g)'
    <2>1. CASE g = f
      BY <1>2, <2>1
    <2>2. CASE g # f
      BY <1>1, <2>2, SameKept
    <2> QED BY <2>1, <2>2
  <1>4. RestOK' /\ FinsOK'
    BY <1>3 DEF RestOK, FinsOK, RestAt, FinsAt
  <1>5. [Stream!Next]_Stream!vars
    BY <1>1, EffectRefines
  <1> QED BY <1>4, <1>5 DEF StepOK, StreamParts

(* A step that changes no stream is a stutter. *)
LEMMA StepQuiet ==
  ASSUME TypeOK, TypeOK', StreamParts, \A g \in Fds : Same(g), BuffersOK'
  PROVE  StepOK
  <1>1. \A g \in Fds : RestAt(g) /\ FinsAt(g)
    BY DEF StreamParts, RestOK, FinsOK, RestAt, FinsAt
  <1>2. \A g \in Fds : RestAt(g)' /\ FinsAt(g)'
    BY <1>1, SameKept
  <1>3. RestOK' /\ FinsOK'
    BY <1>2 DEF RestOK, FinsOK, RestAt, FinsAt
  <1>4. todo' = todo /\ late' = late
    BY DEF Same, todo, late
  <1>5. UNCHANGED <<wire, broken, accepted, nfin, finalized, dropped>>
    BY DEF Same, TypeOK
  <1> QED BY <1>3, <1>4, <1>5 DEF StepOK, StreamParts, Stream!vars

(* The buffers after a step of t for f. *)
LEMMA BuffersFrame ==
  ASSUME TypeOK, LocksOK, BuffersOK, NEW t \in Threads, NEW f \in Fds, Touches(t, f),
         IsPart(m_fdctx'[f]), m_fdctx'[f] = m_fdctx[f] \/ owner[f] \in {None, t},
         failed[f] => failed'[f],
         t \in Writers =>
           /\ IsPart(xfbuf'[t])
           /\ pc'[t] \notin {"execute", "clear_xf"} => xfbuf'[t] = <<>>
           /\ pc'[t] = "clear_xf" => fd'[t] = f /\ failed'[f],
         t \in Workers =>
           (pc'[t] \in {"remove", "clear"} => fd'[t] = f /\ (m_fdctx'[f] = <<>> \/ failed'[f]))
  PROVE  BuffersOK'
  <1>0. /\ Writers \subseteq Threads /\ Workers \subseteq Threads /\ None \notin Threads
        /\ \A u \in Threads : pc[u] \in {"remove", "clear"} => pc[u] \in LockedPCs
    BY ThreadsAssumption DEF Threads, LockedPCs
  <1>1. \A g \in Fds : IsPart(m_fdctx'[g])
    BY DEF BuffersOK, Touches
  <1>2. ASSUME NEW u \in Writers
        PROVE  /\ IsPart(xfbuf'[u])
               /\ pc'[u] \notin {"execute", "clear_xf"} => xfbuf'[u] = <<>>
               /\ pc'[u] = "clear_xf" => failed'[fd'[u]]
    <2>1. CASE u = t
      BY <2>1
    <2>2. CASE u # t
      <3>1. pc'[u] = pc[u] /\ xfbuf'[u] = xfbuf[u] /\ fd'[u] = fd[u]
        BY <1>0, <2>2 DEF Touches
      <3>2. pc[u] = "clear_xf" => fd[u] \in Fds /\ failed[fd[u]]
        BY <1>0 DEF BuffersOK, LocksOK, TypeOK
      <3>3. pc[u] = "clear_xf" => failed'[fd[u]]
        BY <3>2 DEF Touches
      <3> QED BY <3>1, <3>3 DEF BuffersOK
    <2> QED BY <2>1, <2>2
  <1>3. ASSUME NEW u \in Workers, pc'[u] \in {"remove", "clear"}
        PROVE  m_fdctx'[fd'[u]] = <<>> \/ failed'[fd'[u]]
    <2>1. CASE u = t
      BY <1>3, <2>1
    <2>2. CASE u # t
      <3>1. pc'[u] = pc[u] /\ fd'[u] = fd[u]
        BY <1>0, <2>2 DEF Touches
      <3>2. fd[u] \in Fds /\ owner[fd[u]] = u /\ u # None
        BY <1>0, <1>3, <3>1 DEF LocksOK, TypeOK
      <3>3. m_fdctx[fd[u]] = <<>> \/ failed[fd[u]]
        BY <1>3, <3>1 DEF BuffersOK
      <3>4. m_fdctx'[fd[u]] = m_fdctx[fd[u]] /\ (failed[fd[u]] => failed'[fd[u]])
        BY <2>2, <3>2 DEF Touches
      <3> QED BY <3>1, <3>3, <3>4
    <2> QED BY <2>1, <2>2
  <1> QED BY <1>1, <1>2, <1>3 DEF BuffersOK

(* What is left of the stream of f, by who holds its mutex. *)
LEMMA UnsentIs ==
  ASSUME NEW f
  PROVE  /\ owner[f] = None => Unsent(f) = m_fdctx[f] /\ ~Discarding(f)
         /\ owner[f] \in Writers => ~Discarding(f)
         /\ owner[f] \in Writers /\ pc[owner[f]] = "execute" => Unsent(f) = xfbuf[owner[f]]
         /\ owner[f] \in Writers /\ pc[owner[f]] # "execute" => Unsent(f) = m_fdctx[f]
         /\ owner[f] \in Workers /\ pc[owner[f]] \in {"remove", "clear"} =>
              Unsent(f) = <<>> /\ Discarding(f)
         /\ owner[f] \in Workers /\ pc[owner[f]] \notin {"remove", "clear"} =>
              Unsent(f) = m_fdctx[f] /\ ~Discarding(f)
  <1>1. Writers \cap Workers = {} /\ None \notin Writers /\ None \notin Workers
    BY ThreadsAssumption DEF Threads
  <1> QED BY <1>1 DEF Unsent, Discarding

(* What is unsent after a step, by who has the lock then. *)
LEMMA UnsentIsNext ==
  ASSUME NEW f
  PROVE  /\ owner'[f] = None => Unsent(f)' = m_fdctx'[f] /\ ~Discarding(f)'
         /\ owner'[f] \in Writers => ~Discarding(f)'
         /\ owner'[f] \in Writers /\ pc'[owner'[f]] = "execute" => Unsent(f)' = xfbuf'[owner'[f]]
         /\ owner'[f] \in Writers /\ pc'[owner'[f]] # "execute" => Unsent(f)' = m_fdctx'[f]
         /\ owner'[f] \in Workers /\ pc'[owner'[f]] \in {"remove", "clear"} =>
              Unsent(f)' = <<>> /\ Discarding(f)'
         /\ owner'[f] \in Workers /\ pc'[owner'[f]] \notin {"remove", "clear"} =>
              Unsent(f)' = m_fdctx'[f] /\ ~Discarding(f)'
  <1>1. Writers \cap Workers = {} /\ None \notin Writers /\ None \notin Workers
    BY ThreadsAssumption DEF Threads
  <1> QED BY <1>1 DEF Unsent, Discarding

(* A step of t that changes no stream. *)
LEMMA Quiet ==
  ASSUME TypeOK, TypeOK', LocksOK, StreamParts, NEW t \in Threads, NEW f \in Fds, Touches(t, f),
         UNCHANGED <<m_fdctx, wire, broken, accepted, nfin, finalized, dropped, failed>>,
         Unsent(f)' = Unsent(f), m_fdctx[f] = <<>> \/ (Discarding(f)' <=> Discarding(f)),
         t \in Writers => /\ fd[t] = f /\ xfbuf[t] = <<>> /\ xfbuf'[t] = <<>>
                          /\ pc'[t] # "clear_xf",
         t \in Workers /\ pc'[t] \in {"remove", "clear"} =>
           fd'[t] = f /\ (m_fdctx[f] = <<>> \/ failed[f])
  PROVE  StepOK
  <1>1. BuffersOK /\ IsPart(m_fdctx[f]) /\ (t \in Writers => IsPart(xfbuf[t]))
    BY DEF StreamParts, BuffersOK
  <1>2. BuffersOK'
    BY <1>1, BuffersFrame
  <1>3. FinsOf(m_fdctx[f]) = {} \/ (Discarding(f)' <=> Discarding(f))
    BY FinsEmpty
  <1>4. \A g \in Fds : Same(g)
    BY <1>3, QuietSame
  <1> QED BY <1>2, <1>4, StepQuiet

(* The steps of a caller that change no stream. *)
LEMMA QuietWriter ==
  ASSUME TypeOK, TypeOK', LocksOK, HolderOK, StreamParts, NEW t \in Writers,
         \/ ExecuteDone(t) \/ WatchAddFd(t) \/ WatchCount(t)
         \/ ClearCaller(t) /\ xfbuf[t] = <<>>
  PROVE  StepOK
  <1>1. t \in Threads /\ t \notin Workers /\ t # None
    BY ThreadsAssumption DEF Threads
  <1>2. pc[t] # "idle"
    BY DEF ExecuteDone, WatchAddFd, WatchCount, ClearCaller
  <1>3. PICK f \in Fds : f = fd[t]
    BY <1>1, <1>2, Inside
  <1>4. /\ UNCHANGED <<m_fdctx, wire, broken, accepted, nfin, finalized, dropped, failed>>
        /\ \A g \in Fds : g # f => owner'[g] = owner[g]
        /\ \A u \in Threads : u # t => pc'[u] = pc[u] /\ xfbuf'[u] = xfbuf[u] /\ fd'[u] = fd[u]
        /\ fd'[t] \in {None, f} /\ xfbuf[t] = <<>> /\ xfbuf'[t] = <<>>
        /\ pc'[t] \in {"idle", "add_watching"}
    <2>1. pc[t] \in {"add_fd", "add_watching"} => xfbuf[t] = <<>>
      BY DEF StreamParts, BuffersOK
    <2>2. CASE ExecuteDone(t)
      BY <1>1, <1>3, <2>2 DEF ExecuteDone, Unlock, Return, Begin, TypeOK, queueVars,
                              sockVars, askVars, errVars
    <2>3. CASE WatchAddFd(t)
      BY <1>1, <1>3, <2>1, <2>3 DEF WatchAddFd, At, TypeOK, callVars, sockVars, askVars, errVars
    <2>4. CASE WatchCount(t)
      BY <1>1, <1>3, <2>1, <2>4 DEF WatchCount, Unlock, Return, Begin, TypeOK,
                                    sockVars, askVars, errVars
    <2>5. CASE ClearCaller(t) /\ xfbuf[t] = <<>>
      BY <1>1, <1>3, <2>5 DEF ClearCaller, Return, Begin, TypeOK, queueVars,
                              sockVars, askVars, errVars
    <2> QED BY <2>2, <2>3, <2>4, <2>5
  <1>5. Touches(t, f)
    BY <1>3, <1>4 DEF Touches
  <1>6. Unsent(f)' = Unsent(f) /\ (Discarding(f)' <=> Discarding(f))
    <2>1. CASE ExecuteDone(t)
      <3>1. owner[f] = t /\ owner'[f] = None /\ pc[t] = "execute" /\ m_fdctx[f] = <<>>
        BY <1>1, <1>3, <2>1
           DEF ExecuteDone, Unlock, TypeOK, LocksOK, HolderOK, LockedPCs
      <3> QED BY <1>4, <3>1, UnsentIs, UnsentIsNext
    <2>2. CASE WatchAddFd(t)
      <3>1. owner[f] = t /\ owner'[f] = t /\ pc[t] # "execute" /\ pc'[t] # "execute"
        BY <1>1, <1>3, <1>4, <2>2 DEF WatchAddFd, TypeOK, LocksOK, LockedPCs
      <3> QED BY <1>4, <3>1, UnsentIs, UnsentIsNext
    <2>3. CASE WatchCount(t)
      <3>1. owner[f] = t /\ owner'[f] = None /\ pc[t] # "execute"
        BY <1>1, <1>3, <2>3 DEF WatchCount, Unlock, TypeOK, LocksOK, LockedPCs
      <3> QED BY <1>4, <3>1, UnsentIs, UnsentIsNext
    <2>4. CASE ClearCaller(t) /\ xfbuf[t] = <<>>
      <3>1. owner[f] # t /\ owner' = owner
        BY <1>1, <1>3, <2>4 DEF ClearCaller, LocksOK, LockedPCs
      <3>2. owner[f] \in Threads \cup {None}
        BY DEF TypeOK
      <3>3. owner[f] \in Threads => pc'[owner[f]] = pc[owner[f]] /\ xfbuf'[owner[f]] = xfbuf[owner[f]]
        BY <1>4, <3>1
      <3>4. Writers \subseteq Threads /\ Workers \subseteq Threads
        BY DEF Threads
      <3> QED BY <1>4, <3>1, <3>2, <3>3, <3>4 DEF Unsent, Discarding
    <2> QED BY <2>1, <2>2, <2>3, <2>4
  <1> QED BY <1>1, <1>3, <1>4, <1>5, <1>6, Quiet

(* The steps of a worker that change no stream. *)
LEMMA QuietWorker ==
  ASSUME TypeOK, TypeOK', LocksOK, HolderOK, StreamParts, NEW t \in Workers,
         \/ WriteEventLock(t) \/ TryWriteDone(t) \/ Reactivate(t) \/ Remove(t) \/ Unwatch(t)
  PROVE  StepOK
  <1>1. t \in Threads /\ t \notin Writers /\ t # None
    BY ThreadsAssumption DEF Threads
  <1>2. pc[t] # "idle"
    BY DEF WriteEventLock, TryWriteDone, Reactivate, Remove, Unwatch
  <1>3. PICK f \in Fds : f = fd[t]
    BY <1>1, <1>2, Inside
  <1>4. /\ UNCHANGED <<m_fdctx, wire, broken, accepted, nfin, finalized, dropped, failed>>
        /\ \A g \in Fds : g # f => owner'[g] = owner[g]
        /\ \A u \in Threads : u # t => pc'[u] = pc[u] /\ xfbuf'[u] = xfbuf[u] /\ fd'[u] = fd[u]
        /\ fd'[t] \in {None, f}
    <2>1. CASE WriteEventLock(t)
      BY <1>1, <1>3, <2>1 DEF WriteEventLock, At, TypeOK, queueVars, callVars,
                              sockVars, askVars, errVars
    <2>2. CASE TryWriteDone(t)
      BY <1>1, <1>3, <2>2 DEF TryWriteDone, At, TypeOK, queueVars, callVars,
                              sockVars, askVars, errVars
    <2>3. CASE Reactivate(t)
      BY <1>1, <1>3, <2>3 DEF Reactivate, Unlock, Return, Begin, TypeOK,
                              sockVars, askVars, errVars
    <2>4. CASE Remove(t)
      BY <1>1, <1>3, <2>4 DEF Remove, At, TypeOK, callVars, sockVars, askVars, errVars
    <2>5. CASE Unwatch(t)
      BY <1>1, <1>3, <2>5 DEF Unwatch, Unlock, Return, Begin, TypeOK,
                              sockVars, askVars, errVars
    <2> QED BY <2>1, <2>2, <2>3, <2>4, <2>5
  <1>5. Touches(t, f)
    BY <1>3, <1>4 DEF Touches
  <1>6. /\ Unsent(f)' = Unsent(f) /\ (m_fdctx[f] = <<>> \/ (Discarding(f)' <=> Discarding(f)))
        /\ pc'[t] \in {"remove", "clear"} => fd'[t] = f /\ (m_fdctx[f] = <<>> \/ failed[f])
    <2>1. CASE WriteEventLock(t)
      <3>1. owner[f] = None /\ owner'[f] = t /\ pc'[t] = "try_write"
        BY <1>1, <1>3, <2>1 DEF WriteEventLock, At, TypeOK
      <3> QED BY <1>4, <3>1, UnsentIs, UnsentIsNext
    <2>2. CASE TryWriteDone(t)
      <3>1. /\ owner[f] = t /\ owner'[f] = t /\ pc[t] = "try_write" /\ pc'[t] = "remove"
            /\ m_fdctx[f] = <<>> /\ fd'[t] = f
        BY <1>1, <1>3, <2>2 DEF TryWriteDone, At, TypeOK, LocksOK, LockedPCs, callVars
      <3> QED BY <1>4, <3>1, UnsentIs, UnsentIsNext
    <2>3. CASE Reactivate(t)
      <3>1. owner[f] = t /\ owner'[f] = None /\ pc[t] = "reactivate" /\ pc'[t] = "idle"
        BY <1>1, <1>3, <2>3 DEF Reactivate, Unlock, Return, TypeOK, LocksOK, LockedPCs
      <3> QED BY <1>4, <3>1, UnsentIs, UnsentIsNext
    <2>4. CASE Remove(t)
      <3>1. /\ owner[f] = t /\ owner'[f] = t /\ pc[t] = "remove" /\ pc'[t] = "clear"
            /\ fd'[t] = f
        BY <1>1, <1>3, <2>4 DEF Remove, At, TypeOK, LocksOK, LockedPCs, callVars
      <3>2. m_fdctx[f] = <<>> \/ failed[f]
        BY <1>3, <3>1 DEF StreamParts, BuffersOK
      <3> QED BY <1>4, <3>1, <3>2, UnsentIs, UnsentIsNext
    <2>5. CASE Unwatch(t)
      <3>1. /\ owner[f] = t /\ owner'[f] = None /\ pc[t] = "clear" /\ pc'[t] = "idle"
            /\ m_fdctx[f] = <<>>
        BY <1>1, <1>3, <2>5 DEF Unwatch, Unlock, Return, TypeOK, LocksOK, LockedPCs
      <3> QED BY <1>4, <3>1, UnsentIs, UnsentIsNext
    <2> QED BY <2>1, <2>2, <2>3, <2>4, <2>5
  <1> QED BY <1>1, <1>4, <1>5, <1>6, Quiet

(* A worker takes an event from m_queue. *)
LEMMA QuietNext ==
  ASSUME TypeOK, TypeOK', LocksOK, StreamParts, NEW t \in Workers, next(t)
  PROVE  StepOK
  <1>1. t \in Threads /\ t \notin Writers /\ t # None
    BY ThreadsAssumption DEF Threads
  <1>2. PICK f \in Fds : f = Head(m_queue)
    <2>1. m_queue \in Seq(Fds) /\ m_queue # <<>>
      BY DEF next, TypeOK
    <2>2. Head(m_queue) \in Fds
      BY <2>1
    <2> QED BY <2>2
  <1>3. /\ UNCHANGED <<m_fdctx, owner, wire, broken, accepted, nfin, finalized, dropped, failed>>
        /\ \A u \in Threads : u # t => pc'[u] = pc[u] /\ xfbuf'[u] = xfbuf[u] /\ fd'[u] = fd[u]
        /\ fd[t] = None /\ fd'[t] = f /\ pc'[t] = "write_event" /\ pc[t] = "idle"
    BY <1>1, <1>2 DEF next, At, TypeOK, LocksOK, sockVars, askVars, errVars
  <1>4. Touches(t, f)
    BY <1>3 DEF Touches
  <1>5. Unsent(f)' = Unsent(f) /\ (Discarding(f)' <=> Discarding(f))
    <2>1. owner[f] # t /\ owner[f] \in Threads \cup {None}
      BY <1>1, <1>3 DEF LocksOK, LockedPCs, TypeOK
    <2>2. owner[f] \in Threads => pc'[owner[f]] = pc[owner[f]] /\ xfbuf'[owner[f]] = xfbuf[owner[f]]
      BY <1>3, <2>1
    <2>3. Writers \subseteq Threads /\ Workers \subseteq Threads
      BY DEF Threads
    <2> QED BY <1>3, <2>1, <2>2, <2>3 DEF Unsent, Discarding
  <1> QED BY <1>1, <1>3, <1>4, <1>5, Quiet

(* A step that changes neither threads nor queues nor streams. *)
LEMMA QuietOther ==
  ASSUME TypeOK, TypeOK', StreamParts,
         UNCHANGED <<m_fdctx, owner, pc, fd, xfbuf, wire, broken, accepted, nfin, finalized,
                     dropped, failed>>
  PROVE  StepOK
  <1>1. \A g \in Fds : Same(g)
    BY DEF Same, Unsent, Discarding, Late, Clearing, Held
  <1>2. BuffersOK'
    BY DEF StreamParts, BuffersOK
  <1> QED BY <1>1, <1>2, StepQuiet

(* The peer resets the connection. *)
LEMMA StepReset ==
  ASSUME TypeOK, TypeOK', StreamParts, NEW f \in Fds, PeerReset(f)
  PROVE  StepOK
  <1>1. /\ UNCHANGED <<m_fdctx, owner, pc, fd, xfbuf, wire, accepted, nfin, finalized,
                       dropped, failed>>
        /\ broken'[f] = TRUE /\ \A g \in Fds : g # f => broken'[g] = broken[g]
    BY DEF PeerReset, TypeOK, callVars, askVars, errVars
  <1>2. \A g \in Fds : Unsent(g)' = Unsent(g) /\ Late(g)' = Late(g) /\ Held(g)' = Held(g)
    BY <1>1 DEF Unsent, Discarding, Late, Clearing, Held
  <1>3. \A g \in Fds : g # f => Same(g)
    BY <1>1, <1>2 DEF Same
  <1>4. Resets(f)
    BY <1>1, <1>2 DEF Resets
  <1>5. BuffersOK'
    BY <1>1 DEF StreamParts, BuffersOK
  <1>6. FinsAt(f)'
    BY <1>1, <1>2 DEF StreamParts, FinsOK, FinsAt
  <1> QED BY <1>3, <1>4, <1>5, <1>6, StepOf DEF Effect

-----------------------------------------------------------------------------
(* The head of what is left is written, or runs.                           *)

(* The whole head is done: what Completes does to the stream of f. *)
LEMMA CompletesEffect ==
  ASSUME TypeOK, NEW f \in Fds, Completes(f, Unsent(f)), Unsent(f) \in Seq(Element),
         Unsent(f)' = Tail(Unsent(f)), Late(f)' = Late(f),
         UNCHANGED <<accepted, nfin, dropped, failed>>
  PROVE  /\ Effect(f) /\ Unsent(f) # <<>>
         /\ Unsent(f)[1].type = "data" => finalized' = finalized
         /\ Unsent(f)[1].type = "finalize" =>
              finalized'[f] = Append(finalized[f], Rec(Unsent(f)[1], wire[f]))
         /\ \A g \in Fds : g # f => /\ wire'[g] = wire[g] /\ broken'[g] = broken[g]
                                    /\ finalized'[g] = finalized[g]
  <1> DEFINE b == Unsent(f)
  <1>1. b # <<>> /\ Head(b) = b[1] /\ b[1] \in Element /\ b[1].len \in Nat
    BY HeadTail DEF Completes, Element
  <1> HIDE DEF b
  <1>2. CASE b[1].type = "finalize" /\ Finalize(f, b[1])
    <2>1. /\ UNCHANGED <<wire, broken>>
          /\ finalized'[f] = Append(finalized[f], Rec(b[1], wire[f]))
          /\ \A g \in Fds : g # f => finalized'[g] = finalized[g]
      BY <1>2 DEF Finalize, Rec, TypeOK, sockVars
    <2>2. Runs(f)
      BY <1>1, <1>2, <2>1 DEF Runs, b
    <2> QED BY <1>1, <1>2, <2>1, <2>2 DEF Effect, b
  <1>3. CASE b[1].type = "data" /\ ~broken[f] /\ 0 < b[1].len /\ Send(f, b[1], b[1].len)
    <2>1. /\ UNCHANGED <<broken, finalized>>
          /\ wire'[f] = Sent(wire[f], b[1].pos, b[1].len)
          /\ \A g \in Fds : g # f => wire'[g] = wire[g]
      BY <1>3 DEF Send, Sent, TypeOK
    <2>2. b[1].len \in 0..b[1].len
      BY <1>1
    <2>3. Sends(f, b[1].len)
      BY <1>1, <1>3, <2>1, <2>2 DEF Sends, b
    <2> QED BY <1>1, <1>3, <2>1, <2>3 DEF Effect, b
  <1> QED BY <1>1, <1>2, <1>3 DEF Completes, b

(* The head of b leaves the place x: it ran if it is a finalizer, and      *)
(* nothing else ran.                                                       *)
LEMMA HeadAccount ==
  ASSUME TypeOK, StreamParts, NEW f \in Fds, NEW b, IsPart(b), b # <<>>, NEW x \in DOMAIN Held(f),
         DOMAIN Held(f)' = DOMAIN Held(f),
         \A y \in DOMAIN Held(f) : y # x => Held(f)'[y] = Held(f)[y],
         Held(f)[x] = FinalizersIn(b), Held(f)'[x] = FinalizersIn(Tail(b)),
         UNCHANGED <<nfin, dropped>>, b[1].type = "data" => finalized' = finalized,
         b[1].type = "finalize" => finalized'[f] = Append(finalized[f], Rec(b[1], wire[f]))
  PROVE  FinsAt(f)' /\ (b[1].type = "data" => Held(f)' = Held(f))
  <1> DEFINE h == Held(f)
             g == Held(f)'
  <1>1. /\ DOMAIN g = DOMAIN h /\ x \in DOMAIN h
        /\ \A y \in DOMAIN h : y # x => g[y] = h[y]
        /\ h[x] = FinalizersIn(b) /\ g[x] = FinalizersIn(Tail(b))
    OBVIOUS
  <1>2. Accounted(finalized[f], h, dropped[f], nfin[f])
    BY DEF StreamParts, FinsOK
  <1>3. finalized[f] \in Seq(FinRec) /\ wire[f] \in Seq(Nat) /\ b \in Seq(Element)
    BY DEF TypeOK, FinRec, IsPart
  <1>4. b[1] \in Element
    BY <1>3, HeadTail
  <1>5. h = [y \in DOMAIN h |-> h[y]] /\ g = [y \in DOMAIN g |-> g[y]]
    BY DEF Held
  <1>6. g = Held(f)' /\ h = Held(f)
    OBVIOUS
  <1> HIDE DEF h, g
  <1>7. CASE b[1].type = "finalize"
    <2>1. b[1].fin \in h[x] /\ g[x] = h[x] \ {b[1].fin}
      BY <1>1, <1>7, FinsTail
    <2>2. Rec(b[1], wire[f]) \in FinRec /\ Rec(b[1], wire[f]).fin = b[1].fin
      <3>1. Len(wire[f]) \in Nat
        BY <1>3
      <3> QED BY <1>4, <3>1 DEF Rec, FinRec, Element
    <2>3. Accounted(Append(finalized[f], Rec(b[1], wire[f])), g, dropped[f], nfin[f])
      BY <1>1, <1>2, <1>3, <2>1, <2>2, AccountRun
    <2> QED BY <1>6, <1>7, <2>3 DEF FinsAt
  <1>8. CASE b[1].type = "data"
    <2>1. g[x] = h[x]
      BY <1>1, <1>8, FinsTail
    <2>2. g = h
      BY <1>1, <1>5, <2>1
    <2> QED BY <1>2, <1>6, <1>8, <2>2 DEF FinsAt
  <1>9. b[1].type \in {"data", "finalize"}
    BY <1>4 DEF Element
  <1> QED BY <1>7, <1>8, <1>9

(* A caller writes an element, or runs a finalizer, directly. *)
LEMMA StepExecuteOn ==
  ASSUME TypeOK, TypeOK', LocksOK, StreamParts, NEW t \in Writers, ExecuteOn(t)
  PROVE  StepOK
  <1>1. t \in Threads /\ t \notin Workers /\ t # None
    BY ThreadsAssumption DEF Threads
  <1>2. pc[t] = "execute"
    BY DEF ExecuteOn
  <1>3. PICK f \in Fds : f = fd[t]
    BY <1>1, <1>2, Inside
  <1>4. /\ UNCHANGED <<m_fdctx, owner, pc, fd, accepted, nfin, dropped, failed>>
        /\ xfbuf'[t] = Tail(xfbuf[t]) /\ \A u \in Threads : u # t => xfbuf'[u] = xfbuf[u]
    BY <1>1 DEF ExecuteOn, TypeOK, callVars, askVars, errVars
  <1>5. owner[f] = t
    BY <1>1, <1>2, <1>3 DEF LocksOK, LockedPCs
  <1>6. /\ Unsent(f) = xfbuf[t] /\ Unsent(f)' = Tail(xfbuf[t])
        /\ ~Discarding(f) /\ ~Discarding(f)'
    BY <1>2, <1>4, <1>5, UnsentIs, UnsentIsNext
  <1>7. IsPart(xfbuf[t]) /\ xfbuf[t] \in Seq(Element)
    BY DEF StreamParts, BuffersOK, IsPart
  <1>8. t \notin Clearing(f) /\ t \notin Clearing(f)'
    BY <1>2, <1>4 DEF Clearing
  <1>9. Late(f)' = Late(f)
    <2>1. \A u \in Clearing(f) : xfbuf'[u] = xfbuf[u]
      BY <1>4, <1>8 DEF Clearing, Threads
    <2>2. Clearing(f)' = Clearing(f)
      BY <1>4 DEF Clearing
    <2>3. {FinsOf(xfbuf'[u]) : u \in Clearing(f)} = {FinsOf(xfbuf[u]) : u \in Clearing(f)}
      BY <2>1
    <2> QED BY <1>6, <2>2, <2>3 DEF Late
  <1>10. Completes(f, Unsent(f))
    BY <1>3, <1>6 DEF ExecuteOn
  <1>11. /\ Effect(f) /\ Unsent(f) # <<>>
         /\ Unsent(f)[1].type = "data" => finalized' = finalized
         /\ Unsent(f)[1].type = "finalize" =>
              finalized'[f] = Append(finalized[f], Rec(Unsent(f)[1], wire[f]))
         /\ \A g \in Fds : g # f => /\ wire'[g] = wire[g] /\ broken'[g] = broken[g]
                                    /\ finalized'[g] = finalized[g]
    BY <1>4, <1>6, <1>7, <1>9, <1>10, CompletesEffect
  <1>12. Touches(t, f)
    BY <1>3, <1>4, <1>11 DEF Touches
  <1>13. \A g \in Fds : g # f => Same(g)
    BY <1>1, <1>12, OthersSame
  <1>14. BuffersOK'
    <2>1. BuffersOK /\ IsPart(m_fdctx[f])
      BY DEF StreamParts, BuffersOK
    <2>2. IsPart(Tail(xfbuf[t]))
      BY <1>6, <1>7, <1>11, TailPart
    <2> QED BY <1>1, <1>2, <1>4, <1>12, <2>1, <2>2, BuffersFrame
  <1>15. FinsAt(f)'
    <2>1. /\ DOMAIN Held(f)' = DOMAIN Held(f) /\ t \in DOMAIN Held(f)
          /\ \A y \in DOMAIN Held(f) : y # t => Held(f)'[y] = Held(f)[y]
          /\ Held(f)[t] = FinalizersIn(xfbuf[t]) /\ Held(f)'[t] = FinalizersIn(Tail(xfbuf[t]))
      BY <1>1, <1>3, <1>4, <1>12, OthersHold
    <2> QED BY <1>4, <1>6, <1>7, <1>11, <2>1, HeadAccount
  <1> QED BY <1>11, <1>13, <1>14, <1>15, StepOf

(* A worker does the same from the queue. *)
LEMMA StepTryWriteOn ==
  ASSUME TypeOK, TypeOK', LocksOK, StreamParts, NEW t \in Workers, TryWriteOn(t)
  PROVE  StepOK
  <1>1. t \in Threads /\ t \notin Writers /\ t # None
    BY ThreadsAssumption DEF Threads
  <1>2. pc[t] = "try_write"
    BY DEF TryWriteOn
  <1>3. PICK f \in Fds : f = fd[t]
    BY <1>1, <1>2, Inside
  <1>4. /\ UNCHANGED <<owner, pc, fd, xfbuf, accepted, nfin, dropped, failed>>
        /\ m_fdctx'[f] = Tail(m_fdctx[f]) /\ \A g \in Fds : g # f => m_fdctx'[g] = m_fdctx[g]
    BY <1>3 DEF TryWriteOn, TypeOK, callVars, askVars, errVars
  <1>5. owner[f] = t
    BY <1>1, <1>2, <1>3 DEF LocksOK, LockedPCs
  <1>6. /\ Unsent(f) = m_fdctx[f] /\ Unsent(f)' = Tail(m_fdctx[f])
        /\ ~Discarding(f) /\ ~Discarding(f)'
    BY <1>2, <1>4, <1>5, UnsentIs, UnsentIsNext
  <1>7. IsPart(m_fdctx[f]) /\ m_fdctx[f] \in Seq(Element)
    BY DEF StreamParts, BuffersOK, IsPart
  <1>8. Late(f)' = Late(f)
    BY <1>4, <1>6 DEF Late, Clearing
  <1>9. Completes(f, Unsent(f))
    BY <1>3, <1>6 DEF TryWriteOn
  <1>10. /\ Effect(f) /\ Unsent(f) # <<>>
         /\ Unsent(f)[1].type = "data" => finalized' = finalized
         /\ Unsent(f)[1].type = "finalize" =>
              finalized'[f] = Append(finalized[f], Rec(Unsent(f)[1], wire[f]))
         /\ \A g \in Fds : g # f => /\ wire'[g] = wire[g] /\ broken'[g] = broken[g]
                                    /\ finalized'[g] = finalized[g]
    BY <1>4, <1>6, <1>7, <1>8, <1>9, CompletesEffect
  <1>11. Touches(t, f)
    BY <1>3, <1>4, <1>10 DEF Touches
  <1>12. \A g \in Fds : g # f => Same(g)
    BY <1>1, <1>11, OthersSame
  <1>13. BuffersOK'
    <2>1. BuffersOK
      BY DEF StreamParts
    <2>2. IsPart(Tail(m_fdctx[f]))
      BY <1>6, <1>7, <1>10, TailPart
    <2> QED BY <1>1, <1>2, <1>4, <1>5, <1>11, <2>1, <2>2, BuffersFrame
  <1>14. FinsAt(f)'
    <2>1. /\ DOMAIN Held(f)' = DOMAIN Held(f) /\ None \in DOMAIN Held(f)
          /\ \A y \in DOMAIN Held(f) : y # None => Held(f)'[y] = Held(f)[y]
          /\ Held(f)[None] = FinalizersIn(m_fdctx[f])
          /\ Held(f)'[None] = FinalizersIn(Tail(m_fdctx[f]))
      BY <1>1, <1>4, <1>11, OthersHold
    <2> QED BY <1>4, <1>6, <1>7, <1>10, <2>1, HeadAccount
  <1> QED BY <1>10, <1>12, <1>13, <1>14, StepOf

-----------------------------------------------------------------------------
(* After an error: the discarded elements are destroyed one by one.        *)

(* A finalizer that waits at x waits nowhere else. *)
LEMMA LateElsewhere ==
  ASSUME StreamParts, NEW f \in Fds, NEW x \in DOMAIN Held(f), NEW e, e.fin \in Held(f)[x]
  PROVE  /\ \A t : t = x \/ x = None => e \notin OthersLate(f, t)
         /\ x # None => e \notin OwnLate(f)
  <1>1. Accounted(finalized[f], Held(f), dropped[f], nfin[f])
    BY DEF StreamParts, FinsOK
  <1>2. \A y \in DOMAIN Held(f) : y # x => e.fin \notin Held(f)[y]
    BY <1>1 DEF Accounted
  <1>3. None \notin Writers /\ DOMAIN Held(f) = {None} \cup Writers
    BY ThreadsAssumption DEF Threads, Held
  <1>4. \A u \in Clearing(f) : u \in Writers /\ Held(f)[u] = FinalizersIn(xfbuf[u])
    BY <1>3 DEF Held, Clearing
  <1>5. Held(f)[None] = FinalizersIn(m_fdctx[f])
    BY DEF Held
  <1>6. ASSUME NEW b, e \in FinsOf(b) PROVE e.fin \in FinalizersIn(b)
    BY <1>6, FinsMember
  <1>7. \A u \in Clearing(f) : u # x => e \notin FinsOf(xfbuf[u])
    BY <1>2, <1>3, <1>4, <1>6
  <1>8. x # None => e \notin FinsOf(m_fdctx[f])
    BY <1>2, <1>3, <1>5, <1>6
  <1>9. \A t : t = x \/ x = None => e \notin OthersLate(f, t)
    BY <1>3, <1>4, <1>7 DEF OthersLate
  <1> QED BY <1>8, <1>9 DEF OwnLate

(* A worker clears the queue of a descriptor that failed. *)
LEMMA StepClear ==
  ASSUME TypeOK, TypeOK', LocksOK, StreamParts, NEW t \in Workers, Clear(t)
  PROVE  StepOK
  <1>1. t \in Threads /\ t \notin Writers /\ t # None
    BY ThreadsAssumption DEF Threads
  <1>2. pc[t] = "clear"
    BY DEF Clear
  <1>3. PICK f \in Fds : f = fd[t]
    BY <1>1, <1>2, Inside
  <1>4. /\ UNCHANGED <<owner, pc, fd, xfbuf, accepted, nfin, dropped, failed, wire, broken>>
        /\ m_fdctx'[f] = Tail(m_fdctx[f]) /\ \A g \in Fds : g # f => m_fdctx'[g] = m_fdctx[g]
        /\ m_fdctx[f] # <<>>
    BY <1>3 DEF Clear, Finalize, TypeOK, callVars, askVars, errVars, sockVars
  <1>5. owner[f] = t
    BY <1>1, <1>2, <1>3 DEF LocksOK, LockedPCs
  <1>6. Unsent(f) = <<>> /\ Unsent(f)' = <<>> /\ Discarding(f) /\ Discarding(f)'
    BY <1>2, <1>4, <1>5, UnsentIs, UnsentIsNext
  <1>7. IsPart(m_fdctx[f]) /\ m_fdctx[f] \in Seq(Element) /\ failed[f]
    BY <1>2, <1>3, <1>4 DEF StreamParts, BuffersOK, IsPart
  <1> DEFINE e == m_fdctx[f][1]
  <1>8. Head(m_fdctx[f]) = e /\ e \in Element /\ e.type \in {"data", "finalize"}
    BY <1>4, <1>7, HeadTail DEF Element
  <1>9. /\ e.type = "data" => finalized' = finalized
        /\ e.type = "finalize" => /\ finalized'[f] = Append(finalized[f], Rec(e, wire[f]))
                                  /\ \A g \in Fds : g # f => finalized'[g] = finalized[g]
    <2>1. /\ e.type = "finalize" => Finalize(f, e)
          /\ e.type # "finalize" => finalized' = finalized
      BY <1>3, <1>8 DEF Clear
    <2>2. finalized \in [Fds -> Seq([fin : Nat, pos : Nat, sent : Nat])]
      BY DEF TypeOK
    <2> HIDE DEF e
    <2> QED BY <2>1, <2>2 DEF Finalize, Rec
  <1>10. Touches(t, f)
    BY <1>3, <1>4, <1>8, <1>9 DEF Touches
  <1>11. \A g \in Fds : g # f => Same(g)
    BY <1>1, <1>10, OthersSame
  <1>12. BuffersOK'
    <2>1. BuffersOK
      BY DEF StreamParts
    <2>2. IsPart(Tail(m_fdctx[f]))
      BY <1>4, <1>7, TailPart
    <2> QED BY <1>1, <1>2, <1>3, <1>4, <1>5, <1>7, <1>10, <2>1, <2>2, BuffersFrame
  <1>13. /\ DOMAIN Held(f)' = DOMAIN Held(f) /\ None \in DOMAIN Held(f)
         /\ \A y \in DOMAIN Held(f) : y # None => Held(f)'[y] = Held(f)[y]
         /\ Held(f)[None] = FinalizersIn(m_fdctx[f])
         /\ Held(f)'[None] = FinalizersIn(Tail(m_fdctx[f]))
    BY <1>1, <1>4, <1>10, OthersHold
  <1>14. FinsAt(f)' /\ (e.type = "data" => Held(f)' = Held(f))
    BY <1>4, <1>7, <1>9, <1>13, HeadAccount
  <1>15. /\ OwnLate(f) = FinsOf(m_fdctx[f]) /\ OwnLate(f)' = FinsOf(Tail(m_fdctx[f]))
         /\ MyLate(f, t) = {} /\ MyLate(f, t)' = {}
    BY <1>1, <1>4, <1>6 DEF OwnLate, MyLate, Clearing
  <1>16. OthersLate(f, t)' = OthersLate(f, t)
    BY <1>1, <1>10, OthersHold
  <1>17. /\ Late(f) = FinsOf(m_fdctx[f]) \cup OthersLate(f, t)
         /\ Late(f)' = FinsOf(Tail(m_fdctx[f])) \cup OthersLate(f, t)
    <2>1. Late(f) = OwnLate(f) \cup MyLate(f, t) \cup OthersLate(f, t)
      BY LateSplit
    <2>2. Late(f)' = OwnLate(f)' \cup MyLate(f, t)' \cup OthersLate(f, t)'
      BY LateSplit
    <2> QED BY <1>15, <1>16, <2>1, <2>2
  <1>18. Effect(f)
    <2>1. CASE e.type = "data"
      <3>1. FinsOf(Tail(m_fdctx[f])) = FinsOf(m_fdctx[f])
        BY <1>4, <1>7, <2>1, FinsTail
      <3>2. Same(f)
        BY <1>4, <1>6, <1>9, <1>14, <1>17, <2>1, <3>1 DEF Same
      <3> QED BY <3>2 DEF Effect
    <2>2. CASE e.type = "finalize"
      <3>1. /\ FinsOf(Tail(m_fdctx[f])) = FinsOf(m_fdctx[f]) \ {e} /\ e \in FinsOf(m_fdctx[f])
            /\ e.fin \in FinalizersIn(m_fdctx[f])
        BY <1>4, <1>7, <2>2, FinsTail
      <3>2. e \notin OthersLate(f, t)
        BY <1>13, <3>1, LateElsewhere
      <3>3. e \in Late(f) /\ Late(f)' = Late(f) \ {e}
        BY <1>17, <3>1, <3>2
      <3>4. RunsLate(f, e)
        BY <1>4, <1>6, <1>7, <1>9, <2>2, <3>3 DEF RunsLate
      <3> QED BY <3>4 DEF Effect
    <2> QED BY <1>8, <2>1, <2>2
  <1> QED BY <1>11, <1>12, <1>14, <1>18, StepOf

(* A caller clears what it could not write. *)
LEMMA StepClearCaller ==
  ASSUME TypeOK, TypeOK', LocksOK, StreamParts, NEW t \in Writers, ClearCaller(t),
         xfbuf[t] # <<>>
  PROVE  StepOK
  <1>1. t \in Threads /\ t \notin Workers /\ t # None
    BY ThreadsAssumption DEF Threads
  <1>2. pc[t] = "clear_xf"
    BY DEF ClearCaller
  <1>3. PICK f \in Fds : f = fd[t]
    BY <1>1, <1>2, Inside
  <1>4. /\ UNCHANGED <<owner, pc, fd, m_fdctx, accepted, nfin, dropped, failed, wire, broken>>
        /\ xfbuf'[t] = Tail(xfbuf[t]) /\ \A u \in Threads : u # t => xfbuf'[u] = xfbuf[u]
    BY <1>1, <1>3 DEF ClearCaller, Finalize, TypeOK, callVars, askVars, errVars, sockVars
  <1>5. owner[f] # t /\ owner[f] \in Threads \cup {None}
    BY <1>1, <1>2, <1>3 DEF LocksOK, LockedPCs, TypeOK
  <1>6. Unsent(f)' = Unsent(f) /\ (Discarding(f)' <=> Discarding(f))
    <2>1. owner[f] \in Threads => xfbuf'[owner[f]] = xfbuf[owner[f]]
      BY <1>4, <1>5
    <2>2. Writers \subseteq Threads /\ Workers \subseteq Threads
      BY DEF Threads
    <2> QED BY <1>4, <2>1, <2>2 DEF Unsent, Discarding
  <1>7. IsPart(xfbuf[t]) /\ xfbuf[t] \in Seq(Element) /\ failed[f]
    BY <1>2, <1>3, <1>4 DEF StreamParts, BuffersOK, IsPart
  <1> DEFINE e == xfbuf[t][1]
  <1>8. Head(xfbuf[t]) = e /\ e \in Element /\ e.type \in {"data", "finalize"}
    BY <1>7, HeadTail DEF Element
  <1>9. /\ e.type = "data" => finalized' = finalized
        /\ e.type = "finalize" => /\ finalized'[f] = Append(finalized[f], Rec(e, wire[f]))
                                  /\ \A g \in Fds : g # f => finalized'[g] = finalized[g]
    <2>1. /\ e.type = "finalize" => Finalize(f, e)
          /\ e.type # "finalize" => finalized' = finalized
      BY <1>3, <1>8 DEF ClearCaller
    <2>2. finalized \in [Fds -> Seq([fin : Nat, pos : Nat, sent : Nat])]
      BY DEF TypeOK
    <2> HIDE DEF e
    <2> QED BY <2>1, <2>2 DEF Finalize, Rec
  <1>10. Touches(t, f)
    BY <1>3, <1>4, <1>8, <1>9 DEF Touches
  <1>11. \A g \in Fds : g # f => Same(g)
    BY <1>1, <1>10, OthersSame
  <1>12. BuffersOK'
    <2>1. BuffersOK /\ IsPart(m_fdctx[f])
      BY DEF StreamParts, BuffersOK
    <2>2. IsPart(Tail(xfbuf[t]))
      BY <1>7, TailPart
    <2> QED BY <1>1, <1>2, <1>3, <1>4, <1>7, <1>10, <2>1, <2>2, BuffersFrame
  <1>13. /\ DOMAIN Held(f)' = DOMAIN Held(f) /\ t \in DOMAIN Held(f)
         /\ \A y \in DOMAIN Held(f) : y # t => Held(f)'[y] = Held(f)[y]
         /\ Held(f)[t] = FinalizersIn(xfbuf[t]) /\ Held(f)'[t] = FinalizersIn(Tail(xfbuf[t]))
    BY <1>1, <1>3, <1>4, <1>10, OthersHold
  <1>14. FinsAt(f)' /\ (e.type = "data" => Held(f)' = Held(f))
    BY <1>4, <1>7, <1>9, <1>13, HeadAccount
  <1>15. /\ OwnLate(f)' = OwnLate(f)
         /\ MyLate(f, t) = FinsOf(xfbuf[t]) /\ MyLate(f, t)' = FinsOf(Tail(xfbuf[t]))
    BY <1>1, <1>2, <1>3, <1>4, <1>6 DEF OwnLate, MyLate, Clearing
  <1>16. OthersLate(f, t)' = OthersLate(f, t)
    BY <1>1, <1>10, OthersHold
  <1>17. /\ Late(f) = OwnLate(f) \cup FinsOf(xfbuf[t]) \cup OthersLate(f, t)
         /\ Late(f)' = OwnLate(f) \cup FinsOf(Tail(xfbuf[t])) \cup OthersLate(f, t)
    <2>1. Late(f) = OwnLate(f) \cup MyLate(f, t) \cup OthersLate(f, t)
      BY LateSplit
    <2>2. Late(f)' = OwnLate(f)' \cup MyLate(f, t)' \cup OthersLate(f, t)'
      BY LateSplit
    <2> QED BY <1>15, <1>16, <2>1, <2>2
  <1>18. Effect(f)
    <2>1. CASE e.type = "data"
      <3>1. FinsOf(Tail(xfbuf[t])) = FinsOf(xfbuf[t])
        BY <1>7, <2>1, FinsTail
      <3>2. Same(f)
        BY <1>4, <1>6, <1>9, <1>14, <1>17, <2>1, <3>1 DEF Same
      <3> QED BY <3>2 DEF Effect
    <2>2. CASE e.type = "finalize"
      <3>1. /\ FinsOf(Tail(xfbuf[t])) = FinsOf(xfbuf[t]) \ {e} /\ e \in FinsOf(xfbuf[t])
            /\ e.fin \in FinalizersIn(xfbuf[t])
        BY <1>7, <2>2, FinsTail
      <3>2. e \notin OthersLate(f, t) /\ e \notin OwnLate(f)
        BY <1>1, <1>13, <3>1, LateElsewhere
      <3>3. e \in Late(f) /\ Late(f)' = Late(f) \ {e}
        BY <1>17, <3>1, <3>2
      <3>4. RunsLate(f, e)
        BY <1>4, <1>6, <1>7, <1>9, <2>2, <3>3 DEF RunsLate
      <3> QED BY <3>4 DEF Effect
    <2> QED BY <1>8, <2>1, <2>2
  <1> QED BY <1>11, <1>12, <1>14, <1>18, StepOf

-----------------------------------------------------------------------------
(* The socket is full.                                                     *)

(* What Blocks does to the stream of f. *)
LEMMA BlocksEffect ==
  ASSUME TypeOK, NEW f \in Fds, IsPart(Unsent(f)), Unsent(f) # <<>>,
         NEW n \in 0..(Head(Unsent(f)).len - 1), Blocks(f, Unsent(f), n),
         Unsent(f)' = Trim(Unsent(f), n), Late(f)' = Late(f),
         UNCHANGED <<accepted, nfin, dropped, failed>>
  PROVE  /\ Effect(f) /\ finalized' = finalized /\ broken' = broken
         /\ \A g \in Fds : g # f => wire'[g] = wire[g]
         /\ Unsent(f)[1].type = "data" /\ n \in 0..Unsent(f)[1].len
         /\ IsPart(Trim(Unsent(f), n)) /\ Trim(Unsent(f), n) # <<>>
         /\ FinalizersIn(Trim(Unsent(f), n)) = FinalizersIn(Unsent(f))
  <1> DEFINE b == Unsent(f)
  <1>1. Head(b) = b[1] /\ b[1] \in Element /\ b[1].len \in Nat
    BY HeadTail DEF IsPart, Element
  <1>2. b[1].type = "data" /\ ~broken[f] /\ Send(f, b[1], n)
    BY <1>1 DEF Blocks
  <1>3. /\ UNCHANGED <<broken, finalized>> /\ wire'[f] = Sent(wire[f], b[1].pos, n)
        /\ \A g \in Fds : g # f => wire'[g] = wire[g]
    BY <1>2 DEF Send, Sent, TypeOK
  <1>4. n \in 0..b[1].len /\ n < b[1].len
    <2> HIDE DEF b
    <2> QED BY <1>1 DEF b
  <1>5. Sends(f, n)
    BY <1>2, <1>3, <1>4 DEF Sends
  <1>6. /\ IsPart(Trim(b, n)) /\ Trim(b, n) # <<>>
        /\ FinalizersIn(Trim(b, n)) = FinalizersIn(b)
    BY <1>2, <1>4, TrimPart, FinsTrim
  <1> QED BY <1>2, <1>3, <1>4, <1>5, <1>6 DEF Effect

(* The socket's buffer is full: a worker trims the queue. *)
LEMMA StepTryWriteBlocks ==
  ASSUME TypeOK, TypeOK', LocksOK, StreamParts, NEW t \in Workers, TryWriteBlocks(t)
  PROVE  StepOK
  <1>1. t \in Threads /\ t \notin Writers /\ t # None
    BY ThreadsAssumption DEF Threads
  <1>2. pc[t] = "try_write"
    BY DEF TryWriteBlocks
  <1>3. PICK f \in Fds : f = fd[t]
    BY <1>1, <1>2, Inside
  <1>4. PICK n \in 0..(Head(m_fdctx[f]).len - 1) :
          Blocks(f, m_fdctx[f], n) /\ m_fdctx' = [m_fdctx EXCEPT ![f] = Trim(m_fdctx[f], n)]
    BY <1>3 DEF TryWriteBlocks
  <1>5. /\ UNCHANGED <<owner, fd, xfbuf, accepted, nfin, dropped, failed>>
        /\ m_fdctx'[f] = Trim(m_fdctx[f], n)
        /\ \A g \in Fds : g # f => m_fdctx'[g] = m_fdctx[g]
        /\ m_fdctx[f] # <<>> /\ pc'[t] = "reactivate"
        /\ \A u \in Threads : u # t => pc'[u] = pc[u]
    BY <1>1, <1>3, <1>4 DEF TryWriteBlocks, At, TypeOK, callVars, askVars, errVars
  <1>6. owner[f] = t
    BY <1>1, <1>2, <1>3 DEF LocksOK, LockedPCs
  <1>7. /\ Unsent(f) = m_fdctx[f] /\ Unsent(f)' = Trim(m_fdctx[f], n)
        /\ ~Discarding(f) /\ ~Discarding(f)'
    BY <1>2, <1>5, <1>6, UnsentIs, UnsentIsNext
  <1>8. IsPart(m_fdctx[f])
    BY DEF StreamParts, BuffersOK
  <1>9. Late(f)' = Late(f)
    <2>1. Clearing(f)' = Clearing(f)
      BY <1>1, <1>5 DEF Clearing, Threads
    <2> QED BY <1>5, <1>7, <2>1 DEF Late
  <1>10. /\ Effect(f) /\ finalized' = finalized /\ broken' = broken
         /\ \A g \in Fds : g # f => wire'[g] = wire[g]
         /\ IsPart(Trim(m_fdctx[f], n))
         /\ FinalizersIn(Trim(m_fdctx[f], n)) = FinalizersIn(m_fdctx[f])
    BY <1>4, <1>5, <1>7, <1>8, <1>9, BlocksEffect
  <1>11. Touches(t, f)
    BY <1>3, <1>5, <1>10 DEF Touches
  <1>12. \A g \in Fds : g # f => Same(g)
    BY <1>1, <1>11, OthersSame
  <1>13. BuffersOK'
    <2>1. BuffersOK
      BY DEF StreamParts
    <2> QED BY <1>1, <1>5, <1>6, <1>10, <1>11, <2>1, BuffersFrame
  <1>14. Held(f)' = Held(f)
    <2>1. /\ DOMAIN Held(f)' = DOMAIN Held(f)
          /\ \A x \in DOMAIN Held(f) : Held(f)'[x] = Held(f)[x]
      BY <1>1, <1>5, <1>10, <1>11, OthersHold
    <2>2. /\ Held(f) = [x \in DOMAIN Held(f) |-> Held(f)[x]]
          /\ Held(f)' = [x \in DOMAIN Held(f)' |-> Held(f)'[x]]
      BY DEF Held
    <2> QED BY <2>1, <2>2
  <1>15. FinsAt(f)'
    BY <1>5, <1>10, <1>14 DEF FinsAt, StreamParts, FinsOK
  <1> QED BY <1>10, <1>12, <1>13, <1>15, StepOf

(* The socket's buffer is full: a caller queues the rest. *)
LEMMA StepExecuteBlocks ==
  ASSUME TypeOK, TypeOK', LocksOK, HolderOK, StreamParts, NEW t \in Writers, ExecuteBlocks(t)
  PROVE  StepOK
  <1>1. t \in Threads /\ t \notin Workers /\ t # None
    BY ThreadsAssumption DEF Threads
  <1>2. pc[t] = "execute"
    BY DEF ExecuteBlocks
  <1>3. PICK f \in Fds : f = fd[t]
    BY <1>1, <1>2, Inside
  <1>4. m_fdctx[f] = <<>> /\ IsPart(xfbuf[t]) /\ xfbuf[t] # <<>>
    BY <1>1, <1>2, <1>3 DEF HolderOK, StreamParts, BuffersOK, ExecuteBlocks
  <1>5. PICK n \in 0..(Head(xfbuf[t]).len - 1) :
          /\ Blocks(f, xfbuf[t], n)
          /\ m_fdctx' = [m_fdctx EXCEPT ![f] = migrate(Trim(xfbuf[t], n), m_fdctx[f])]
    BY <1>3 DEF ExecuteBlocks
  <1>6. m_fdctx'[f] = Trim(xfbuf[t], n)
    <2>1. xfbuf[t] \in Seq(Element) /\ Head(xfbuf[t]) = xfbuf[t][1] /\ xfbuf[t][1].len \in Nat
      BY <1>4, HeadTail DEF IsPart, Element
    <2>2. n \in 0..Head(xfbuf[t]).len
      BY <2>1
    <2>3. Trim(xfbuf[t], n) \in Seq(Element)
      BY <1>4, <2>1, <2>2, TrimType
    <2>4. migrate(Trim(xfbuf[t], n), <<>>) = Trim(xfbuf[t], n)
      BY <2>3 DEF migrate
    <2> QED BY <1>4, <1>5, <2>4 DEF TypeOK
  <1>7. /\ UNCHANGED <<owner, fd, accepted, nfin, dropped, failed>>
        /\ \A g \in Fds : g # f => m_fdctx'[g] = m_fdctx[g]
        /\ xfbuf'[t] = <<>> /\ pc'[t] = "add_fd"
        /\ \A u \in Threads : u # t => pc'[u] = pc[u] /\ xfbuf'[u] = xfbuf[u]
    BY <1>1, <1>3, <1>5 DEF ExecuteBlocks, At, TypeOK, callVars, askVars, errVars
  <1>8. owner[f] = t
    BY <1>1, <1>2, <1>3 DEF LocksOK, LockedPCs
  <1>9. /\ Unsent(f) = xfbuf[t] /\ Unsent(f)' = Trim(xfbuf[t], n)
        /\ ~Discarding(f) /\ ~Discarding(f)'
    BY <1>2, <1>6, <1>7, <1>8, UnsentIs, UnsentIsNext
  <1>10. Late(f)' = Late(f)
    <2>1. Clearing(f)' = Clearing(f) /\ \A u \in Clearing(f) : xfbuf'[u] = xfbuf[u]
      BY <1>1, <1>2, <1>7 DEF Clearing, Threads
    <2>2. {FinsOf(xfbuf'[u]) : u \in Clearing(f)} = {FinsOf(xfbuf[u]) : u \in Clearing(f)}
      BY <2>1
    <2> QED BY <1>9, <2>1, <2>2 DEF Late
  <1>11. /\ Effect(f) /\ finalized' = finalized /\ broken' = broken
         /\ \A g \in Fds : g # f => wire'[g] = wire[g]
         /\ IsPart(Trim(xfbuf[t], n))
         /\ FinalizersIn(Trim(xfbuf[t], n)) = FinalizersIn(xfbuf[t])
    BY <1>4, <1>5, <1>7, <1>9, <1>10, BlocksEffect
  <1>12. Touches(t, f)
    BY <1>3, <1>7, <1>11 DEF Touches
  <1>13. \A g \in Fds : g # f => Same(g)
    BY <1>1, <1>12, OthersSame
  <1>14. BuffersOK'
    <2>1. BuffersOK
      BY DEF StreamParts
    <2>2. IsPart(<<>>)
      BY <1>4 DEF StreamParts, BuffersOK
    <2> QED BY <1>1, <1>6, <1>7, <1>8, <1>11, <1>12, <2>1, <2>2, BuffersFrame
  <1>15. FinsAt(f)'
    <2> DEFINE h == Held(f)
               g == Held(f)'
    <2>1. DOMAIN g = DOMAIN h /\ None \in DOMAIN h /\ t \in DOMAIN h
      BY <1>1, <1>12, OthersHold
    <2>2. /\ h[None] = {} /\ g[None] = h[t] /\ g[t] = {}
          /\ \A z \in DOMAIN h : z \notin {t, None} => g[z] = h[z]
      BY <1>1, <1>3, <1>4, <1>6, <1>7, <1>11, <1>12, OthersHold, FinsEmpty
    <2>3. Accounted(finalized[f], h, dropped[f], nfin[f])
      BY DEF StreamParts, FinsOK
    <2>4. g = Held(f)'
      OBVIOUS
    <2> HIDE DEF h, g
    <2>5. Accounted(finalized[f], g, dropped[f], nfin[f])
      BY <1>1, <2>1, <2>2, <2>3, AccountMove
    <2> QED BY <1>7, <1>11, <2>4, <2>5 DEF FinsAt
  <1> QED BY <1>11, <1>13, <1>14, <1>15, StepOf

-----------------------------------------------------------------------------
(* A write fails.                                                          *)

(* The write of a worker fails. *)
LEMMA StepTryWriteFails ==
  ASSUME TypeOK, TypeOK', LocksOK, StreamParts, NEW t \in Workers, TryWriteFails(t)
  PROVE  StepOK
  <1>1. t \in Threads /\ t \notin Writers /\ t # None
    BY ThreadsAssumption DEF Threads
  <1>2. pc[t] = "try_write"
    BY DEF TryWriteFails
  <1>3. PICK f \in Fds : f = fd[t]
    BY <1>1, <1>2, Inside
  <1>4. /\ UNCHANGED <<m_fdctx, owner, fd, xfbuf, wire, broken, accepted, nfin, finalized, dropped>>
        /\ failed'[f] = TRUE /\ \A g \in Fds : g # f => failed'[g] = failed[g]
        /\ pc'[t] = "remove" /\ \A u \in Threads : u # t => pc'[u] = pc[u]
    BY <1>1, <1>3 DEF TryWriteFails, Fails, At, TypeOK, callVars, askVars, sockVars
  <1>5. IsPart(m_fdctx[f]) /\ m_fdctx[f] \in Seq(Element)
    BY DEF StreamParts, BuffersOK, IsPart
  <1>6. /\ m_fdctx[f] # <<>> /\ m_fdctx[f][1].type = "data"
        /\ broken[f] \/ m_fdctx[f][1].len = 0
    <2>1. Fails(f, m_fdctx[f])
      BY <1>3 DEF TryWriteFails
    <2>2. m_fdctx[f] # <<>>
      BY <2>1 DEF Fails
    <2>3. Head(m_fdctx[f]) = m_fdctx[f][1]
      BY <1>5, <2>2, HeadTail
    <2> QED BY <2>1, <2>2, <2>3 DEF Fails
  <1>7. owner[f] = t
    BY <1>1, <1>2, <1>3 DEF LocksOK, LockedPCs
  <1>8. /\ Unsent(f) = m_fdctx[f] /\ Unsent(f)' = <<>>
        /\ ~Discarding(f) /\ Discarding(f)'
    BY <1>2, <1>4, <1>7, UnsentIs, UnsentIsNext
  <1>9. Touches(t, f)
    BY <1>3, <1>4 DEF Touches
  <1>10. \A g \in Fds : g # f => Same(g)
    BY <1>1, <1>9, OthersSame
  <1>11. Late(f)' = Late(f) \cup FinsOf(m_fdctx[f])
    <2>1. Clearing(f)' = Clearing(f)
      BY <1>1, <1>4 DEF Clearing, Threads
    <2> QED BY <1>4, <1>8, <2>1 DEF Late
  <1>12. Discards(f)
    BY <1>4, <1>6, <1>8, <1>11 DEF Discards
  <1>13. BuffersOK'
    <2>1. BuffersOK
      BY DEF StreamParts
    <2> QED BY <1>1, <1>3, <1>4, <1>5, <1>9, <2>1, BuffersFrame
  <1>14. Held(f)' = Held(f)
    BY <1>4 DEF Held
  <1>15. FinsAt(f)'
    BY <1>4, <1>14 DEF FinsAt, StreamParts, FinsOK
  <1> QED BY <1>10, <1>12, <1>13, <1>15, StepOf DEF Effect

(* The write of a caller fails. *)
LEMMA StepExecuteFails ==
  ASSUME TypeOK, TypeOK', LocksOK, HolderOK, StreamParts, NEW t \in Writers, ExecuteFails(t)
  PROVE  StepOK
  <1>1. t \in Threads /\ t \notin Workers /\ t # None
    BY ThreadsAssumption DEF Threads
  <1>2. pc[t] = "execute"
    BY DEF ExecuteFails
  <1>3. PICK f \in Fds : f = fd[t]
    BY <1>1, <1>2, Inside
  <1>4. m_fdctx[f] = <<>> /\ IsPart(xfbuf[t]) /\ xfbuf[t] \in Seq(Element)
    BY <1>1, <1>2, <1>3 DEF HolderOK, StreamParts, BuffersOK, IsPart
  <1>5. /\ UNCHANGED <<m_fdctx, wire, broken, accepted, nfin, finalized>>
        /\ failed'[f] = TRUE /\ \A g \in Fds : g # f => failed'[g] = failed[g]
        /\ owner'[f] = None /\ \A g \in Fds : g # f => owner'[g] = owner[g]
    BY <1>3 DEF ExecuteFails, Fails, Unlock, TypeOK, askVars, sockVars
  <1>6. /\ xfbuf[t] # <<>> /\ xfbuf[t][1].type = "data"
        /\ broken[f] \/ xfbuf[t][1].len = 0
    <2>1. Fails(f, xfbuf[t])
      BY <1>3 DEF ExecuteFails
    <2>2. xfbuf[t] # <<>>
      BY <2>1 DEF Fails
    <2>3. Head(xfbuf[t]) = xfbuf[t][1]
      BY <1>4, <2>2, HeadTail
    <2> QED BY <2>1, <2>2, <2>3 DEF Fails
  <1>7. owner[f] = t
    BY <1>1, <1>2, <1>3 DEF LocksOK, LockedPCs
  <1>8. /\ Unsent(f) = xfbuf[t] /\ Unsent(f)' = <<>>
        /\ ~Discarding(f) /\ ~Discarding(f)'
    BY <1>2, <1>4, <1>5, <1>7, UnsentIs, UnsentIsNext
  <1>9. BuffersOK /\ IsPart(<<>>)
    BY <1>4 DEF StreamParts, BuffersOK
  <1>10. Late(f) = OthersLate(f, t) /\ t \notin Clearing(f)
    <2>1. Late(f) = OwnLate(f) \cup MyLate(f, t) \cup OthersLate(f, t)
      BY LateSplit
    <2>2. OwnLate(f) = {} /\ MyLate(f, t) = {} /\ t \notin Clearing(f)
      BY <1>2, <1>8 DEF OwnLate, MyLate, Clearing
    <2> QED BY <2>1, <2>2
  <1>11. Late(f)' = MyLate(f, t)' \cup OthersLate(f, t)'
    <2>1. Late(f)' = OwnLate(f)' \cup MyLate(f, t)' \cup OthersLate(f, t)'
      BY LateSplit
    <2>2. OwnLate(f)' = {}
      BY <1>8 DEF OwnLate
    <2> QED BY <2>1, <2>2
  <1>12. CASE op[t] = "commit"
    <2>1. /\ UNCHANGED <<fd, xfbuf, dropped>> /\ pc'[t] = "clear_xf"
          /\ \A u \in Threads : u # t => pc'[u] = pc[u]
      BY <1>1, <1>12 DEF ExecuteFails, At, TypeOK, callVars
    <2>2. Touches(t, f)
      BY <1>3, <1>5, <2>1 DEF Touches
    <2>3. \A g \in Fds : g # f => Same(g)
      BY <1>1, <2>2, OthersSame
    <2>4. MyLate(f, t)' = FinsOf(xfbuf[t])
      BY <1>3, <2>1 DEF MyLate, Clearing
    <2>5. OthersLate(f, t)' = OthersLate(f, t)
      BY <1>1, <2>2, OthersHold
    <2>6. Late(f)' = Late(f) \cup FinsOf(Unsent(f))
      BY <1>8, <1>10, <1>11, <2>4, <2>5
    <2>7. Discards(f)
      BY <1>5, <1>6, <1>8, <2>1, <2>6 DEF Discards
    <2>8. BuffersOK'
      BY <1>1, <1>3, <1>4, <1>5, <1>9, <2>1, <2>2, BuffersFrame
    <2>9. Held(f)' = Held(f)
      BY <1>5, <2>1 DEF Held
    <2>10. FinsAt(f)'
      BY <1>5, <2>1, <2>9 DEF FinsAt, StreamParts, FinsOK
    <2> QED BY <2>3, <2>7, <2>8, <2>10, StepOf DEF Effect
  <1>13. CASE op[t] # "commit"
    <2>1. /\ fd'[t] = None /\ xfbuf'[t] = <<>> /\ pc'[t] = "idle"
          /\ \A u \in Threads : u # t => pc'[u] = pc[u] /\ xfbuf'[u] = xfbuf[u] /\ fd'[u] = fd[u]
      BY <1>1, <1>13 DEF ExecuteFails, Return, Begin, TypeOK
    <2>2. /\ dropped'[f] = dropped[f] \cup FinalizersIn(xfbuf[t])
          /\ \A g \in Fds : g # f => dropped'[g] = dropped[g]
      BY <1>3, <1>13 DEF ExecuteFails, TypeOK
    <2>3. Touches(t, f)
      BY <1>3, <1>5, <2>1, <2>2 DEF Touches
    <2>4. \A g \in Fds : g # f => Same(g)
      BY <1>1, <2>3, OthersSame
    <2>5. f # None
      BY ThreadsAssumption
    <2>6. MyLate(f, t)' = {}
      BY <2>1 DEF MyLate, Clearing
    <2>7. OthersLate(f, t)' = OthersLate(f, t)
      BY <1>1, <2>3, OthersHold
    <2>8. Late(f)' = Late(f)
      BY <1>10, <1>11, <2>6, <2>7
    <2>9. Discards(f)
      BY <1>5, <1>6, <1>8, <2>2, <2>8 DEF Discards
    <2>10. BuffersOK'
      BY <1>1, <1>4, <1>5, <1>9, <2>1, <2>3, BuffersFrame
    <2>11. FinsAt(f)'
      <3> DEFINE h == Held(f)
                 g == Held(f)'
      <3>1. /\ DOMAIN g = DOMAIN h /\ t \in DOMAIN h
            /\ \A y \in DOMAIN h : y # t => g[y] = h[y]
            /\ h[t] = FinalizersIn(xfbuf[t]) /\ g[t] = {}
        BY <1>1, <1>3, <1>5, <2>1, <2>3, OthersHold, FinsEmpty
      <3>2. Accounted(finalized[f], h, dropped[f], nfin[f])
        BY DEF StreamParts, FinsOK
      <3>3. g = Held(f)'
        OBVIOUS
      <3> HIDE DEF h, g
      <3>4. Accounted(finalized[f], g, dropped[f] \cup h[t], nfin[f])
        BY <3>1, <3>2, AccountDrop
      <3> QED BY <1>5, <2>2, <3>1, <3>3, <3>4 DEF FinsAt
    <2> QED BY <2>4, <2>9, <2>10, <2>11, StepOf DEF Effect
  <1> QED BY <1>12, <1>13

-----------------------------------------------------------------------------
(* A call.                                                                 *)

(* A request is queued behind others, or its caller takes the lock. *)
LEMMA StepCall ==
  ASSUME TypeOK, TypeOK', LocksOK, StreamParts, NEW t \in Writers, NEW f \in Fds,
         NEW o, NEW b \in Requests, Call(t, f, o, b)
  PROVE  StepOK
  <1>1. t \in Threads /\ t \notin Workers /\ t # None /\ f # None
    BY ThreadsAssumption DEF Threads
  <1>2. IsXfer(b) /\ accepted[f] \in Nat /\ nfin[f] \in Nat
    BY RequestsAssumption DEF TypeOK
  <1> DEFINE xf == Rebase(b, accepted[f], nfin[f])
  <1>3. /\ pc[t] = "idle" /\ owner[f] = None
        /\ accepted'[f] = accepted[f] + Size(b) /\ nfin'[f] = nfin[f] + Finalizers(b)
        /\ \A g \in Fds : g # f => accepted'[g] = accepted[g] /\ nfin'[g] = nfin[g]
        /\ UNCHANGED <<wire, broken, finalized, dropped, failed>>
    BY DEF Call, Asked, TypeOK, sockVars, errVars
  <1>4. Unsent(f) = m_fdctx[f] /\ ~Discarding(f)
    BY <1>3, UnsentIs
  <1>5. IsPart(xf) /\ xf \in Seq(Element) /\ Finalizers(b) \in Nat
        /\ FinalizersIn(xf) = (nfin[f] + 1)..(nfin[f] + Finalizers(b))
    BY <1>2, RebasePart, FinsRebase, SizeType DEF IsPart, IsXfer
  <1>6. /\ IsPart(m_fdctx[f]) /\ m_fdctx[f] \in Seq(Element) /\ fd[t] = None
        /\ BuffersOK /\ xfbuf[t] = <<>> /\ IsPart(<<>>)
    BY <1>1, <1>3 DEF StreamParts, BuffersOK, IsPart, LocksOK
  <1>7. Rest(m_fdctx[f] \o xf, wire[f], finalized[f], accepted'[f], nfin'[f], failed[f])
    <2>1. Rest(m_fdctx[f], wire[f], finalized[f], accepted[f], nfin[f], failed[f])
      BY <1>4 DEF StreamParts, RestOK
    <2> QED BY <1>2, <1>3, <2>1, RestAsk
  <1>8. IsPart(m_fdctx[f] \o xf)
    BY <1>7 DEF Rest, EndOf
  <1> DEFINE h == Held(f)
             g == Held(f)'
  <1>9. Accounted(finalized[f], h, dropped[f], nfin[f])
    BY DEF StreamParts, FinsOK
  <1>10. CASE /\ m_fdctx[f] # <<>>
              /\ m_fdctx' = [m_fdctx EXCEPT ![f] = migrate(xf, m_fdctx[f])]
              /\ UNCHANGED <<owner, pc, fd, xfbuf>>
    <2>1. m_fdctx'[f] = m_fdctx[f] \o xf /\ \A k \in Fds : k # f => m_fdctx'[k] = m_fdctx[k]
      BY <1>10 DEF migrate, TypeOK
    <2>2. Touches(t, f)
      BY <1>3, <1>6, <1>10, <2>1 DEF Touches
    <2>3. \A k \in Fds : k # f => Same(k)
      BY <1>1, <2>2, OthersSame
    <2>4. Unsent(f)' = m_fdctx[f] \o xf /\ ~Discarding(f)'
      BY <1>3, <1>10, <2>1, UnsentIsNext
    <2>5. Late(f)' = Late(f)
      BY <1>4, <1>10, <2>4 DEF Late, Clearing
    <2>6. Asks(f, b)
      BY <1>3, <1>4, <2>4, <2>5 DEF Asks
    <2>7. BuffersOK'
      BY <1>1, <1>3, <1>6, <1>8, <1>10, <2>1, <2>2, BuffersFrame
    <2>8. FinsAt(f)'
      <3>1. /\ DOMAIN g = DOMAIN h /\ None \in DOMAIN h
            /\ \A y \in DOMAIN h : y # None => g[y] = h[y]
            /\ h[None] = FinalizersIn(m_fdctx[f]) /\ g[None] = FinalizersIn(m_fdctx[f] \o xf)
        <4>1. fd'[t] = fd[t] /\ xfbuf'[t] = xfbuf[t]
          BY <1>10
        <4>2. g[t] = h[t]
          BY <1>1, <2>2, <4>1, OthersHold
        <4>3. DOMAIN h = {None} \cup Writers /\ DOMAIN g = {None} \cup Writers
          BY <1>1, <2>2, OthersHold
        <4>4. \A y \in Writers : y # t => g[y] = h[y]
          BY <1>1, <2>2, OthersHold
        <4>5. h[None] = FinalizersIn(m_fdctx[f]) /\ g[None] = FinalizersIn(m_fdctx'[f])
          BY <1>1, <2>2, OthersHold
        <4> HIDE DEF h, g
        <4> QED BY <2>1, <4>2, <4>3, <4>4, <4>5
      <3>2. g[None] = h[None] \cup ((nfin[f] + 1)..(nfin[f] + Finalizers(b)))
        BY <1>5, <1>6, <3>1, FinsJoin
      <3>3. g = Held(f)'
        OBVIOUS
      <3> HIDE DEF h, g
      <3>4. Accounted(finalized[f], g, dropped[f], nfin[f] + Finalizers(b))
        BY <1>2, <1>5, <1>9, <3>1, <3>2, AccountAsk
      <3> QED BY <1>3, <3>3, <3>4 DEF FinsAt
    <2> QED BY <2>3, <2>6, <2>7, <2>8, StepOf DEF Effect
  <1>11. CASE /\ m_fdctx[f] = <<>> /\ UNCHANGED m_fdctx
              /\ owner' = [owner EXCEPT ![f] = t]
              /\ At(t, "execute") /\ Begin(t, f, o, xf)
    <2>1. /\ owner'[f] = t /\ \A k \in Fds : k # f => owner'[k] = owner[k]
          /\ pc'[t] = "execute" /\ fd'[t] = f /\ xfbuf'[t] = xf
          /\ \A u \in Threads : u # t => pc'[u] = pc[u] /\ xfbuf'[u] = xfbuf[u] /\ fd'[u] = fd[u]
      BY <1>1, <1>11 DEF At, Begin, TypeOK
    <2>2. Touches(t, f)
      BY <1>3, <1>6, <1>11, <2>1 DEF Touches
    <2>3. \A k \in Fds : k # f => Same(k)
      BY <1>1, <2>2, OthersSame
    <2>4. Unsent(f)' = xf /\ ~Discarding(f)'
      BY <2>1, UnsentIsNext
    <2>5. Unsent(f)' = Unsent(f) \o xf
      BY <1>4, <1>5, <1>11, <2>4
    <2>6. Late(f)' = Late(f)
      <3>1. Clearing(f)' = Clearing(f) /\ \A u \in Clearing(f) : xfbuf'[u] = xfbuf[u]
        BY <1>1, <1>3, <2>1 DEF Clearing, Threads
      <3>2. {FinsOf(xfbuf'[u]) : u \in Clearing(f)} = {FinsOf(xfbuf[u]) : u \in Clearing(f)}
        BY <3>1
      <3> QED BY <1>4, <2>4, <3>1, <3>2 DEF Late
    <2>7. Asks(f, b)
      BY <1>3, <2>5, <2>6 DEF Asks
    <2>8. BuffersOK'
      BY <1>1, <1>3, <1>5, <1>6, <1>11, <2>1, <2>2, BuffersFrame
    <2>9. FinsAt(f)'
      <3>1. /\ DOMAIN g = DOMAIN h /\ t \in DOMAIN h
            /\ \A y \in DOMAIN h : y # t => g[y] = h[y]
            /\ h[t] = {} /\ g[t] = FinalizersIn(xf)
        BY <1>1, <1>6, <1>11, <2>1, <2>2, OthersHold, FinsEmpty
      <3>2. g[t] = h[t] \cup ((nfin[f] + 1)..(nfin[f] + Finalizers(b)))
        BY <1>5, <3>1
      <3>3. g = Held(f)'
        OBVIOUS
      <3> HIDE DEF h, g
      <3>4. Accounted(finalized[f], g, dropped[f], nfin[f] + Finalizers(b))
        BY <1>2, <1>5, <1>9, <3>1, <3>2, AccountAsk
      <3> QED BY <1>3, <3>3, <3>4 DEF FinsAt
    <2> QED BY <2>3, <2>7, <2>8, <2>9, StepOf DEF Effect
  <1> QED BY <1>10, <1>11 DEF Call, callVars

-----------------------------------------------------------------------------
(* The theorems.                                                           *)

(* Every step is a step of the streams, and keeps the invariant. *)
LEMMA StreamStep ==
  ASSUME WatchInv, TypeOK', StreamParts, [Next]_vars
  PROVE  StepOK
  <1>1. TypeOK /\ LocksOK /\ HolderOK
    BY DEF WatchInv
  <1>2. ASSUME NEW t \in Writers, Called(t) PROVE StepOK
    <2>1. PICK f \in Fds, b \in Requests :
            Call(t, f, "write", b) \/ Call(t, f, "commit_raw", b) \/ Call(t, f, "commit", b)
      BY <1>2 DEF Called, write, commit_raw, commit
    <2> QED BY <1>1, <2>1, StepCall
  <1>3. ASSUME NEW t \in Writers, WriterStep(t) PROVE StepOK
    BY <1>1, <1>3, StepExecuteOn, QuietWriter, StepExecuteBlocks, StepExecuteFails,
       StepClearCaller DEF WriterStep
  <1>4. ASSUME NEW t \in Workers, WorkerStep(t) PROVE StepOK
    BY <1>1, <1>4, QuietNext, QuietWorker, StepTryWriteOn, StepTryWriteBlocks,
       StepTryWriteFails, StepClear DEF WorkerStep
  <1>5. CASE poll_event
    BY <1>1, <1>5, QuietOther DEF poll_event, callVars, sockVars, askVars, errVars
  <1>6. ASSUME NEW f \in Fds, Drain(f) PROVE StepOK
    BY <1>1, <1>6, QuietOther DEF Drain, callVars, askVars, errVars
  <1>7. ASSUME NEW f \in Fds, PeerReset(f) PROVE StepOK
    BY <1>1, <1>7, StepReset
  <1>8. CASE Quiescent \/ UNCHANGED vars
    BY <1>1, <1>8, QuietOther DEF Quiescent, vars, callVars, sockVars, askVars, errVars
  <1> QED BY <1>2, <1>3, <1>4, <1>5, <1>6, <1>7, <1>8 DEF Next

(* The initial states are initial states of the streams. *)
LEMMA StreamInit == Init => StreamParts /\ Stream!Init
  <1> SUFFICES ASSUME Init PROVE StreamParts /\ Stream!Init
    OBVIOUS
  <1>1. IsPart(<<>>) /\ Writers \cap Workers = {} /\ None \notin Writers /\ None \notin Workers
    BY ThreadsAssumption DEF IsPart, Chained, Threads
  <1>2. \A t \in Threads : pc[t] = "idle" /\ xfbuf[t] = <<>> /\ fd[t] = None
    BY DEF Init
  <1>3. \A f \in Fds : Unsent(f) = <<>> /\ ~Discarding(f)
    BY <1>1 DEF Init, Unsent, Discarding
  <1>4. \A f \in Fds : Late(f) = {}
    BY <1>2, <1>3 DEF Late, Clearing, Threads
  <1>5. RestOK
    BY <1>1, <1>3 DEF Init, RestOK, Rest, EndOf, BytesBefore, FinsBefore, SentWithin, DoneExactly
  <1>6. BuffersOK
    BY <1>1, <1>2 DEF Init, BuffersOK, Threads
  <1>7. ASSUME NEW f \in Fds PROVE Accounted(finalized[f], Held(f), dropped[f], nfin[f])
    <2>1. finalized[f] = <<>> /\ dropped[f] = {} /\ nfin[f] = 0
      BY DEF Init
    <2>2. \A x \in DOMAIN Held(f) : Held(f)[x] = {}
      BY <1>2, FinsEmpty DEF Init, Held, Threads
    <2>3. AllHeld(Held(f)) = {}
      BY <2>2 DEF AllHeld
    <2>4. NumbersOf(<<>>) = {}
      BY DEF NumbersOf
    <2> QED BY <2>1, <2>2, <2>3, <2>4 DEF Accounted
  <1>8. Stream!Init
    BY <1>3, <1>4 DEF Init, Stream!Init, todo, late
  <1> QED BY <1>5, <1>6, <1>7, <1>8 DEF StreamParts, FinsOK

(* The invariant of the write path: what is left of each stream continues  *)
(* exactly what the socket took and what ran, the buffers are parts of     *)
(* streams, and every finalizer is in one place.                           *)
THEOREM StreamCorrect == Spec => []StreamInv
  <1>1. StreamInv /\ [Next]_vars => StreamInv'
    BY TypeStep, LocksStep, WatchStep, StreamStep
       DEF StreamInv, WatchInv, WatchParts, StreamParts, StepOK
  <1>2. Init => StreamInv
    BY TypeInit, WatchInit, StreamInit DEF StreamInv, WatchInv, WatchParts, StreamParts
  <1> QED BY <1>1, <1>2, PTL DEF Spec

(* write, commit_raw, commit and write_event, with their threads, mutexes, *)
(* queues and one-shot events, implement one stream per descriptor         *)
(* (OutStream): every step is a step of that stream, or invisible in it.   *)
THEOREM StreamRefined == Spec => ImplementsStream
  <1>1. Init => Stream!Init
    BY StreamInit
  <1>2. StreamInv /\ [Next]_vars => [Stream!Next]_Stream!vars
    BY TypeStep, StreamStep DEF StreamInv, WatchInv, StreamParts, StepOK
  <1> QED BY <1>1, <1>2, StreamCorrect, PTL DEF Spec, ImplementsStream, Stream!Spec

(* Bytes reach a socket in the order of the calls and never twice, even    *)
(* after an error and whichever thread writes them.                        *)
THEOREM InOrder == Spec => []StreamInOrder
  <1>1. StreamInv => StreamInOrder
    BY DEF StreamInv, RestOK, Rest, SentWithin, StreamInOrder
  <1> QED BY <1>1, StreamCorrect, PTL

(* Without an error nothing is lost between the caller's buffer, the queue *)
(* and the socket: see StreamComplete.                                     *)
THEOREM Complete == Spec => []StreamComplete
  <1>1. ASSUME StreamInv PROVE StreamComplete
    <2> SUFFICES ASSUME NEW f \in Fds, ~failed[f]
                 PROVE  /\ \A i \in 1..Len(wire[f]) : wire[f][i] = i
                        /\ owner[f] = None /\ m_fdctx[f] = <<>> => Len(wire[f]) = accepted[f]
      BY DEF StreamComplete
    <2>1. DoneExactly(wire[f], finalized[f], BytesBefore(Unsent(f), accepted[f]),
                      FinsBefore(Unsent(f), nfin[f]))
      BY <1>1 DEF StreamInv, RestOK, Rest
    <2>2. owner[f] = None /\ m_fdctx[f] = <<>> => BytesBefore(Unsent(f), accepted[f]) = accepted[f]
      BY UnsentIs DEF BytesBefore
    <2> QED BY <2>1, <2>2 DEF DoneExactly
  <1> QED BY <1>1, StreamCorrect, PTL

(* Without an error a finalizer, which frees the memory of the writes      *)
(* before it, runs right after the socket took the last of their bytes.    *)
THEOREM FinalizedAfterWrite == Spec => []FinalizeAfterWrite
  <1>1. ASSUME StreamInv PROVE FinalizeAfterWrite
    <2> SUFFICES ASSUME NEW f \in Fds, ~failed[f]
                 PROVE  \A i \in 1..Len(finalized[f]) :
                          /\ finalized[f][i].fin = i
                          /\ finalized[f][i].sent = finalized[f][i].pos
      BY DEF FinalizeAfterWrite
    <2>1. DoneExactly(wire[f], finalized[f], BytesBefore(Unsent(f), accepted[f]),
                      FinsBefore(Unsent(f), nfin[f]))
      BY <1>1 DEF StreamInv, RestOK, Rest
    <2> QED BY <2>1 DEF DoneExactly
  <1> QED BY <1>1, StreamCorrect, PTL

(* Different finalizers have different numbers: there are as many numbers. *)
LEMMA NumbersCount ==
  ASSUME NEW fs \in Seq(FinRec), \A i, j \in 1..Len(fs) : fs[i].fin = fs[j].fin => i = j
  PROVE  Cardinality(NumbersOf(fs)) = Len(fs)
  <1> DEFINE m == [i \in 1..Len(fs) |-> fs[i].fin]
  <1>1. m \in [1..Len(fs) -> NumbersOf(fs)]
    BY DEF NumbersOf
  <1>2. \A i, j \in 1..Len(fs) : m[i] = m[j] => i = j
    OBVIOUS
  <1>3. \A k \in NumbersOf(fs) : \E i \in 1..Len(fs) : m[i] = k
    BY DEF NumbersOf
  <1> HIDE DEF m
  <1>4. m \in Injection(1..Len(fs), NumbersOf(fs))
    BY <1>1, <1>2 DEF Injection, IsInjective
  <1>5. m \in Surjection(1..Len(fs), NumbersOf(fs))
    BY <1>1, <1>3 DEF Surjection
  <1>6. ExistsBijection(1..Len(fs), NumbersOf(fs))
    BY <1>4, <1>5 DEF ExistsBijection, Bijection
  <1>7. Len(fs) \in Nat
    OBVIOUS
  <1> QED BY <1>6, <1>7, FS_CountingElements

(* No finalizer runs twice, and none is lost except where commit_raw drops *)
(* it after an error.                                                      *)
THEOREM FinalizedOnce == Spec => []FinalizeOnce
  <1>1. ASSUME StreamInv PROVE FinalizeOnce
    <2> SUFFICES ASSUME NEW f \in Fds
                 PROVE  /\ Cardinality(Ran(f)) = Len(finalized[f])
                        /\ Ran(f) \cup Waiting(f) \cup dropped[f] = 1..nfin[f]
                        /\ Ran(f) \cap Waiting(f) = {}
                        /\ (Ran(f) \cup Waiting(f)) \cap dropped[f] = {}
      BY DEF FinalizeOnce
    <2>1. Accounted(finalized[f], Held(f), dropped[f], nfin[f])
      BY <1>1 DEF StreamInv, FinsOK
    <2>2. finalized[f] \in Seq(FinRec)
      BY <1>1 DEF StreamInv, WatchInv, TypeOK, FinRec
    <2>3. Cardinality(Ran(f)) = Len(finalized[f])
      BY <2>1, <2>2, NumbersCount DEF Accounted, Ran
    <2>4. Waiting(f) = AllHeld(Held(f))
      <3>1. None \notin Writers
        BY ThreadsAssumption DEF Threads
      <3>2. \A k : k \in AllHeld(Held(f)) <=> \E x \in DOMAIN Held(f) : k \in Held(f)[x]
        BY HeldMember
      <3>3. /\ DOMAIN Held(f) = {None} \cup Writers /\ Held(f)[None] = FinalizersIn(m_fdctx[f])
            /\ \A x \in Writers : /\ fd[x] = f => Held(f)[x] = FinalizersIn(xfbuf[x])
                                  /\ fd[x] # f => Held(f)[x] = {}
        BY <3>1, FinsEmpty DEF Held
      <3>4. \A k : k \in Waiting(f) <=> \/ k \in FinalizersIn(m_fdctx[f])
                                        \/ \E x \in Writers : fd[x] = f /\ k \in FinalizersIn(xfbuf[x])
        BY DEF Waiting
      <3>5. \A k : k \in Waiting(f) <=> k \in AllHeld(Held(f))
        BY <3>2, <3>3, <3>4
      <3> QED BY <3>5
    <2> QED BY <2>1, <2>3, <2>4 DEF Accounted, Ran
  <1> QED BY <1>1, StreamCorrect, PTL

=============================================================================
