------------------------------- MODULE WavyOut -------------------------------
(***************************************************************************)
(* The write path of the event loop: mp::wavy::out (mpsrc/wavy_out.cc).    *)
(*                                                                         *)
(* Any thread may call write, commit_raw or commit for a descriptor.  When *)
(* nothing is queued for it the caller writes to the socket itself, and    *)
(* queues what the socket does not take; otherwise it appends to the queue *)
(* of the descriptor.  A descriptor with queued data is watched: it is in  *)
(* the interest list of out's own epoll instance, one-shot, and is counted *)
(* in m_watching.  When it becomes writable poll_event moves it to m_queue,*)
(* and a worker that takes it from there (write_event) writes the queue    *)
(* on, then either re-arms the descriptor or stops watching it.            *)
(*                                                                         *)
(* One mutex per descriptor guards the queue and is held over the system   *)
(* calls.  A step of this module is one system call, one finalizer or one  *)
(* access to state that other threads see without that mutex.  poll_event  *)
(* and next run under the loop's mutex and are one step each.              *)
(***************************************************************************)
EXTENDS Xfer, WavyKernel

CONSTANTS
  Fds,          \* connected sockets
  Writers,      \* threads that call loop::write, writev, sendfile, commit
  Workers,      \* threads in loop_impl::thread_main
  Requests,     \* the transfer buffers callers pass
  Room,         \* bytes the socket's send buffer holds
  BacklogSize,  \* MP_WAVY_KERNEL_BACKLOG_SIZE
  MaxBytes,     \* bound: bytes asked for per descriptor
  MaxFins,      \* bound: finalizers asked for per descriptor
  MaxEntries,   \* bound: elements in the queue of a descriptor
  None          \* no thread, no descriptor

Threads == Writers \cup Workers

ASSUME ThreadsAssumption == Writers \cap Workers = {} /\ None \notin Threads \cup Fds
ASSUME FiniteAssumption == IsFiniteSet(Fds)
ASSUME RequestsAssumption == \A b \in Requests : IsXfer(b)
ASSUME BoundsAssumption ==
  /\ Room \in Nat \ {0} /\ BacklogSize \in Nat \ {0}
  /\ MaxBytes \in Nat /\ MaxFins \in Nat /\ MaxEntries \in Nat

VARIABLES
  m_fdctx,      \* queue of each descriptor, an xfer
  owner,        \* holder of the mutex of each m_fdctx entry
  m_kernel,     \* interest list of out's epoll instance
  m_queue,      \* events taken from it and not yet served
  m_watching,   \* number of watched descriptors
  pc, fd, op,   \* per thread: next step, descriptor, operation
  xfbuf,        \* per thread: the caller's buffer
  room,         \* bytes each socket would accept now
  broken,       \* the connection is reset: writes fail
  shut,         \* shutdown(fd, SHUT_RD) was called
  wire,         \* positions of the bytes the socket accepted, in order
  accepted,     \* bytes the callers asked for so far
  nfin,         \* finalizers the callers asked for so far
  finalized,    \* the finalizers that ran, in order
  dropped,      \* the finalizers that will never run
  failed        \* part of the stream was discarded

queueVars == <<m_kernel, m_queue, m_watching>>
callVars == <<fd, op>>
sockVars == <<room, broken, wire>>
askVars == <<accepted, nfin>>
errVars == <<shut, dropped, failed>>
vars == <<m_fdctx, owner, queueVars, pc, callVars, xfbuf, sockVars, askVars,
          finalized, errVars>>

Ops == {"none", "write", "commit_raw", "commit"}
WriterPCs == {"idle", "execute", "add_fd", "add_watching", "clear_xf"}
WorkerPCs == {"idle", "write_event", "try_write", "reactivate", "remove", "clear"}

-----------------------------------------------------------------------------
(* The socket and the finalizers.                                          *)

(* The socket takes n bytes of element e. *)
Send(f, e, n) ==
  /\ wire' = [wire EXCEPT ![f] = @ \o [i \in 1..n |-> e.pos + i]]
  /\ room' = [room EXCEPT ![f] = @ - n]
  /\ UNCHANGED <<broken, finalized>>

(* The finalizer of element e runs. *)
Finalize(f, e) ==
  /\ finalized' = [finalized EXCEPT ![f] =
                     Append(@, [fin |-> e.fin, pos |-> e.pos, sent |-> Len(wire[f])])]
  /\ UNCHANGED sockVars

(* One turn of the loop in xfer_impl::execute that finishes the head of b: *)
(* a finalizer, or a write that the socket takes as a whole.               *)
Completes(f, b) ==
  LET e == Head(b) IN
  /\ b # <<>>
  /\ \/ e.type = "finalize" /\ Finalize(f, e)
     \/ /\ e.type = "data" /\ ~broken[f]
        /\ 0 < e.len /\ e.len <= room[f]
        /\ Send(f, e, e.len)

(* A turn that ends in EAGAIN (n = 0, the send buffer is full) or in a     *)
(* short write of n bytes: execute returns true.                           *)
Blocks(f, b, n) ==
  LET e == Head(b) IN
  /\ e.type = "data" /\ ~broken[f]
  /\ n <= room[f] /\ (n = 0 <=> room[f] = 0)
  /\ Send(f, e, n)

(* A turn in which the write fails: an error, or a result of zero, which   *)
(* is what writing no bytes returns.  execute keeps b and returns false.   *)
Fails(f, b) ==
  /\ b # <<>> /\ Head(b).type = "data"
  /\ broken[f] \/ Head(b).len = 0
  /\ UNCHANGED <<sockVars, finalized>>

-----------------------------------------------------------------------------
(* The callers: write, commit_raw, commit.                                 *)

Begin(t, f, o, b) ==
  /\ fd' = [fd EXCEPT ![t] = f]
  /\ op' = [op EXCEPT ![t] = o]
  /\ xfbuf' = [xfbuf EXCEPT ![t] = b]
Return(t) ==
  /\ pc' = [pc EXCEPT ![t] = "idle"]
  /\ Begin(t, None, "none", <<>>)
Unlock(f) == owner' = [owner EXCEPT ![f] = None]
At(t, step) == pc' = [pc EXCEPT ![t] = step]

(* The buffer passed by the caller, as the next part of the stream of f.   *)
Asked(f, b) ==
  /\ accepted[f] + Size(b) <= MaxBytes /\ nfin[f] + Finalizers(b) <= MaxFins
  /\ accepted' = [accepted EXCEPT ![f] = @ + Size(b)]
  /\ nfin' = [nfin EXCEPT ![f] = @ + Finalizers(b)]

(* What the three operations share: lock; if something is queued already,  *)
(* append to it (push_write, push_xfraw, migrate) and return; otherwise    *)
(* write to the socket directly.                                           *)
Call(t, f, o, b) ==
  LET xf == Rebase(b, accepted[f], nfin[f]) IN
  /\ pc[t] = "idle" /\ owner[f] = None
  /\ Asked(f, b)
  /\ \/ /\ m_fdctx[f] # <<>>
        /\ Len(m_fdctx[f]) + Len(b) <= MaxEntries
        /\ m_fdctx' = [m_fdctx EXCEPT ![f] = migrate(xf, @)]
        /\ UNCHANGED <<owner, pc, callVars, xfbuf>>
     \/ /\ m_fdctx[f] = <<>>
        /\ owner' = [owner EXCEPT ![f] = t]
        /\ At(t, "execute") /\ Begin(t, f, o, xf)
        /\ UNCHANGED m_fdctx
  /\ UNCHANGED <<queueVars, sockVars, finalized, errVars>>

write(t, f, b) ==
  /\ Len(b) = 1 /\ b[1].type = "data"
  /\ Call(t, f, "write", b)

commit_raw(t, f, b) ==
  /\ Len(b) > 1 /\ b[Len(b)].type = "finalize"
  /\ \A i \in 1..(Len(b) - 1) : b[i].type = "data"
  /\ Call(t, f, "commit_raw", b)

commit(t, f, b) == Call(t, f, "commit", b)

(* The caller's own turn of execute (commit, commit_raw), or its write().  *)
ExecuteOn(t) ==
  /\ pc[t] = "execute"
  /\ Completes(fd[t], xfbuf[t])
  /\ xfbuf' = [xfbuf EXCEPT ![t] = Tail(@)]
  /\ UNCHANGED <<m_fdctx, owner, queueVars, pc, callVars, askVars, errVars>>

(* execute wrote everything: nothing to queue or to watch. *)
ExecuteDone(t) ==
  /\ pc[t] = "execute" /\ xfbuf[t] = <<>>
  /\ Unlock(fd[t]) /\ Return(t)
  /\ UNCHANGED <<m_fdctx, queueVars, sockVars, askVars, finalized, errVars>>

(* The socket is full: what is left becomes the queue of the descriptor. *)
ExecuteBlocks(t) ==
  /\ pc[t] = "execute" /\ xfbuf[t] # <<>>
  /\ \E n \in 0..(Head(xfbuf[t]).len - 1) :
       /\ Blocks(fd[t], xfbuf[t], n)
       /\ m_fdctx' = [m_fdctx EXCEPT ![fd[t]] = migrate(Trim(xfbuf[t], n), @)]
  /\ xfbuf' = [xfbuf EXCEPT ![t] = <<>>]
  /\ At(t, "add_fd")
  /\ UNCHANGED <<owner, queueVars, callVars, askVars, errVars>>

(* The write failed.  write and commit shut the reading side down, which   *)
(* commit_raw does not; commit leaves the rest in the caller's buffer, and *)
(* commit_raw forgets it, finalizer included.                              *)
ExecuteFails(t) ==
  /\ pc[t] = "execute"
  /\ Fails(fd[t], xfbuf[t])
  /\ failed' = [failed EXCEPT ![fd[t]] = TRUE]
  /\ shut' = [shut EXCEPT ![fd[t]] = @ \/ op[t] # "commit_raw"]
  /\ Unlock(fd[t])
  /\ \/ /\ op[t] = "commit"
        /\ At(t, "clear_xf")
        /\ UNCHANGED <<callVars, xfbuf, dropped>>
     \/ /\ op[t] # "commit"
        /\ dropped' = [dropped EXCEPT ![fd[t]] = @ \cup FinalizersIn(xfbuf[t])]
        /\ Return(t)
  /\ UNCHANGED <<m_fdctx, queueVars, askVars>>

(* The caller destroys the xfer: ~xfer clears it, running its finalizers.  *)
ClearCaller(t) ==
  /\ pc[t] = "clear_xf"
  /\ IF xfbuf[t] = <<>>
     THEN Return(t) /\ UNCHANGED <<finalized, sockVars>>
     ELSE /\ xfbuf' = [xfbuf EXCEPT ![t] = Tail(@)]
          /\ IF Head(xfbuf[t]).type = "finalize"
             THEN Finalize(fd[t], Head(xfbuf[t]))
             ELSE UNCHANGED <<finalized, sockVars>>
          /\ UNCHANGED <<pc, callVars>>
  /\ UNCHANGED <<m_fdctx, owner, queueVars, askVars, errVars>>

(* watch: first the interest list, then the counter. *)
WatchAddFd(t) ==
  /\ pc[t] = "add_fd"
  /\ m_kernel' = add_fd(m_kernel, fd[t])
  /\ At(t, "add_watching")
  /\ UNCHANGED <<m_fdctx, owner, m_queue, m_watching, callVars, xfbuf, sockVars,
                 askVars, finalized, errVars>>

(* Mutant of WatchCounted: the counter is not incremented. *)
WatchCounted_not(n) == n

WatchCounted(n) == n + 1

WatchCount(t) ==
  /\ pc[t] = "add_watching"
  /\ m_watching' = WatchCounted(m_watching)
  /\ Unlock(fd[t]) /\ Return(t)
  /\ UNCHANGED <<m_fdctx, m_kernel, m_queue, sockVars, askVars, finalized, errVars>>

-----------------------------------------------------------------------------
(* The workers: poll_event, next, write_event.                             *)

Writable == {f \in Fds : room[f] > 0 \/ broken[f]}

(* Mutant of Pushed: the loop over the backlog ends one entry early. *)
Pushed_but_last(q, batch) == q \o SubSeq(batch, 1, Len(batch) - 1)

(* The events of a batch, in order, at the end of the queue. *)
Pushed(q, batch) == q \o batch

poll_event ==
  /\ \E batch \in Batches(m_kernel, Writable, BacklogSize) :
       /\ m_kernel' = wait(m_kernel, batch)
       /\ m_queue' = Pushed(m_queue, batch)
  /\ UNCHANGED <<m_fdctx, owner, m_watching, pc, callVars, xfbuf, sockVars,
                 askVars, finalized, errVars>>

next(t) ==
  /\ pc[t] = "idle" /\ m_queue # <<>>
  /\ m_queue' = Tail(m_queue)
  /\ fd' = [fd EXCEPT ![t] = Head(m_queue)]
  /\ At(t, "write_event")
  /\ UNCHANGED <<m_fdctx, owner, m_kernel, m_watching, op, xfbuf, sockVars,
                 askVars, finalized, errVars>>

WriteEventLock(t) ==
  /\ pc[t] = "write_event" /\ owner[fd[t]] = None
  /\ owner' = [owner EXCEPT ![fd[t]] = t]
  /\ At(t, "try_write")
  /\ UNCHANGED <<m_fdctx, queueVars, callVars, xfbuf, sockVars, askVars,
                 finalized, errVars>>

TryWriteOn(t) ==
  /\ pc[t] = "try_write"
  /\ Completes(fd[t], m_fdctx[fd[t]])
  /\ m_fdctx' = [m_fdctx EXCEPT ![fd[t]] = Tail(@)]
  /\ UNCHANGED <<owner, queueVars, pc, callVars, xfbuf, askVars, errVars>>

TryWriteBlocks(t) ==
  /\ pc[t] = "try_write" /\ m_fdctx[fd[t]] # <<>>
  /\ \E n \in 0..(Head(m_fdctx[fd[t]]).len - 1) :
       /\ Blocks(fd[t], m_fdctx[fd[t]], n)
       /\ m_fdctx' = [m_fdctx EXCEPT ![fd[t]] = Trim(@, n)]
  /\ At(t, "reactivate")
  /\ UNCHANGED <<owner, queueVars, callVars, xfbuf, askVars, errVars>>

(* Mutant of TryWriteDone: the mutex is released before the descriptor is  *)
(* removed from the interest list.                                         *)
TryWriteDone_unlocks(t) ==
  /\ pc[t] = "try_write" /\ m_fdctx[fd[t]] = <<>>
  /\ Unlock(fd[t]) /\ At(t, "remove")
  /\ UNCHANGED <<m_fdctx, queueVars, callVars, xfbuf, sockVars, askVars,
                 finalized, errVars>>

TryWriteDone(t) ==
  /\ pc[t] = "try_write" /\ m_fdctx[fd[t]] = <<>>
  /\ At(t, "remove")
  /\ UNCHANGED <<m_fdctx, owner, queueVars, callVars, xfbuf, sockVars, askVars,
                 finalized, errVars>>

TryWriteFails(t) ==
  /\ pc[t] = "try_write"
  /\ Fails(fd[t], m_fdctx[fd[t]])
  /\ shut' = [shut EXCEPT ![fd[t]] = TRUE]
  /\ failed' = [failed EXCEPT ![fd[t]] = TRUE]
  /\ At(t, "remove")
  /\ UNCHANGED <<m_fdctx, owner, queueVars, callVars, xfbuf, askVars, dropped>>

Reactivate(t) ==
  /\ pc[t] = "reactivate"
  /\ m_kernel' = reactivate(m_kernel, fd[t])
  /\ Unlock(fd[t]) /\ Return(t)
  /\ UNCHANGED <<m_fdctx, m_queue, m_watching, sockVars, askVars, finalized,
                 errVars>>

Remove(t) ==
  /\ pc[t] = "remove"
  /\ m_kernel' = remove(m_kernel, fd[t])
  /\ At(t, "clear")
  /\ UNCHANGED <<m_fdctx, owner, m_queue, m_watching, callVars, xfbuf, sockVars,
                 askVars, finalized, errVars>>

(* Mutant of Clear: the finalizers are dropped with the rest. *)
Clear_silently(t) ==
  /\ pc[t] = "clear" /\ m_fdctx[fd[t]] # <<>>
  /\ m_fdctx' = [m_fdctx EXCEPT ![fd[t]] = Tail(@)]
  /\ UNCHANGED <<owner, queueVars, pc, callVars, xfbuf, sockVars, askVars,
                 finalized, errVars>>

(* clear: drop what is left of the queue, running its finalizers. *)
Clear(t) ==
  LET q == m_fdctx[fd[t]] IN
  /\ pc[t] = "clear" /\ q # <<>>
  /\ m_fdctx' = [m_fdctx EXCEPT ![fd[t]] = Tail(@)]
  /\ IF Head(q).type = "finalize" THEN Finalize(fd[t], Head(q))
     ELSE UNCHANGED <<finalized, sockVars>>
  /\ UNCHANGED <<owner, queueVars, pc, callVars, xfbuf, askVars, errVars>>

Unwatched(n) == n - 1

Unwatch(t) ==
  /\ pc[t] = "clear" /\ m_fdctx[fd[t]] = <<>>
  /\ m_watching' = Unwatched(m_watching)
  /\ Unlock(fd[t]) /\ Return(t)
  /\ UNCHANGED <<m_fdctx, m_kernel, m_queue, sockVars, askVars, finalized, errVars>>

-----------------------------------------------------------------------------
(* The peer, and the whole system.                                         *)

(* The peer reads: the send buffer has room again. *)
Drain(f) ==
  /\ room[f] < Room
  /\ room' = [room EXCEPT ![f] = Room]
  /\ UNCHANGED <<m_fdctx, owner, queueVars, pc, callVars, xfbuf, broken, wire,
                 askVars, finalized, errVars>>

PeerReset(f) ==
  /\ ~broken[f]
  /\ broken' = [broken EXCEPT ![f] = TRUE]
  /\ UNCHANGED <<m_fdctx, owner, queueVars, pc, callVars, xfbuf, room, wire,
                 askVars, finalized, errVars>>

(* Nobody calls and nothing is queued: the only states the system may rest *)
(* in.                                                                     *)
Quiescent ==
  /\ \A t \in Threads : pc[t] = "idle"
  /\ m_queue = <<>> /\ \A f \in Fds : m_fdctx[f] = <<>>
  /\ UNCHANGED vars

Init ==
  /\ m_fdctx = [f \in Fds |-> <<>>] /\ owner = [f \in Fds |-> None]
  /\ m_kernel = [f \in Fds |-> "none"] /\ m_queue = <<>> /\ m_watching = 0
  /\ pc = [t \in Threads |-> "idle"] /\ op = [t \in Threads |-> "none"]
  /\ fd = [t \in Threads |-> None]
  /\ xfbuf = [t \in Threads |-> <<>>]
  /\ room = [f \in Fds |-> Room] /\ wire = [f \in Fds |-> <<>>]
  /\ broken = [f \in Fds |-> FALSE] /\ shut = [f \in Fds |-> FALSE]
  /\ accepted = [f \in Fds |-> 0] /\ nfin = [f \in Fds |-> 0]
  /\ finalized = [f \in Fds |-> <<>>] /\ dropped = [f \in Fds |-> {}]
  /\ failed = [f \in Fds |-> FALSE]

Called(t) ==
  \E f \in Fds, b \in Requests : write(t, f, b) \/ commit_raw(t, f, b) \/ commit(t, f, b)

WriterStep(t) ==
  \/ ExecuteOn(t) \/ ExecuteDone(t) \/ ExecuteBlocks(t) \/ ExecuteFails(t)
  \/ ClearCaller(t) \/ WatchAddFd(t) \/ WatchCount(t)

WorkerStep(t) ==
  \/ next(t) \/ WriteEventLock(t)
  \/ TryWriteOn(t) \/ TryWriteBlocks(t) \/ TryWriteDone(t) \/ TryWriteFails(t)
  \/ Reactivate(t) \/ Remove(t) \/ Clear(t) \/ Unwatch(t)

Next ==
  \/ \E t \in Writers : Called(t) \/ WriterStep(t)
  \/ \E t \in Workers : WorkerStep(t)
  \/ poll_event
  \/ \E f \in Fds : Drain(f) \/ PeerReset(f)
  \/ Quiescent

Spec == Init /\ [][Next]_vars

(* Every thread that is inside an operation goes on with it, the loop      *)
(* polls out's epoll instance as long as it reports something, workers     *)
(* take queued events, and a peer reads what it was sent or resets.        *)
Fairness ==
  /\ \A t \in Writers : WF_vars(WriterStep(t))
  /\ \A t \in Workers : WF_vars(WorkerStep(t))
  /\ WF_vars(poll_event)
  /\ \A f \in Fds : WF_vars(Drain(f))

FairSpec == Spec /\ Fairness
-----------------------------------------------------------------------------
(* Properties.                                                             *)

TypeOK ==
  /\ m_fdctx \in [Fds -> Seq(Element)] /\ owner \in [Fds -> Threads \cup {None}]
  /\ m_kernel \in [Fds -> Interest] /\ m_queue \in Seq(Fds) /\ m_watching \in Int
  /\ pc \in [Threads -> WriterPCs \cup WorkerPCs] /\ op \in [Threads -> Ops]
  /\ fd \in [Threads -> Fds \cup {None}] /\ xfbuf \in [Threads -> Seq(Element)]
  /\ room \in [Fds -> 0..Room] /\ wire \in [Fds -> Seq(Nat)]
  /\ broken \in [Fds -> BOOLEAN] /\ shut \in [Fds -> BOOLEAN]
  /\ accepted \in [Fds -> Nat] /\ nfin \in [Fds -> Nat]
  /\ finalized \in [Fds -> Seq([fin : Nat, pos : Nat, sent : Nat])]
  /\ dropped \in [Fds -> SUBSET Nat] /\ failed \in [Fds -> BOOLEAN]

(* A worker has taken the event of f from m_queue and has not given the    *)
(* registration back (reactivate) or removed it yet.                       *)
Serving(t, f) == fd[t] = f /\ pc[t] # "clear"

(* The one-shot event of a descriptor is neither lost nor duplicated on    *)
(* its way from poll_event through m_queue to write_event: a registration  *)
(* that has fired is in m_queue once or held by one worker, and no other   *)
(* descriptor is.  So two workers never write to one connection in turn    *)
(* for the same event.                                                     *)
EventServedOnce ==
  \A f \in Fds :
    /\ m_kernel[f] = "fired" <=> \/ \E i \in 1..Len(m_queue) : m_queue[i] = f
                                 \/ \E t \in Workers : Serving(t, f)
    /\ \A i \in 1..Len(m_queue) : m_queue[i] = f =>
         /\ \A j \in 1..Len(m_queue) : m_queue[j] = f => i = j
         /\ \A t \in Workers : ~Serving(t, f)
    /\ \A t, u \in Workers : Serving(t, f) /\ Serving(u, f) => t = u

(* Queued data is never stranded: whenever the mutex of a descriptor is    *)
(* free, its queue is nonempty exactly if out's epoll instance watches it, *)
(* whichever of write, commit_raw, commit and write_event came last.       *)
QueuedIffWatched ==
  \A f \in Fds : owner[f] = None => (m_fdctx[f] # <<>> <=> m_kernel[f] # "none")

(* Between watch()'s two steps, and from remove to the decrement, the      *)
(* counter and the interest list differ by this descriptor.                *)
Counted(f) ==
  \/ m_kernel[f] # "none" /\ owner[f] \notin Writers
  \/ \E t \in Workers : owner[f] = t /\ pc[t] = "clear"

(* m_watching is the number of watched descriptors, whatever threads are   *)
(* in the middle of watch() or of the end of write_event(), so             *)
(* write_event() reports zero, and flush() is woken, at the right time.    *)
WatchingExact == m_watching = Cardinality({f \in Fds : Counted(f)})

(* flush() returns when m_watching is zero: then nothing is queued, except *)
(* what a caller that is still inside commit() has just put there.         *)
FlushWaitsForData ==
  m_watching = 0 => \A f \in Fds : m_fdctx[f] # <<>> => owner[f] \in Writers

(* Bytes reach a socket in the order in which the calls took its mutex and *)
(* never twice, whichever thread writes them, even after an error.         *)
StreamInOrder ==
  \A f \in Fds : \A i, j \in 1..Len(wire[f]) : i < j => wire[f][i] < wire[f][j]

(* Unless an error made it discard something, the stream has no gap: what  *)
(* the socket took is a prefix of what the callers asked for, and all of   *)
(* it once the queue is empty and no call is in progress.                  *)
StreamComplete ==
  \A f \in Fds : ~failed[f] =>
    /\ \A i \in 1..Len(wire[f]) : wire[f][i] = i
    /\ owner[f] = None /\ m_fdctx[f] = <<>> => Len(wire[f]) = accepted[f]

(* A finalizer frees the memory of the writes before it: it runs when the  *)
(* socket has taken all bytes pushed before it and none pushed after it,   *)
(* and finalizers run in the order pushed, unless an error discarded bytes.*)
FinalizeAfterWrite ==
  \A f \in Fds : ~failed[f] =>
    \A i \in 1..Len(finalized[f]) :
      /\ finalized[f][i].fin = i
      /\ finalized[f][i].sent = finalized[f][i].pos

(* Finalizers waiting in the queue of f or in the buffer of a caller. *)
Waiting(f) ==
  FinalizersIn(m_fdctx[f]) \cup UNION {FinalizersIn(xfbuf[t]) : t \in {u \in Writers : fd[u] = f}}
NumbersOf(fs) == {fs[i].fin : i \in 1..Len(fs)}
Ran(f) == NumbersOf(finalized[f])

(* A finalizer never runs twice (it deletes an object), and none vanishes  *)
(* from the queues except where commit_raw drops it after an error.        *)
FinalizeOnce ==
  \A f \in Fds :
    /\ Cardinality(Ran(f)) = Len(finalized[f])
    /\ Ran(f) \cup Waiting(f) \cup dropped[f] = 1..nfin[f]
    /\ Ran(f) \cap Waiting(f) = {} /\ (Ran(f) \cup Waiting(f)) \cap dropped[f] = {}

(* Queued data is written or discarded eventually. *)
Drains == \A f \in Fds : m_fdctx[f] # <<>> ~> m_fdctx[f] = <<>>

(* Every finalizer passed in runs eventually, or has been dropped by       *)
(* commit_raw after an error.                                              *)
FinalizersSettle ==
  \A f \in Fds, k \in 1..MaxFins : nfin[f] >= k ~> k \in Ran(f) \cup dropped[f]

(* "error occured" (mpsrc/wavy_out.cc:286): shutdown() is called only for  *)
(* a connection that has failed.  The code also calls it when a caller     *)
(* writes no bytes, because writev() returns 0 then.                       *)
ShutdownOnlyOnError == \A f \in Fds : shut[f] => broken[f]

-----------------------------------------------------------------------------
(* The inductive invariant.                                                *)

LockedPCs == {"execute", "add_fd", "add_watching", "try_write", "reactivate",
              "remove", "clear"}

(* A thread holds the mutex of f exactly while it is at one of the steps   *)
(* between the lock and the unlock, for f.                                 *)
LocksOK ==
  /\ \A t \in Writers : pc[t] \in WriterPCs
  /\ \A t \in Workers : pc[t] \in WorkerPCs
  /\ \A t \in Threads : fd[t] = None <=> pc[t] = "idle"
  /\ \A t \in Threads, f \in Fds : owner[f] = t <=> fd[t] = f /\ pc[t] \in LockedPCs

(* What the holder of a mutex knows of the queue and the interest list. *)
HolderOK ==
  \A t \in Threads :
    /\ pc[t] = "execute" => m_fdctx[fd[t]] = <<>>
    /\ pc[t] \in {"add_fd", "add_watching", "reactivate"} => m_fdctx[fd[t]] # <<>>
    /\ pc[t] \in {"execute", "add_fd", "clear"} => m_kernel[fd[t]] = "none"
    /\ pc[t] = "add_watching" => m_kernel[fd[t]] # "none"

WatchInv ==
  TypeOK /\ LocksOK /\ HolderOK /\ EventServedOnce /\ QueuedIffWatched /\ WatchingExact

(* What is left to write for f: the buffer of the caller that is writing   *)
(* it directly, or the queue; nothing once write_event is past its last    *)
(* write, because what its queue still holds has been discarded.           *)
Discarding(f) == owner[f] \in Workers /\ pc[owner[f]] \in {"remove", "clear"}
Unsent(f) ==
  IF owner[f] \in Writers /\ pc[owner[f]] = "execute" THEN xfbuf[owner[f]]
  ELSE IF Discarding(f) THEN <<>> ELSE m_fdctx[f]

(* b is the last part of a stream of a bytes and k finalizers. *)
EndOf(b, a, k) == IsPart(b) /\ (b # <<>> => Size(b) = a /\ Finalizers(b) = k)

(* The bytes and the finalizers of the stream before that part. *)
BytesBefore(b, a) == IF b = <<>> THEN a ELSE b[1].pos
FinsBefore(b, k) ==
  IF b = <<>> THEN k ELSE IF b[1].type = "finalize" THEN b[1].fin - 1 ELSE b[1].fin

(* The socket has taken bytes of the first p only, in order. *)
SentWithin(w, p) ==
  /\ \A i \in 1..Len(w) : w[i] <= p
  /\ \A i, j \in 1..Len(w) : i < j => w[i] < w[j]

(* The socket has taken exactly the first p bytes, and the first q         *)
(* finalizers have run, each one when the bytes before it had been taken.  *)
DoneExactly(w, fs, p, q) ==
  /\ Len(w) = p /\ \A i \in 1..Len(w) : w[i] = i
  /\ Len(fs) = q /\ \A i \in 1..Len(fs) : fs[i].fin = i /\ fs[i].sent = fs[i].pos

(* b is what is left of the stream when the socket has taken w and the     *)
(* finalizers fs have run: nothing of b is done, and everything before it, *)
(* unless something was discarded (bad).                                   *)
Rest(b, w, fs, a, k, bad) ==
  /\ EndOf(b, a, k)
  /\ SentWithin(w, BytesBefore(b, a))
  /\ ~bad => DoneExactly(w, fs, BytesBefore(b, a), FinsBefore(b, k))

RestOK ==
  \A f \in Fds : Rest(Unsent(f), wire[f], finalized[f], accepted[f], nfin[f], failed[f])

(* The buffers are parts of a stream.  Callers hold one only while they    *)
(* write it or destroy it, and only what an error left behind is destroyed.*)
BuffersOK ==
  /\ \A f \in Fds : IsPart(m_fdctx[f])
  /\ \A t \in Writers :
       /\ IsPart(xfbuf[t])
       /\ pc[t] \notin {"execute", "clear_xf"} => xfbuf[t] = <<>>
       /\ pc[t] = "clear_xf" => failed[fd[t]]
  /\ \A t \in Workers :
       pc[t] \in {"remove", "clear"} => m_fdctx[fd[t]] = <<>> \/ failed[fd[t]]

(* The finalizers of f that wait at each place: in the queue (None) or     *)
(* with a caller.                                                          *)
Held(f) ==
  [x \in {None} \cup Writers |->
     FinalizersIn(IF x = None THEN m_fdctx[f] ELSE IF fd[x] = f THEN xfbuf[x] ELSE <<>>)]

AllHeld(h) == UNION {h[x] : x \in DOMAIN h}

(* Each of the n finalizers asked for ran (fs), waits at one place (h) or  *)
(* was dropped (D), and none twice.                                        *)
Accounted(fs, h, D, n) ==
  /\ \A i, j \in 1..Len(fs) : fs[i].fin = fs[j].fin => i = j
  /\ \A x, y \in DOMAIN h : x # y => h[x] \cap h[y] = {}
  /\ NumbersOf(fs) \cup AllHeld(h) \cup D = 1..n
  /\ NumbersOf(fs) \cap AllHeld(h) = {}
  /\ (NumbersOf(fs) \cup AllHeld(h)) \cap D = {}

FinsOK == \A f \in Fds : Accounted(finalized[f], Held(f), dropped[f], nfin[f])

StreamInv == WatchInv /\ RestOK /\ BuffersOK /\ FinsOK

-----------------------------------------------------------------------------
(* The promise to the callers.                                             *)

(* Callers that destroy the buffer a failed commit left them. *)
Clearing(f) == {t \in Writers : fd[t] = f /\ pc[t] = "clear_xf"}

(* Finalizers of what an error discarded that have not run yet. *)
Late(f) == (IF Discarding(f) THEN FinsOf(m_fdctx[f]) ELSE {})
             \cup UNION {FinsOf(xfbuf[t]) : t \in Clearing(f)}

todo == [f \in Fds |-> Unsent(f)]
late == [f \in Fds |-> Late(f)]

Stream == INSTANCE OutStream WITH todo <- todo, late <- late

(* The threads, the queue, the one-shot events and the two ways to write   *)
(* are invisible to the callers: write, commit_raw, commit and write_event *)
(* together behave as one stream per descriptor whose bytes and finalizers *)
(* are taken from the front, of which only an error may discard the rest.  *)
ImplementsStream == Stream!Spec

=============================================================================
