------------------------------ MODULE WavyConn ------------------------------
(***************************************************************************)
(* Connections that come and go: the handler that owns a socket            *)
(* (mp/wavy.hmpl), the loop that dispatches its events (mpsrc/wavy_loop.cc)*)
(* and the write path (mpsrc/wavy_out.cc) together.                        *)
(*                                                                         *)
(* Everything in the library is found by descriptor number: the handler in *)
(* m_state, the registrations in the two epoll instances, the queue in     *)
(* m_fdctx.  ~handler closes the descriptor when the last shared pointer   *)
(* goes, and the number may belong to the next connection at once.  What   *)
(* keeps the two apart is the references: m_state, the worker in the       *)
(* callback, the thread that added the handler, and the finalizer that     *)
(* goes with a queued write (push_finalize(shared_ptr)).  A program may    *)
(* also write without such a finalizer, or remove a handler from outside:  *)
(* bare and outside record it, and the properties name what they assume.   *)
(*                                                                         *)
(* Of WavyLoop this module keeps the way of one event, and of WavyOut the  *)
(* queue, its mutex and its registration.  A write is data elements and    *)
(* perhaps a finalizer, named after the connection they were meant for.    *)
(***************************************************************************)
EXTENDS WavyKernel

CONSTANTS
  Conns,        \* the connections, numbered as they are accepted
  Fds,          \* descriptor numbers
  Workers,      \* threads in thread_main
  Callers,      \* threads that accept connections and use them
  None,
  MaxWork       \* bound: arrivals of input and writes, bare ones twice

Threads == Workers \cup Callers

ASSUME ConnAssumption ==
  /\ Workers \cap Callers = {} /\ None \notin Conns \cup Fds \cup Threads
  /\ MaxWork \in Nat /\ Conns \subseteq Nat

VARIABLES
  file,         \* per number: the connection that has it
  m_state,      \* per number: the handler
  m_kernel,     \* interest list of the loop, for reading
  out_kernel,   \* interest list of out, for writing
  events,       \* per number: read events reported and not yet taken
  out_queue,    \* per number: write events reported and not yet taken
  m_fdctx,      \* per number: the queue of writes
  owner,        \* per number: holder of the mutex of the queue
  pc, ident, h, \* per thread: step, number, handler held
  xfbuf,        \* per thread: its own write
  conn,         \* per connection: "new", "up", "removed" by its handler or caller
  ready, full, broken,  \* per connection: input, send buffer, reset
  got,          \* per connection: those whose bytes its socket was given
  leaked,       \* connections with a reference that nobody will drop
  work,         \* counts what MaxWork bounds
  outside,      \* remove_handler was called from outside the handler
  bare          \* something was written that holds no handler

fileVars == <<file, m_state, h, m_fdctx, xfbuf, m_kernel, out_kernel>>
eventVars == <<events, out_queue>>
sockVars == <<ready, full, broken, got>>
countVars == <<work, outside, bare>>
vars == <<fileVars, eventVars, owner, pc, ident, conn, sockVars, leaked, countVars>>

At(t, step) == pc' = [pc EXCEPT ![t] = step]
Spend(n) == work + n <= MaxWork /\ work' = work + n /\ UNCHANGED outside

(* Where a thread goes on after a write. *)
Back(t) == At(t, IF t \in Workers THEN "callback" ELSE "using")

Data(c) == [type |-> "data", conn |-> c]
Fin(c) == [type |-> "finalize", conn |-> c]
FinsIn(q) == {q[i].conn : i \in {j \in 1..Len(q) : q[j].type = "finalize"}}

(* Mutant of Held: the worker keeps a plain pointer. *)
Held_plain(state, hold, queue, buf) ==
  (UNION {{state[n]} \cup FinsIn(queue[n]) : n \in Fds}) \cup
  {hold[t] : t \in Callers} \cup (UNION {FinsIn(buf[t]) : t \in Threads})

(* The handlers that some shared pointer refers to. *)
Held(state, hold, queue, buf) ==
  (UNION {{state[n]} \cup FinsIn(queue[n]) : n \in Fds}) \cup
  (UNION {{hold[t]} \cup FinsIn(buf[t]) : t \in Threads})

(* ~handler: the descriptors of handlers that nobody holds are closed, and *)
(* epoll forgets them.                                                     *)
Refer(state, hold, queue, buf) ==
  LET closed == {n \in Fds : /\ file[n] # None
                             /\ file[n] \notin Held(state, hold, queue, buf) \cup leaked'} IN
  /\ m_state' = state /\ h' = hold /\ m_fdctx' = queue /\ xfbuf' = buf
  /\ file' = [n \in Fds |-> IF n \in closed THEN None ELSE file[n]]
  /\ m_kernel' = [n \in Fds |-> IF n \in closed THEN "none" ELSE m_kernel[n]]
  /\ out_kernel' = [n \in Fds |-> IF n \in closed THEN "none" ELSE out_kernel[n]]

-----------------------------------------------------------------------------
(* A thread gets a connection and adds its handler.                        *)

(* accept returns a free number; the handler is made. *)
Accept(t, c) ==
  /\ pc[t] = "idle" /\ conn[c] = "new"
  /\ \A d \in Conns : d < c => conn[d] # "new"
  /\ \E n \in Fds :
       /\ file[n] = None
       /\ file' = [file EXCEPT ![n] = c]
       /\ ident' = [ident EXCEPT ![t] = n]
  /\ h' = [h EXCEPT ![t] = c]
  /\ conn' = [conn EXCEPT ![c] = "up"]
  /\ At(t, "set_handler")
  /\ UNCHANGED <<m_state, m_fdctx, xfbuf, m_kernel, out_kernel, eventVars, owner,
                 sockVars, leaked, countVars>>

(* Mutant of add_handler: add_fd before set_handler. *)
add_handler_late(t) ==
  /\ \/ /\ pc[t] = "set_handler"
        /\ m_kernel' = add_fd(m_kernel, ident[t])
        /\ At(t, "add_fd")
        /\ UNCHANGED <<file, m_state, h, m_fdctx, xfbuf, out_kernel, leaked>>
     \/ /\ pc[t] = "add_fd"
        /\ UNCHANGED leaked
        /\ Refer([m_state EXCEPT ![ident[t]] = h[t]], h, m_fdctx, xfbuf)
        /\ At(t, "using")
  /\ UNCHANGED <<eventVars, owner, ident, conn, sockVars, countVars>>

(* add_handler: set_handler, then add_fd. *)
add_handler(t) ==
  /\ \/ /\ pc[t] = "set_handler"
        /\ UNCHANGED leaked
        /\ Refer([m_state EXCEPT ![ident[t]] = h[t]], h, m_fdctx, xfbuf)
        /\ At(t, "add_fd")
     \/ /\ pc[t] = "add_fd"
        /\ m_kernel' = add_fd(m_kernel, ident[t])
        /\ At(t, "using")
        /\ UNCHANGED <<file, m_state, h, m_fdctx, xfbuf, out_kernel, leaked>>
  /\ UNCHANGED <<eventVars, owner, ident, conn, sockVars, countVars>>

(* remove_handler: reset_handler, then remove_fd, by number.  The caller   *)
(* still has the pointer add_handler gave it.                              *)
remove_handler(t) ==
  /\ pc[t] = "using" /\ outside' = TRUE
  /\ UNCHANGED leaked
  /\ Refer([m_state EXCEPT ![ident[t]] = None], h, m_fdctx, xfbuf)
  /\ conn' = [conn EXCEPT ![h[t]] = "removed"]
  /\ At(t, "remove_fd")
  /\ UNCHANGED <<eventVars, owner, ident, sockVars, work, bare>>

RemoveFd(t) ==
  /\ pc[t] = "remove_fd"
  /\ m_kernel' = remove(m_kernel, ident[t])
  /\ At(t, "drop")
  /\ UNCHANGED <<file, m_state, h, m_fdctx, xfbuf, out_kernel, eventVars, owner,
                 ident, conn, sockVars, leaked, countVars>>

(* The thread lets its shared pointer go. *)
Drop(t) ==
  /\ pc[t] \in {"using", "drop"}
  /\ UNCHANGED leaked
  /\ Refer(m_state, [h EXCEPT ![t] = None], m_fdctx, xfbuf)
  /\ At(t, "idle") /\ ident' = [ident EXCEPT ![t] = None]
  /\ UNCHANGED <<eventVars, owner, conn, sockVars, countVars>>

-----------------------------------------------------------------------------
(* The write path.  Bytes go to whatever has the number.                   *)

(* The bytes are two elements: the socket may fill up between them.  The   *)
(* finalizer holds the handler, or there is none that does.                *)
Request(c, held) ==
  IF held THEN <<Data(c), Data(c), Fin(c)>> ELSE <<Data(c), Data(c)>>

(* commit and commit_raw: append to a nonempty queue, or write directly. *)
commit(t, held) ==
  LET n == ident[t] IN
  /\ pc[t] \in {"callback", "using"} /\ owner[n] = None
  /\ Spend(IF held THEN 1 ELSE 2) /\ bare' = (bare \/ ~held)
  /\ IF m_fdctx[n] # <<>>
     THEN /\ m_fdctx' = [m_fdctx EXCEPT ![n] = @ \o Request(h[t], held)]
          /\ UNCHANGED <<xfbuf, owner, pc>>
     ELSE /\ xfbuf' = [xfbuf EXCEPT ![t] = Request(h[t], held)]
          /\ owner' = [owner EXCEPT ![n] = t]
          /\ At(t, "execute") /\ UNCHANGED m_fdctx
  /\ UNCHANGED <<file, m_state, h, m_kernel, out_kernel, eventVars, ident, conn,
                 sockVars, leaked>>

(* The socket under number n takes the bytes of e, after which its buffer  *)
(* is full until the peer reads.                                           *)
Takes(n, e) ==
  /\ file[n] # None /\ ~full[file[n]] /\ ~broken[file[n]]
  /\ got' = [got EXCEPT ![file[n]] = @ \cup {e.conn}]
  /\ full' = [full EXCEPT ![file[n]] = TRUE]
  /\ UNCHANGED <<ready, broken>>

WouldBlock(n) == file[n] # None /\ full[file[n]] /\ ~broken[file[n]]

(* The write fails: the connection was reset, or nothing has the number.   *)
Fails(n) == file[n] # None => broken[file[n]]

(* shutdown(fd, SHUT_RD): the socket becomes readable. *)
Shutdown(n) ==
  /\ ready' = [c \in Conns |-> ready[c] \/ file[n] = c]
  /\ UNCHANGED <<full, broken, got>>

(* One turn of execute on the caller's buffer or on the queue: the head is *)
(* written, or is a finalizer, which drops its reference.                  *)
Advances(n, q) ==
  /\ q # <<>>
  /\ \/ Head(q).type = "data" /\ Takes(n, Head(q))
     \/ Head(q).type = "finalize" /\ UNCHANGED sockVars

Execute(t) ==
  /\ pc[t] = "execute" /\ Advances(ident[t], xfbuf[t])
  /\ UNCHANGED leaked
  /\ Refer(m_state, h, m_fdctx, [xfbuf EXCEPT ![t] = Tail(@)])
  /\ UNCHANGED <<eventVars, owner, pc, ident, conn, countVars>>

ExecuteDone(t) ==
  /\ pc[t] = "execute" /\ xfbuf[t] = <<>>
  /\ owner' = [owner EXCEPT ![ident[t]] = None] /\ Back(t)
  /\ UNCHANGED <<fileVars, eventVars, ident, conn, sockVars, leaked, countVars>>

(* The rest is queued and watched. *)
ExecuteBlocks(t) ==
  LET n == ident[t] IN
  /\ pc[t] = "execute" /\ xfbuf[t] # <<>> /\ Head(xfbuf[t]).type = "data"
  /\ WouldBlock(n)
  /\ m_fdctx' = [m_fdctx EXCEPT ![n] = xfbuf[t]]
  /\ xfbuf' = [xfbuf EXCEPT ![t] = <<>>]
  /\ At(t, "watch")
  /\ UNCHANGED <<file, m_state, h, m_kernel, out_kernel, eventVars, owner, ident,
                 conn, sockVars, leaked, countVars>>

watch(t) ==
  /\ pc[t] = "watch"
  /\ out_kernel' = add_fd(out_kernel, ident[t])
  /\ owner' = [owner EXCEPT ![ident[t]] = None] /\ Back(t)
  /\ UNCHANGED <<file, m_state, h, m_fdctx, xfbuf, m_kernel, eventVars, ident, conn,
                 sockVars, leaked, countVars>>

(* commit shuts the reading side down, and its caller's xfer runs the      *)
(* finalizer; commit_raw does neither: the reference is lost.              *)
ExecuteFails(t) ==
  LET n == ident[t] IN
  /\ pc[t] = "execute" /\ xfbuf[t] # <<>> /\ Head(xfbuf[t]).type = "data"
  /\ Fails(n)
  /\ \/ Shutdown(n) /\ UNCHANGED leaked
     \/ leaked' = leaked \cup FinsIn(xfbuf[t]) /\ UNCHANGED sockVars
  /\ Refer(m_state, h, m_fdctx, [xfbuf EXCEPT ![t] = <<>>])
  /\ owner' = [owner EXCEPT ![n] = None] /\ Back(t)
  /\ UNCHANGED <<eventVars, ident, conn, countVars>>

(* write of bytes alone: one call of ::write, after which what it did not  *)
(* take is queued and watched.  EINTR and EAGAIN take nothing.             *)
write(t) ==
  LET n == ident[t]
      Rest(r) == /\ m_fdctx' = [m_fdctx EXCEPT ![n] = @ \o r]
                 /\ IF m_fdctx[n] # <<>> THEN UNCHANGED <<owner, pc>>
                    ELSE owner' = [owner EXCEPT ![n] = t] /\ At(t, "watch") IN
  /\ pc[t] \in {"callback", "using"} /\ owner[n] = None
  /\ Spend(2) /\ bare' = TRUE
  /\ \/ (m_fdctx[n] # <<>> \/ ~Fails(n)) /\ Rest(Request(h[t], FALSE)) /\ UNCHANGED sockVars
     \/ /\ m_fdctx[n] = <<>> /\ Takes(n, Data(h[t]))
        /\ \/ UNCHANGED <<m_fdctx, owner, pc>>
           \/ Rest(<<Data(h[t])>>)
     \/ /\ m_fdctx[n] = <<>> /\ Fails(n) /\ Shutdown(n)
        /\ UNCHANGED <<m_fdctx, owner, pc>>
  /\ UNCHANGED <<file, m_state, h, xfbuf, m_kernel, out_kernel, eventVars, ident, conn,
                 leaked>>

-----------------------------------------------------------------------------
(* A worker with a write event (write_event).                              *)

ReportOut(n) ==
  /\ out_kernel[n] = "armed" /\ file[n] # None /\ ~WouldBlock(n)
  /\ out_kernel' = wait(out_kernel, <<n>>)
  /\ out_queue' = [out_queue EXCEPT ![n] = @ + 1]
  /\ UNCHANGED <<file, m_state, h, m_fdctx, xfbuf, m_kernel, events, owner, pc, ident,
                 conn, sockVars, leaked, countVars>>

write_event(w) ==
  /\ pc[w] = "idle"
  /\ \E n \in Fds :
       /\ out_queue[n] > 0 /\ owner[n] = None
       /\ out_queue' = [out_queue EXCEPT ![n] = @ - 1]
       /\ owner' = [owner EXCEPT ![n] = w] /\ ident' = [ident EXCEPT ![w] = n]
  /\ At(w, "try_write")
  /\ UNCHANGED <<fileVars, events, conn, sockVars, leaked, countVars>>

TryWrite(w) ==
  /\ pc[w] = "try_write" /\ Advances(ident[w], m_fdctx[ident[w]])
  /\ UNCHANGED leaked
  /\ Refer(m_state, h, [m_fdctx EXCEPT ![ident[w]] = Tail(@)], xfbuf)
  /\ UNCHANGED <<eventVars, owner, pc, ident, conn, countVars>>

(* Mutant of TryWriteReturns: an error is taken for EAGAIN. *)
TryWriteReturns_again(w) ==
  LET n == ident[w] IN
  /\ pc[w] = "try_write"
  /\ \/ m_fdctx[n] = <<>> /\ At(w, "out_remove")
     \/ /\ m_fdctx[n] # <<>> /\ Head(m_fdctx[n]).type = "data"
        /\ WouldBlock(n) \/ Fails(n)
        /\ At(w, "out_reactivate")
  /\ UNCHANGED <<fileVars, eventVars, owner, ident, conn, sockVars, leaked, countVars>>

(* execute returns: the socket is full, there is nothing left, or the      *)
(* write failed.                                                           *)
TryWriteReturns(w) ==
  LET n == ident[w] IN
  /\ pc[w] = "try_write"
  /\ \/ m_fdctx[n] = <<>> /\ At(w, "out_remove") /\ UNCHANGED sockVars
     \/ /\ m_fdctx[n] # <<>> /\ Head(m_fdctx[n]).type = "data"
        /\ \/ WouldBlock(n) /\ At(w, "out_reactivate") /\ UNCHANGED sockVars
           \/ Fails(n) /\ At(w, "out_remove") /\ Shutdown(n)
  /\ UNCHANGED <<fileVars, eventVars, owner, ident, conn, leaked, countVars>>

OutReactivate(w) ==
  /\ pc[w] = "out_reactivate"
  /\ out_kernel' = reactivate(out_kernel, ident[w])
  /\ owner' = [owner EXCEPT ![ident[w]] = None]
  /\ At(w, "idle") /\ ident' = [ident EXCEPT ![w] = None]
  /\ UNCHANGED <<file, m_state, h, m_fdctx, xfbuf, m_kernel, eventVars, conn, sockVars,
                 leaked, countVars>>

OutRemove(w) ==
  /\ pc[w] = "out_remove"
  /\ out_kernel' = remove(out_kernel, ident[w])
  /\ At(w, "clear")
  /\ UNCHANGED <<file, m_state, h, m_fdctx, xfbuf, m_kernel, eventVars, owner, ident,
                 conn, sockVars, leaked, countVars>>

(* Mutant of clear: what is left stays in the queue. *)
clear_not(w) ==
  /\ pc[w] = "clear"
  /\ owner' = [owner EXCEPT ![ident[w]] = None]
  /\ At(w, "idle") /\ ident' = [ident EXCEPT ![w] = None]
  /\ UNCHANGED <<fileVars, eventVars, conn, sockVars, leaked, countVars>>

(* clear runs the finalizers of what is left; then the mutex is released. *)
clear(w) ==
  LET n == ident[w] IN
  /\ pc[w] = "clear"
  /\ UNCHANGED leaked
  /\ IF m_fdctx[n] # <<>>
     THEN /\ Refer(m_state, h, [m_fdctx EXCEPT ![n] = Tail(@)], xfbuf)
          /\ UNCHANGED <<owner, pc, ident>>
     ELSE /\ owner' = [owner EXCEPT ![n] = None]
          /\ At(w, "idle") /\ ident' = [ident EXCEPT ![w] = None]
          /\ UNCHANGED fileVars
  /\ UNCHANGED <<eventVars, conn, sockVars, countVars>>

-----------------------------------------------------------------------------
(* A worker with a read event (thread_main, process_handler).              *)

Report(n) ==
  /\ m_kernel[n] = "armed" /\ file[n] # None
  /\ ready[file[n]] \/ broken[file[n]]
  /\ m_kernel' = wait(m_kernel, <<n>>)
  /\ events' = [events EXCEPT ![n] = @ + 1]
  /\ UNCHANGED <<file, m_state, h, m_fdctx, xfbuf, out_kernel, out_queue, owner, pc,
                 ident, conn, sockVars, leaked, countVars>>

(* h = m_state[ident]: the handler reads its input, or there is none. *)
Dispatch(w) ==
  /\ pc[w] = "idle"
  /\ \E n \in Fds :
       /\ events[n] > 0 /\ events' = [events EXCEPT ![n] = @ - 1]
       /\ ident' = [ident EXCEPT ![w] = n]
       /\ h' = [h EXCEPT ![w] = m_state[n]]
       /\ ready' = [c \in Conns |-> ready[c] /\ c # m_state[n]]
       /\ At(w, IF m_state[n] = None THEN "remove" ELSE "callback")
  /\ UNCHANGED <<file, m_state, m_fdctx, xfbuf, m_kernel, out_kernel, out_queue, owner,
                 conn, full, broken, got, leaked, countVars>>

(* on_read returns, or throws: always, when the connection was reset. *)
CallbackReturns(w) ==
  /\ pc[w] = "callback"
  /\ \/ ~broken[h[w]] /\ At(w, "reactivate") /\ UNCHANGED conn
     \/ At(w, "remove") /\ conn' = [conn EXCEPT ![h[w]] = "removed"]
  /\ UNCHANGED <<fileVars, eventVars, owner, ident, sockVars, leaked, countVars>>

Reactivate(w) ==
  /\ pc[w] = "reactivate"
  /\ m_kernel' = reactivate(m_kernel, ident[w])
  /\ At(w, "drop")
  /\ UNCHANGED <<file, m_state, h, m_fdctx, xfbuf, out_kernel, eventVars, owner, ident,
                 conn, sockVars, leaked, countVars>>

Remove(w) ==
  /\ pc[w] = "remove"
  /\ m_kernel' = remove(m_kernel, ident[w])
  /\ At(w, "reset")
  /\ UNCHANGED <<file, m_state, h, m_fdctx, xfbuf, out_kernel, eventVars, owner, ident,
                 conn, sockVars, leaked, countVars>>

reset_handler(w) ==
  /\ pc[w] = "reset"
  /\ UNCHANGED leaked
  /\ Refer([m_state EXCEPT ![ident[w]] = None], h, m_fdctx, xfbuf)
  /\ At(w, "drop")
  /\ UNCHANGED <<eventVars, owner, ident, conn, sockVars, countVars>>

-----------------------------------------------------------------------------
(* The peers, and the whole system.                                        *)

Arrive(c) ==
  /\ conn[c] = "up" /\ ~ready[c] /\ Spend(1) /\ UNCHANGED bare
  /\ ready' = [ready EXCEPT ![c] = TRUE]
  /\ UNCHANGED <<fileVars, eventVars, owner, pc, ident, conn, full, broken, got, leaked>>

Drain(c) ==
  /\ full[c] /\ full' = [full EXCEPT ![c] = FALSE]
  /\ UNCHANGED <<fileVars, eventVars, owner, pc, ident, conn, ready, broken, got, leaked,
                 countVars>>

PeerReset(c) ==
  /\ conn[c] # "new" /\ ~broken[c]
  /\ broken' = [broken EXCEPT ![c] = TRUE]
  /\ UNCHANGED <<fileVars, eventVars, owner, pc, ident, conn, ready, full, got, leaked,
                 countVars>>

(* Nothing is under way; what a bare write left behind stays. *)
Quiescent ==
  /\ \A t \in Threads : pc[t] = "idle"
  /\ \A n \in Fds : events[n] = 0 /\ out_queue[n] = 0 /\ (bare \/ m_fdctx[n] = <<>>)
  /\ UNCHANGED vars

Init ==
  /\ file = [n \in Fds |-> None] /\ m_state = [n \in Fds |-> None]
  /\ m_kernel = [n \in Fds |-> "none"] /\ out_kernel = [n \in Fds |-> "none"]
  /\ events = [n \in Fds |-> 0] /\ out_queue = [n \in Fds |-> 0]
  /\ m_fdctx = [n \in Fds |-> <<>>] /\ owner = [n \in Fds |-> None]
  /\ pc = [t \in Threads |-> "idle"] /\ ident = [t \in Threads |-> None]
  /\ h = [t \in Threads |-> None] /\ xfbuf = [t \in Threads |-> <<>>]
  /\ conn = [c \in Conns |-> "new"]
  /\ ready = [c \in Conns |-> FALSE] /\ full = [c \in Conns |-> FALSE]
  /\ broken = [c \in Conns |-> FALSE] /\ got = [c \in Conns |-> {}]
  /\ leaked = {}
  /\ work = 0 /\ outside = FALSE /\ bare = FALSE

(* What every thread that holds a handler may do. *)
WriteStep(t) ==
  Execute(t) \/ ExecuteDone(t) \/ ExecuteBlocks(t) \/ ExecuteFails(t) \/ watch(t)

CallerStep(t) ==
  add_handler(t) \/ RemoveFd(t) \/ Drop(t) \/ WriteStep(t)

WorkerStep(w) ==
  \/ Dispatch(w) \/ CallbackReturns(w) \/ Reactivate(w) \/ Remove(w)
  \/ reset_handler(w) \/ Drop(w) \/ WriteStep(w)
  \/ write_event(w) \/ TryWrite(w) \/ TryWriteReturns(w) \/ OutReactivate(w)
  \/ OutRemove(w) \/ clear(w)

Next ==
  \/ \E t \in Callers : CallerStep(t) \/ remove_handler(t) \/ \E c \in Conns : Accept(t, c)
  \/ \E w \in Workers : WorkerStep(w)
  \/ \E t \in Threads : write(t) \/ \E held \in BOOLEAN : commit(t, held)
  \/ \E n \in Fds : Report(n) \/ ReportOut(n)
  \/ \E c \in Conns : Arrive(c) \/ Drain(c) \/ PeerReset(c)
  \/ Quiescent

Spec == Init /\ [][Next]_vars

(* Threads go on, callers let their pointers go in the end, the loop       *)
(* polls, and peers read.                                                  *)
Fairness ==
  /\ \A t \in Callers : WF_vars(CallerStep(t))
  /\ \A w \in Workers : WF_vars(WorkerStep(w))
  /\ \A n \in Fds : WF_vars(Report(n)) /\ WF_vars(ReportOut(n))
  /\ \A c \in Conns : WF_vars(Drain(c))

LiveSpec == Spec /\ Fairness

-----------------------------------------------------------------------------
(* Properties.                                                             *)

(* As long as every write has a finalizer that holds its handler, the      *)
(* bytes that reach a connection were written for that connection: no      *)
(* queue, event or thread outlives the number it was made for.             *)
RightPeer == ~bare => \A c \in Conns : got[c] \subseteq {c}

(* Under the same premise, what is queued under a number belongs to the    *)
(* connection that has the number now, and is watched when nobody holds    *)
(* the queue's mutex: a connection that is closed leaves no queue behind   *)
(* for the next one.  The write of bytes alone keeps no reference, and     *)
(* does leave one behind.                                                  *)
QueueCurrent ==
  ~bare => \A n \in Fds :
    /\ \A i \in 1..Len(m_fdctx[n]) : m_fdctx[n][i].conn = file[n]
    /\ owner[n] = None => (m_fdctx[n] # <<>> <=> out_kernel[n] # "none")

Adding(c) == \E t \in Callers : h[t] = c /\ pc[t] \in {"set_handler", "add_fd"}

(* As long as handlers are only removed by themselves, one that was added  *)
(* and not removed stays set and registered under its own number, whoever  *)
(* had the number before.  After remove_handler from outside this fails: a *)
(* worker that finds no handler for an old event removes the next one's.   *)
HandlerKept ==
  ~outside => \A c \in Conns : conn[c] = "up" /\ ~Adding(c) =>
    \E n \in Fds : file[n] = c /\ m_state[n] = c /\ m_kernel[n] # "none"

(* A connection that was reset or removed is closed in the end, after its  *)
(* queue was written or discarded, unless commit_raw lost a reference, or  *)
(* a bare write left a queue behind that nobody watches.                   *)
ClosedInTheEnd ==
  \A c \in Conns : broken[c] \/ conn[c] = "removed" ~>
    bare \/ c \in leaked \/ \A n \in Fds : file[n] # c

-----------------------------------------------------------------------------
(* The inductive invariant behind these properties.                        *)

HandlerPCs == {"callback", "execute", "watch", "reactivate", "remove", "reset"}
OutPCs == {"try_write", "out_reactivate", "out_remove", "clear"}
AddPCs == {"set_handler", "add_fd"}
LockedPCs == {"execute", "watch"} \cup OutPCs
CallerPCs == {"idle", "using", "remove_fd", "drop", "execute", "watch"} \cup AddPCs
WorkerPCs == {"idle", "drop"} \cup HandlerPCs \cup OutPCs
Element == [type : {"data", "finalize"}, conn : Conns]

TypeOK ==
  /\ file \in [Fds -> Conns \cup {None}] /\ m_state \in [Fds -> Conns \cup {None}]
  /\ m_kernel \in [Fds -> Interest] /\ out_kernel \in [Fds -> Interest]
  /\ events \in [Fds -> Nat] /\ out_queue \in [Fds -> Nat]
  /\ m_fdctx \in [Fds -> Seq(Element)] /\ owner \in [Fds -> Threads \cup {None}]
  /\ pc \in [Threads -> CallerPCs \cup WorkerPCs] /\ ident \in [Threads -> Fds \cup {None}]
  /\ h \in [Threads -> Conns \cup {None}] /\ xfbuf \in [Threads -> Seq(Element)]
  /\ conn \in [Conns -> {"new", "up", "removed"}] /\ ready \in [Conns -> BOOLEAN]
  /\ full \in [Conns -> BOOLEAN] /\ broken \in [Conns -> BOOLEAN]
  /\ got \in [Conns -> SUBSET Conns] /\ leaked \subseteq Conns
  /\ work \in Nat /\ outside \in BOOLEAN /\ bare \in BOOLEAN

(* Who is inside which call, and who holds a handler there. *)
CallsOK ==
  /\ \A t \in Callers : pc[t] \in CallerPCs /\ (pc[t] = "remove_fd" => outside)
  /\ \A w \in Workers : pc[w] \in WorkerPCs
  /\ \A t \in Threads :
       /\ pc[t] # "idle" => ident[t] \in Fds
       /\ pc[t] \in AddPCs \cup {"using", "remove_fd", "callback", "execute", "watch",
                              "reactivate"} => h[t] # None
       /\ pc[t] \in {"idle"} \cup OutPCs => h[t] = None
       /\ xfbuf[t] # <<>> => pc[t] = "execute"

(* A number that m_state or a thread has a handler for is that handler's;  *)
(* a caller's connection is its own.                                       *)
HeldOK ==
  /\ \A n \in Fds :
       /\ file[n] # None => conn[file[n]] # "new"
       /\ file[n] = None => m_kernel[n] = "none" /\ out_kernel[n] = "none"
       /\ m_state[n] # None => file[n] = m_state[n]
  /\ \A t \in Threads : h[t] # None => file[ident[t]] = h[t]
  /\ \A t, u \in Callers : t # u /\ h[t] # None => h[t] # h[u]

(* What is left of a write is for one connection, and ends with the        *)
(* finalizer that holds it: a number with a queue is not closed.           *)
IsWrite(q, c) ==
  /\ \A i \in 1..Len(q) : q[i].conn = c
  /\ q # <<>> => c # None /\ q[Len(q)].type = "finalize"
BuffersOK ==
  /\ \A n \in Fds : IsWrite(m_fdctx[n], file[n])
  /\ \A t \in Threads : IsWrite(xfbuf[t], h[t])

(* The mutex of a queue, and what its holder knows of the queue. *)
LocksOK ==
  /\ \A n \in Fds : owner[n] # None => pc[owner[n]] \in LockedPCs /\ ident[owner[n]] = n
  /\ \A t \in Threads : pc[t] \in LockedPCs => owner[ident[t]] = t
WatchOK ==
  /\ \A n \in Fds : owner[n] = None => (m_fdctx[n] # <<>> <=> out_kernel[n] # "none")
  /\ \A t \in Threads :
       /\ pc[t] = "execute" => m_fdctx[ident[t]] = <<>>
       /\ pc[t] \in {"watch", "out_reactivate"} => m_fdctx[ident[t]] # <<>>
       /\ pc[t] \in {"execute", "watch", "clear"} => out_kernel[ident[t]] = "none"
       /\ pc[t] \in {"try_write", "out_reactivate"} =>
            (m_fdctx[ident[t]] # <<>> => out_kernel[ident[t]] # "none")

(* Unless a handler is removed from outside, a number has one event or one *)
(* worker in its handler while it is disarmed, and neither otherwise.      *)
EventsOK ==
  ~outside =>
    /\ \A n \in Fds :
         /\ m_kernel[n] # "none" => m_state[n] # None
         /\ events[n] > 0 => events[n] = 1 /\ m_kernel[n] = "fired"
    /\ \A w \in Workers : pc[w] \in HandlerPCs =>
         /\ h[w] # None /\ m_state[ident[w]] = h[w] /\ events[ident[w]] = 0
         /\ m_kernel[ident[w]] = IF pc[w] = "reset" THEN "none" ELSE "fired"
         /\ pc[w] \in {"remove", "reset"} => conn[h[w]] = "removed"
         /\ \A v \in Workers \ {w} : pc[v] \in HandlerPCs => ident[v] # ident[w]
    /\ \A t \in Callers : pc[t] \in AddPCs =>
         /\ m_kernel[ident[t]] = "none"
         /\ m_state[ident[t]] = IF pc[t] = "add_fd" THEN h[t] ELSE None
         /\ \A w \in Workers : pc[w] \in HandlerPCs => ident[w] # ident[t]

ConnInv ==
  /\ TypeOK /\ CallsOK /\ HeldOK /\ LocksOK /\ EventsOK
  /\ ~bare => BuffersOK /\ WatchOK
  /\ RightPeer /\ HandlerKept

=============================================================================
