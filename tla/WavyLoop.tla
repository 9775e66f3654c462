------------------------------ MODULE WavyLoop ------------------------------
(***************************************************************************)
(* The worker pool of the event loop: loop_impl (mpsrc/wavy_loop.cc).      *)
(*                                                                         *)
(* Workers run thread_main.  One of them at a time waits for events        *)
(* (m_pollable is false meanwhile); the others serve queued writes and     *)
(* tasks or sleep on m_cond.  When the poller gets a batch of one-shot     *)
(* events it takes the first, gives the poller's role up, wakes one        *)
(* sleeper, and runs the handler; the rest of the batch stays in m_backlog *)
(* for whoever comes next.                                                 *)
(*                                                                         *)
(* A loop without workers is driven by a caller: run_once, run_nonblock    *)
(* and flush make one turn of almost the same code in the caller's thread. *)
(*                                                                         *)
(* A step is one critical section of m_mutex, one call to the kernel, one  *)
(* unlocked access to shared state or one call made by a handler.  The     *)
(* write path (WavyOut) is reduced to what the loop sees of it: out's      *)
(* interest list, its queue of events and m_watching.                      *)
(***************************************************************************)
EXTENDS WavyKernel

CONSTANTS
  Fds,          \* descriptors with read handlers
  OutFds,       \* descriptors written to, watched by out's own kernel
  OutIdent,     \* the descriptor of out's epoll instance
  Workers,      \* threads of the pool
  Callers,      \* other threads that use the loop
  TaskLimit,    \* MP_WAVY_TASK_QUEUE_LIMIT
  BacklogSize,  \* MP_WAVY_KERNEL_BACKLOG_SIZE
  MaxWork,      \* bound: arrivals, tasks, writes, calls of event::more
  Mixing,       \* values of mixed that are considered
  None

ASSUME LoopAssumption ==
  /\ Workers \cap Callers = {} /\ None \notin Workers \cup Callers
  /\ OutIdent \notin Fds \cup {None} /\ None \notin Fds \cup OutFds
  /\ IsFiniteSet(Fds) /\ IsFiniteSet(OutFds)
  /\ TaskLimit \in Nat /\ BacklogSize \in Nat \ {0} /\ MaxWork \in Nat
  /\ Mixing \subseteq BOOLEAN

VARIABLES
  m_mutex,       \* thread inside the first critical section of a turn
  m_cond,        \* threads asleep on m_cond
  m_flush_cond,  \* callers asleep on m_flush_cond
  m_pollable, m_off, m_num, m_backlog,
  m_more_queue,
  m_task_queue,  \* its length
  m_end_flag,
  m_workers,     \* the threads start() created
  m_kernel,      \* interest list of the loop's epoll instance
  m_state,       \* descriptors with a handler
  ready,         \* descriptors with input
  out_kernel, out_queue, m_watching, writable,
  pc, ev,        \* per thread: next step, descriptor of the event or call
  flags,         \* per thread: FLAG_REACTIVATED, FLAG_REMOVED of its event
  last,          \* per thread: do_task took the last task
  released,      \* descriptors some caller or handler gave up
  flushing,      \* callers inside flush()
  mixed,         \* the program calls run_once while workers run
  work           \* counts what MaxWork bounds

mutexVars == <<m_mutex, m_cond, m_flush_cond>>
pollVars == <<m_pollable, m_off, m_num, m_backlog>>
queueVars == <<m_more_queue, m_task_queue>>
lifeVars == <<m_end_flag, m_workers>>
handlerVars == <<m_state, ready, released>>
fdVars == <<m_kernel, handlerVars>>
outVars == <<out_kernel, out_queue, m_watching, writable>>
threadVars == <<ev, flags, last>>
coreVars == <<pollVars, queueVars, lifeVars>>
restVars == <<flushing, mixed, work>>
poolVars == <<mutexVars, coreVars, outVars>>
vars == <<poolVars, fdVars, pc, threadVars, restVars>>

Threads == Workers \cup Callers
At(t, step) == pc' = [pc EXCEPT ![t] = step]
Spend ==
  work < MaxWork /\ work' = work + 1 /\ UNCHANGED <<flushing, mixed>>

(* The end of a turn: thread_main starts over, run_once returns, to its    *)
(* caller or to flush.                                                     *)
Again(t) ==
  At(t, IF t \in Workers THEN "retry" ELSE IF t \in flushing THEN "flush" ELSE "idle")

(* pthread_cond_signal wakes one sleeper, if there is one. *)
Signal(cond) == IF cond = {} THEN {cond} ELSE {cond \ {t} : t \in cond}
Broadcast(cond) == {}

-----------------------------------------------------------------------------
(* thread_main.                                                            *)

(* lk, retry_task: the end flag is read first. *)
Lock(t) ==
  /\ pc[t] = "retry" /\ t \notin m_cond /\ m_mutex = None
  /\ IF m_end_flag THEN At(t, "exited") /\ UNCHANGED m_mutex
     ELSE At(t, "locked") /\ m_mutex' = t
  /\ UNCHANGED <<coreVars, fdVars, outVars, threadVars, m_cond, m_flush_cond,
                 restVars>>

(* process_handler: an event of out's epoll instance moves what that       *)
(* reports to out's queue, still under m_mutex; any other is dispatched.   *)
Process(t, ident) ==
  /\ ev' = [ev EXCEPT ![t] = ident]
  /\ flags' = [flags EXCEPT ![t] = {}]
  /\ IF ident = OutIdent
     THEN /\ At(t, "reactivate_out")
          /\ LET batches == Batches(out_kernel, writable, BacklogSize) IN
             IF batches = {} THEN UNCHANGED <<out_kernel, out_queue>>
             ELSE \E batch \in batches :
                    /\ out_kernel' = wait(out_kernel, batch)
                    /\ out_queue' = out_queue \o batch
     ELSE At(t, "dispatch") /\ UNCHANGED <<out_kernel, out_queue>>
  /\ UNCHANGED <<m_watching, writable, last>>

TakeMore(t) ==
  /\ pc[t] = "locked" /\ m_more_queue # <<>>
  /\ m_more_queue' = Tail(m_more_queue)
  /\ Process(t, Head(m_more_queue))
  /\ m_mutex' = None
  /\ UNCHANGED <<fdVars, pollVars, lifeVars, m_cond, m_flush_cond,
                 m_task_queue, restVars>>

(* Mutant of MayDoTask: run_once has the limit of thread_main. *)
MayDoTask_limited(t) ==
  \/ ~m_pollable /\ out_queue = <<>> /\ m_task_queue > 0
  \/ m_pollable /\ m_task_queue > TaskLimit

(* The guards that choose what a thread does.  Beside the poller, queued   *)
(* writes come first.  As a poller, a worker leaves them to the others,    *)
(* and tasks up to a limit too; run_once does tasks first, then writes.    *)
MayDoOut(t) ==
  /\ out_queue # <<>>
  /\ ~m_pollable \/ (t \notin Workers /\ m_task_queue = 0)

MayDoTask(t) ==
  \/ ~m_pollable /\ out_queue = <<>> /\ m_task_queue > 0
  \/ m_pollable /\ m_task_queue > (IF t \in Workers THEN TaskLimit ELSE 0)

MaySleep == ~m_pollable /\ out_queue = <<>> /\ m_task_queue = 0

MayTakeEvent(t) ==
  m_pollable /\ IF t \in Workers THEN m_task_queue <= TaskLimit
                ELSE m_task_queue = 0 /\ out_queue = <<>>

do_out(t) ==
  /\ pc[t] = "locked" /\ m_more_queue = <<>> /\ MayDoOut(t)
  /\ out_queue' = Tail(out_queue)
  /\ ev' = [ev EXCEPT ![t] = Head(out_queue)]
  /\ At(t, "write_event") /\ m_mutex' = None
  /\ UNCHANGED <<coreVars, fdVars, m_cond, m_flush_cond, out_kernel,
                 m_watching, writable, flags, last, restVars>>

do_task(t) ==
  /\ pc[t] = "locked" /\ m_more_queue = <<>> /\ MayDoTask(t)
  /\ m_task_queue' = m_task_queue - 1
  /\ last' = [last EXCEPT ![t] = m_task_queue = 1]
  /\ m_cond' \in (IF last'[t] THEN {m_cond} ELSE Signal(m_cond))
  /\ At(t, "task") /\ m_mutex' = None
  /\ UNCHANGED <<fdVars, pollVars, lifeVars, outVars, m_flush_cond,
                 m_more_queue, ev, flags, restVars>>

CondWait(t) ==
  /\ pc[t] = "locked" /\ m_more_queue = <<>> /\ MaySleep
  /\ m_cond' = m_cond \cup {t}
  /\ At(t, IF t \in Workers THEN "retry" ELSE "asleep") /\ m_mutex' = None
  /\ UNCHANGED <<coreVars, fdVars, outVars, threadVars, m_flush_cond, restVars>>

(* Mutant of StartPoll: m_pollable stays true. *)
StartPoll_shared(t) ==
  /\ pc[t] = "locked" /\ m_more_queue = <<>> /\ MayTakeEvent(t) /\ m_num = m_off
  /\ At(t, "poll") /\ m_mutex' = None
  /\ UNCHANGED <<coreVars, fdVars, outVars, threadVars, m_cond, m_flush_cond,
                 restVars>>

StartPoll(t) ==
  /\ pc[t] = "locked" /\ m_more_queue = <<>> /\ MayTakeEvent(t) /\ m_num = m_off
  /\ m_pollable' = FALSE
  /\ At(t, "poll") /\ m_mutex' = None
  /\ UNCHANGED <<fdVars, queueVars, lifeVars, outVars, threadVars, m_cond,
                 m_flush_cond, m_off, m_num, m_backlog, restVars>>

TakeBacklog(t) ==
  /\ pc[t] = "locked" /\ m_more_queue = <<>> /\ MayTakeEvent(t) /\ m_num # m_off
  /\ m_off' = m_off + 1
  /\ Process(t, m_backlog[m_off + 1])
  /\ m_mutex' = None
  /\ UNCHANGED <<fdVars, queueVars, lifeVars, m_cond, m_flush_cond, m_pollable,
                 m_num, m_backlog, restVars>>

(* What the loop's epoll instance sees: out's instance is readable when it *)
(* has something to report itself.                                         *)
Level ==
  ready \cup {i \in {OutIdent} : \E f \in writable : out_kernel[f] = "armed"}

(* retry_poll: epoll_wait writes into m_backlog without m_mutex. *)
PollReturns(t) ==
  /\ pc[t] = "poll"
  /\ \E batch \in Batches(m_kernel, Level, BacklogSize) :
       /\ m_kernel' = wait(m_kernel, batch)
       /\ m_backlog' = batch
  /\ At(t, "polled")
  /\ UNCHANGED <<mutexVars, queueVars, lifeVars, handlerVars, outVars,
                 threadVars, m_pollable, m_off, m_num, restVars>>

(* Timeout or EINTR, with nothing to report: a worker polls again, or      *)
(* leaves the loop after end(); run_once returns.  Both give the role back *)
(* without m_mutex and without waking anybody.                             *)
PollTimesOut(t) ==
  /\ pc[t] = "poll" /\ Batches(m_kernel, Level, BacklogSize) = {}
  /\ \/ t \in Workers /\ m_end_flag /\ m_pollable' = TRUE /\ At(t, "exited")
     \/ t \in Workers /\ ~m_end_flag /\ UNCHANGED <<m_pollable, pc>>
     \/ t \in Callers /\ m_pollable' = TRUE /\ Again(t)
  /\ UNCHANGED <<fdVars, mutexVars, queueVars, lifeVars, outVars, threadVars,
                 m_off, m_num, m_backlog, restVars>>

(* Mutants of Polled: m_off is not advanced past the event taken; nobody   *)
(* is woken.                                                               *)
Polled_again(t) ==
  /\ pc[t] = "polled" /\ m_mutex = None
  /\ m_off' = 0 /\ m_num' = Len(m_backlog)
  /\ m_pollable' = TRUE
  /\ m_cond' \in Signal(m_cond)
  /\ Process(t, m_backlog[1])
  /\ UNCHANGED <<fdVars, queueVars, lifeVars, m_mutex, m_flush_cond, m_backlog,
                 restVars>>

Polled_silently(t) ==
  /\ pc[t] = "polled" /\ m_mutex = None
  /\ m_off' = 1 /\ m_num' = Len(m_backlog)
  /\ m_pollable' = TRUE
  /\ Process(t, m_backlog[1])
  /\ UNCHANGED <<fdVars, mutexVars, queueVars, lifeVars, m_backlog, restVars>>

(* relock: publish the batch, take its first event, wake one sleeper. *)
Polled(t) ==
  /\ pc[t] = "polled" /\ m_mutex = None
  /\ m_off' = 1 /\ m_num' = Len(m_backlog)
  /\ m_pollable' = TRUE
  /\ m_cond' \in Signal(m_cond)
  /\ Process(t, m_backlog[1])
  /\ UNCHANGED <<fdVars, queueVars, lifeVars, m_mutex, m_flush_cond, m_backlog,
                 restVars>>

(* Mutant of ReactivateOut: out's epoll instance is not armed again. *)
ReactivateOut_not(t) ==
  /\ pc[t] = "reactivate_out"
  /\ Again(t) /\ ev' = [ev EXCEPT ![t] = None]
  /\ UNCHANGED <<poolVars, fdVars, flags, last, restVars>>

ReactivateOut(t) ==
  /\ pc[t] = "reactivate_out"
  /\ m_kernel' = reactivate(m_kernel, OutIdent)
  /\ Again(t) /\ ev' = [ev EXCEPT ![t] = None]
  /\ UNCHANGED <<poolVars, handlerVars, flags, last, restVars>>

(* h = m_state[ident], read without a lock; the handler starts by reading  *)
(* the input.                                                              *)
Dispatch(t) ==
  /\ pc[t] = "dispatch"
  /\ IF ev[t] \in m_state
     THEN At(t, "callback") /\ ready' = ready \ {ev[t]}
     ELSE At(t, "remove") /\ UNCHANGED ready
  /\ UNCHANGED <<poolVars, threadVars, m_kernel, m_state, released, restVars>>

-----------------------------------------------------------------------------
(* What a handler does with its event and with the loop.                   *)

SetFlag(t, flag) == flags' = [flags EXCEPT ![t] = @ \cup {flag}]

(* Mutant of event_more: the event is not queued. *)
event_more_lost(t) ==
  /\ pc[t] = "callback" /\ "reactivated" \notin flags[t] /\ m_mutex = None
  /\ m_cond' \in Signal(m_cond)
  /\ SetFlag(t, "reactivated") /\ Spend
  /\ UNCHANGED <<coreVars, fdVars, outVars, m_mutex, m_flush_cond, pc, ev,
                 last>>

event_more(t) ==
  /\ pc[t] = "callback" /\ "reactivated" \notin flags[t] /\ m_mutex = None
  /\ m_more_queue' = Append(m_more_queue, ev[t])
  /\ m_cond' \in Signal(m_cond)
  /\ SetFlag(t, "reactivated") /\ Spend
  /\ UNCHANGED <<fdVars, pollVars, lifeVars, outVars, m_mutex, m_flush_cond,
                 m_task_queue, pc, ev, last>>

event_next(t) ==
  /\ pc[t] = "callback" /\ "reactivated" \notin flags[t]
  /\ m_kernel' = reactivate(m_kernel, ev[t])
  /\ SetFlag(t, "reactivated")
  /\ UNCHANGED <<poolVars, handlerVars, pc, ev, last, restVars>>

(* event_remove: m_kernel.remove, then reset_handler. *)
event_remove(t) ==
  /\ pc[t] = "callback" /\ "removed" \notin flags[t]
  /\ m_kernel' = remove(m_kernel, ev[t])
  /\ SetFlag(t, "removed") /\ At(t, "event_reset")
  /\ released' = released \cup {ev[t]}
  /\ UNCHANGED <<poolVars, m_state, ready, ev, last, restVars>>

(* The handler returns cont, or throws (cont is false). *)
CallbackReturns(t) ==
  /\ pc[t] = "callback"
  /\ \E cont \in BOOLEAN :
       IF flags[t] # {}
       THEN /\ Again(t) /\ ev' = [ev EXCEPT ![t] = None]
            /\ flags' = [flags EXCEPT ![t] = {}]
            /\ UNCHANGED released
       ELSE /\ At(t, IF cont THEN "reactivate" ELSE "remove")
            /\ released' = IF cont THEN released ELSE released \cup {ev[t]}
            /\ UNCHANGED <<ev, flags>>
  /\ UNCHANGED <<poolVars, m_kernel, m_state, ready, last, restVars>>

Reactivate(t) ==
  /\ pc[t] = "reactivate"
  /\ m_kernel' = reactivate(m_kernel, ev[t])
  /\ Again(t) /\ ev' = [ev EXCEPT ![t] = None]
  /\ UNCHANGED <<poolVars, handlerVars, flags, last, restVars>>

Remove(t) ==
  /\ pc[t] = "remove"
  /\ m_kernel' = remove(m_kernel, ev[t])
  /\ At(t, "reset")
  /\ UNCHANGED <<poolVars, handlerVars, threadVars, restVars>>

reset_handler(t) ==
  /\ m_state' = m_state \ {ev[t]}
  /\ \/ pc[t] = "reset" /\ Again(t) /\ ev' = [ev EXCEPT ![t] = None]
     \/ pc[t] = "event_reset" /\ At(t, "callback") /\ UNCHANGED ev
  /\ UNCHANGED <<poolVars, m_kernel, ready, released, flags, last, restVars>>

-----------------------------------------------------------------------------
(* The rest of do_task and do_out.                                         *)

(* Mutant of RunTask: m_flush_cond is never signalled. *)
RunTask_silently(t) ==
  /\ pc[t] = "task" /\ Again(t)
  /\ last' = [last EXCEPT ![t] = FALSE]
  /\ UNCHANGED <<poolVars, fdVars, ev, flags, restVars>>

RunTask(t) ==
  /\ pc[t] = "task"
  /\ IF last[t] THEN At(t, "flush_broadcast") ELSE Again(t)
  /\ last' = [last EXCEPT ![t] = FALSE]
  /\ UNCHANGED <<poolVars, fdVars, ev, flags, restVars>>

(* out::write_event: the socket takes everything (or fails) and the        *)
(* descriptor is no longer watched, or it takes a part.                    *)
write_event(t) ==
  /\ pc[t] = "write_event"
  /\ \/ /\ out_kernel' = remove(out_kernel, ev[t])
        /\ m_watching' = m_watching - 1
        /\ IF m_watching' = 0 THEN At(t, "flush_broadcast") ELSE Again(t)
        /\ UNCHANGED <<writable, restVars>>
     \/ /\ out_kernel' = reactivate(out_kernel, ev[t])
        /\ writable' = writable \ {ev[t]} /\ Spend
        /\ Again(t) /\ UNCHANGED m_watching
  /\ ev' = [ev EXCEPT ![t] = None]
  /\ UNCHANGED <<coreVars, fdVars, mutexVars, out_queue, flags, last>>

FlushBroadcast(t) ==
  /\ pc[t] = "flush_broadcast" /\ m_mutex = None
  /\ m_flush_cond' = Broadcast(m_flush_cond)
  /\ Again(t)
  /\ UNCHANGED <<coreVars, fdVars, outVars, threadVars, m_mutex, m_cond, restVars>>

-----------------------------------------------------------------------------
(* The callers.  Handlers and tasks call submit and write as well; any     *)
(* other call of theirs is that of a caller at the same moment.            *)

Free(t) == pc[t] \in {"idle", "callback", "task"}

(* start: throws when there are workers already. *)
start(c) ==
  /\ pc[c] = "idle" /\ m_mutex = None /\ m_workers = {}
  /\ mixed \/ \A d \in Callers : pc[d] = "idle"
  /\ m_workers' = Workers
  /\ pc' = [t \in Threads |-> IF t \in Workers THEN "retry" ELSE pc[t]]
  /\ UNCHANGED <<fdVars, mutexVars, pollVars, queueVars, outVars, threadVars,
                 m_end_flag, restVars>>

(* Mutant of submit: nobody is woken. *)
submit_silently(t) ==
  /\ Free(t) /\ m_mutex = None /\ Spend
  /\ m_task_queue' = m_task_queue + 1
  /\ UNCHANGED <<fdVars, mutexVars, pollVars, lifeVars, outVars, threadVars,
                 m_more_queue, pc>>

submit(t) ==
  /\ Free(t) /\ m_mutex = None /\ Spend
  /\ m_task_queue' = m_task_queue + 1
  /\ m_cond' \in Signal(m_cond)
  /\ UNCHANGED <<fdVars, pollVars, lifeVars, outVars, threadVars, m_mutex,
                 m_flush_cond, m_more_queue, pc>>

(* Mutant of end: the broadcast comes before the flag. *)
end_late(c) ==
  /\ \/ /\ pc[c] = "idle" /\ ~m_end_flag /\ m_mutex = None
        /\ m_cond' = Broadcast(m_cond)
        /\ At(c, "end") /\ UNCHANGED m_end_flag
     \/ /\ pc[c] = "end"
        /\ m_end_flag' = TRUE
        /\ At(c, "idle") /\ UNCHANGED m_cond
  /\ UNCHANGED <<fdVars, pollVars, queueVars, outVars, threadVars, m_mutex,
                 m_flush_cond, m_workers, restVars>>

(* end: the flag first, then a broadcast under m_mutex. *)
end(c) ==
  /\ \/ /\ pc[c] = "idle" /\ ~m_end_flag
        /\ m_end_flag' = TRUE
        /\ At(c, "end") /\ UNCHANGED m_cond
     \/ /\ pc[c] = "end" /\ m_mutex = None
        /\ m_cond' = Broadcast(m_cond)
        /\ At(c, "idle") /\ UNCHANGED m_end_flag
  /\ UNCHANGED <<fdVars, pollVars, queueVars, outVars, threadVars, m_mutex,
                 m_flush_cond, m_workers, restVars>>

join(c) ==
  /\ pc[c] = "idle" /\ m_workers # {}
  /\ \A t \in m_workers : pc[t] = "exited"
  /\ m_workers' = {}
  /\ UNCHANGED <<fdVars, mutexVars, pollVars, queueVars, outVars, threadVars,
                 m_end_flag, pc, restVars>>

Flushed == m_watching = 0 /\ m_task_queue = 0

(* Unless it mixes, the program makes turns in one thread and without      *)
(* workers.                                                                *)
MayDrive(c) == mixed \/ (m_workers = {} /\ \A d \in Callers \ {c} : pc[d] = "idle")

(* run_once, run_nonblock: one turn under m_mutex.  After end() the call   *)
(* does nothing.  run_nonblock differs in its timeout, and in going back   *)
(* to the queues without m_mutex when nothing was reported: it is used     *)
(* alone, and then finds them empty, as it left them.                      *)
run_once(c) ==
  /\ pc[c] = "idle" /\ m_mutex = None /\ ~m_end_flag /\ MayDrive(c)
  /\ At(c, "locked") /\ m_mutex' = c
  /\ UNCHANGED <<coreVars, fdVars, outVars, threadVars, m_cond, m_flush_cond,
                 restVars>>

(* run_once was asleep on m_cond: it returns. *)
Woken(c) ==
  /\ pc[c] = "asleep" /\ c \notin m_cond /\ m_mutex = None
  /\ Again(c)
  /\ UNCHANGED <<poolVars, fdVars, threadVars, restVars>>

(* flush: return if nothing is left; otherwise sleep on m_flush_cond, or   *)
(* make a turn if there are no workers, and test again.  The turn of an    *)
(* ended loop does nothing: flush then repeats the test under m_mutex.     *)
flush(c) ==
  /\ pc[c] = "idle" \/ (pc[c] = "flush" /\ c \notin m_flush_cond)
  /\ m_mutex = None
  /\ \/ /\ Flushed
        /\ At(c, "idle") /\ flushing' = flushing \ {c}
        /\ UNCHANGED <<m_mutex, m_flush_cond>>
     \/ /\ ~Flushed /\ m_workers # {}
        /\ At(c, "flush") /\ flushing' = flushing \cup {c}
        /\ m_flush_cond' = m_flush_cond \cup {c} /\ UNCHANGED m_mutex
     \/ /\ ~Flushed /\ MayDrive(c) /\ m_workers = {}
        /\ At(c, IF m_end_flag THEN "spin" ELSE "locked")
        /\ m_mutex' = c /\ flushing' = flushing \cup {c}
        /\ UNCHANGED m_flush_cond
  /\ UNCHANGED <<coreVars, fdVars, outVars, threadVars, m_cond, mixed, work>>

(* No other caller is adding or removing the handler of f. *)
Untouched(f) ==
  \A c \in Callers : pc[c] \in {"add_fd", "remove_fd"} => ev[c] # f

(* add_handler: set_handler, then add_fd. *)
add_handler(c) ==
  /\ \/ \E f \in Fds \ (m_state \cup released) :
          /\ pc[c] = "idle" /\ Untouched(f)
          /\ m_state' = m_state \cup {f}
          /\ At(c, "add_fd") /\ ev' = [ev EXCEPT ![c] = f]
          /\ UNCHANGED m_kernel
     \/ /\ pc[c] = "add_fd"
        /\ m_kernel' = add_fd(m_kernel, ev[c])
        /\ At(c, "idle") /\ ev' = [ev EXCEPT ![c] = None]
        /\ UNCHANGED m_state
  /\ UNCHANGED <<poolVars, ready, released, flags, last, restVars>>

(* remove_handler: reset_handler, then remove_fd. *)
remove_handler(c) ==
  /\ \/ \E f \in m_state :
          /\ pc[c] = "idle" /\ Untouched(f)
          /\ m_state' = m_state \ {f} /\ released' = released \cup {f}
          /\ At(c, "remove_fd") /\ ev' = [ev EXCEPT ![c] = f]
          /\ UNCHANGED m_kernel
     \/ /\ pc[c] = "remove_fd"
        /\ m_kernel' = remove(m_kernel, ev[c])
        /\ At(c, "idle") /\ ev' = [ev EXCEPT ![c] = None]
        /\ UNCHANGED <<m_state, released>>
  /\ UNCHANGED <<poolVars, ready, flags, last, restVars>>

(* A write that leaves data queued for a descriptor: out::watch. *)
watch(t) ==
  /\ Free(t) /\ Spend
  /\ \E f \in OutFds :
       /\ out_kernel[f] = "none"
       /\ out_kernel' = add_fd(out_kernel, f)
  /\ m_watching' = m_watching + 1
  /\ UNCHANGED <<coreVars, fdVars, mutexVars, threadVars, out_queue, writable,
                 pc>>

-----------------------------------------------------------------------------
(* The peers, and the whole system.                                        *)

Arrive(f) ==
  /\ f \notin ready /\ Spend
  /\ ready' = ready \cup {f}
  /\ UNCHANGED <<poolVars, threadVars, m_kernel, m_state, released, pc>>

Drain(f) ==
  /\ f \notin writable
  /\ writable' = writable \cup {f}
  /\ UNCHANGED <<coreVars, fdVars, mutexVars, threadVars, out_kernel,
                 out_queue, m_watching, pc, restVars>>

(* The pool has been shut down. *)
Stopped ==
  /\ m_end_flag /\ \A t \in Workers : pc[t] \in {"new", "exited"}
  /\ UNCHANGED vars

(* A program that mixes may end up here: run_once has timed out and        *)
(* returned, every worker is asleep on m_cond, and nobody polls.           *)
Stranded ==
  /\ mixed /\ m_pollable /\ m_workers # {} /\ m_workers \subseteq m_cond
  /\ UNCHANGED vars

Init ==
  /\ m_mutex = None /\ m_cond = {} /\ m_flush_cond = {}
  /\ m_pollable = TRUE /\ m_off = 0 /\ m_num = 0 /\ m_backlog = <<>>
  /\ m_more_queue = <<>> /\ m_task_queue = 0
  /\ m_end_flag = FALSE /\ m_workers = {}
  /\ m_kernel = [f \in Fds \cup {OutIdent} |-> IF f = OutIdent THEN "armed" ELSE "none"]
  /\ m_state = {} /\ ready = {} /\ released = {}
  /\ out_kernel = [f \in OutFds |-> "none"] /\ out_queue = <<>>
  /\ m_watching = 0 /\ writable = {}
  /\ pc = [t \in Threads |-> IF t \in Workers THEN "new" ELSE "idle"]
  /\ ev = [t \in Threads |-> None] /\ flags = [t \in Threads |-> {}]
  /\ last = [t \in Threads |-> FALSE] /\ work = 0
  /\ flushing = {} /\ mixed \in Mixing

HandlerCall(t) == event_more(t) \/ event_next(t) \/ event_remove(t)

(* The steps of a turn, and its entry in thread_main. *)
TurnStep(t) ==
  \/ TakeMore(t) \/ do_out(t) \/ do_task(t) \/ CondWait(t)
  \/ StartPoll(t) \/ TakeBacklog(t) \/ PollReturns(t) \/ PollTimesOut(t)
  \/ Polled(t) \/ ReactivateOut(t) \/ Dispatch(t) \/ CallbackReturns(t)
  \/ Reactivate(t) \/ Remove(t) \/ reset_handler(t)
  \/ RunTask(t) \/ write_event(t) \/ FlushBroadcast(t)

WorkerStep(t) == Lock(t) \/ TurnStep(t)

CallerStep(c) ==
  \/ start(c) \/ end(c) \/ join(c) \/ flush(c) \/ run_once(c) \/ Woken(c)
  \/ add_handler(c) \/ remove_handler(c)

Next ==
  \/ \E t \in Workers : Lock(t)
  \/ \E t \in Threads : TurnStep(t) \/ HandlerCall(t) \/ submit(t) \/ watch(t)
  \/ \E c \in Callers : CallerStep(c)
  \/ \E f \in Fds : Arrive(f)
  \/ \E f \in OutFds : Drain(f)
  \/ Stopped \/ Stranded

Spec == Init /\ [][Next]_vars

(* Threads are scheduled, a caller goes on with the call it is in,         *)
(* handlers and tasks return, epoll_wait times out and peers read.         *)
Fairness ==
  /\ \A t \in Workers : WF_vars(WorkerStep(t))
  /\ \A c \in Callers : WF_vars(pc[c] # "idle" /\ (CallerStep(c) \/ TurnStep(c)))
  /\ \A f \in OutFds : WF_vars(Drain(f))

FairSpec == Spec /\ Fairness
-----------------------------------------------------------------------------
(* Properties.                                                             *)

TurnPCs == {"locked", "poll", "polled", "reactivate_out", "dispatch",
            "callback", "event_reset", "reactivate", "remove", "reset", "task",
            "write_event", "flush_broadcast"}
WorkerPCs == TurnPCs \cup {"new", "retry", "exited"}
CallerPCs == TurnPCs \cup {"idle", "end", "flush", "asleep", "spin", "add_fd", "remove_fd"}

TypeOK ==
  /\ m_mutex \in Threads \cup {None} /\ m_cond \subseteq Threads
  /\ m_flush_cond \subseteq Callers /\ flushing \subseteq Callers
  /\ m_pollable \in BOOLEAN /\ m_off \in 0..m_num /\ m_num \in 0..BacklogSize
  /\ m_backlog \in Seq(Fds \cup {OutIdent}) /\ m_more_queue \in Seq(Fds)
  /\ m_task_queue \in Nat /\ m_end_flag \in BOOLEAN /\ m_workers \in {{}, Workers}
  /\ m_kernel \in [Fds \cup {OutIdent} -> Interest]
  /\ m_state \subseteq Fds /\ ready \subseteq Fds /\ released \subseteq Fds
  /\ out_kernel \in [OutFds -> Interest] /\ out_queue \in Seq(OutFds)
  /\ m_watching \in Int /\ writable \subseteq OutFds
  /\ pc \in [Threads -> WorkerPCs \cup CallerPCs]
  /\ \A t \in Workers : pc[t] \in WorkerPCs
  /\ \A c \in Callers : pc[c] \in CallerPCs
  /\ ev \in [Threads -> Fds \cup OutFds \cup {OutIdent, None}]
  /\ flags \in [Threads -> SUBSET {"reactivated", "removed"}]
  /\ last \in [Threads -> BOOLEAN] /\ mixed \in BOOLEAN /\ work \in 0..MaxWork

Polling(t) == pc[t] \in {"poll", "polled"}

(* At most one thread is in epoll_wait, m_pollable says so, and the batch  *)
(* it overwrites has been consumed: no thread can lose or repeat an entry  *)
(* of m_backlog, although epoll_wait fills it without m_mutex.             *)
OnePoller ==
  /\ \A t, u \in Threads : Polling(t) /\ Polling(u) => t = u
  /\ (\E t \in Threads : Polling(t)) => ~m_pollable /\ m_off = m_num
  /\ ~m_pollable => \E t \in Threads : Polling(t)

(* The places where a fired event of f can be: the rest of the batch, the  *)
(* more queue, or a worker that has not re-armed it.                       *)
InBacklog(f) ==
  IF \E t \in Threads : pc[t] = "polled"
  THEN {i \in 1..Len(m_backlog) : m_backlog[i] = f}
  ELSE {i \in (m_off + 1)..m_num : m_backlog[i] = f}
InMore(f) == {i \in 1..Len(m_more_queue) : m_more_queue[i] = f}
Handling(f) ==
  {t \in Threads : /\ ev[t] = f /\ "reactivated" \notin flags[t]
                   /\ pc[t] \notin {"write_event", "add_fd", "remove_fd"}}
Tokens(f) ==
  Cardinality(InBacklog(f)) + Cardinality(InMore(f)) + Cardinality(Handling(f))

(* A one-shot event is never lost and never handled twice on its way       *)
(* through m_backlog, m_more_queue and the handlers, for out's own event   *)
(* and for the handlers': a descriptor that has fired is in exactly one    *)
(* place, an armed one in none, a removed one in one at most.              *)
OneShotOnce ==
  \A f \in Fds \cup {OutIdent} :
    /\ m_kernel[f] = "fired" => Tokens(f) = 1
    /\ m_kernel[f] = "armed" => Tokens(f) = 0
    /\ m_kernel[f] = "none" => Tokens(f) <= 1

(* A descriptor that is armed has a handler to call, unless remove_handler *)
(* is about to remove it: a removed handler leaves no registration behind. *)
ArmedHasHandler ==
  \A f \in Fds : m_kernel[f] = "armed" =>
    f \in m_state \/ \E c \in Callers : pc[c] = "remove_fd" /\ ev[c] = f

(* The inductive invariant behind these, LoopInv, adds the following.      *)

(* What ev and flags hold at each step. *)
HandlerPCs == {"dispatch", "callback", "event_reset", "reactivate", "remove", "reset"}
StepsOK ==
  \A t \in Threads :
    /\ pc[t] \in HandlerPCs \cup {"add_fd", "remove_fd"} => ev[t] \in Fds
    /\ pc[t] = "reactivate_out" => ev[t] = OutIdent
    /\ pc[t] = "write_event" => ev[t] \in OutFds
    /\ pc[t] \notin HandlerPCs \cup {"add_fd", "remove_fd", "reactivate_out", "write_event"}
         => ev[t] = None
    /\ flags[t] # {} => pc[t] \in {"callback", "event_reset"}
    /\ pc[t] = "event_reset" => "removed" \in flags[t]

(* Threads that start() has not created, or that join() has joined, are    *)
(* outside thread_main.                                                    *)
PoolOK == m_workers = {} => \A t \in Workers : pc[t] \in {"new", "exited"}

(* m_num is the length of the batch in m_backlog, except while the poller  *)
(* holds a new one that it has not published.                              *)
BacklogOK ==
  IF \E t \in Threads : pc[t] = "polled" THEN Len(m_backlog) \in 1..BacklogSize
  ELSE m_num = Len(m_backlog)

(* A trace of f in the loop, other than that add_handler is about to       *)
(* register it.                                                            *)
Seen(f) ==
  \/ m_kernel[f] # "none" \/ InBacklog(f) # {} \/ InMore(f) # {}
  \/ \E t \in Threads : ev[t] = f /\ pc[t] \notin {"write_event", "add_fd"}

(* A descriptor that left a trace has had a handler, and one that is about *)
(* to be registered left none: it is registered at most once.              *)
FreshOK ==
  /\ \A f \in Fds : Seen(f) => f \in m_state \cup released
  /\ \A c \in Threads : \A f \in Fds : pc[c] = "add_fd" /\ ev[c] = f =>
       /\ f \in m_state /\ f \notin released /\ ~ Seen(f)
       /\ \A d \in Threads : pc[d] = "add_fd" /\ ev[d] = f => d = c

(* A thread that is about to reset a handler or has done so gave the       *)
(* descriptor up, and has removed it from the interest list for good.      *)
GoneOK ==
  \A t \in Threads :
    /\ pc[t] \in {"remove", "reset"} \/ "removed" \in flags[t] => ev[t] \in released
    /\ pc[t] = "reset" \/ "removed" \in flags[t] => m_kernel[ev[t]] = "none"

(* ArmedHasHandler, for descriptors that have fired as well. *)
KernelHasHandler ==
  \A f \in Fds : m_kernel[f] # "none" =>
    f \in m_state \/ \E c \in Callers : pc[c] = "remove_fd" /\ ev[c] = f

(* OneShotOnce, without counting. *)
Nowhere(f) == InBacklog(f) = {} /\ InMore(f) = {} /\ Handling(f) = {}
AtMostOnePlace(f) ==
  /\ \A i, j \in InBacklog(f) : i = j
  /\ \A i, j \in InMore(f) : i = j
  /\ \A t, u \in Handling(f) : t = u
  /\ InBacklog(f) = {} \/ InMore(f) = {}
  /\ InBacklog(f) = {} \/ Handling(f) = {}
  /\ InMore(f) = {} \/ Handling(f) = {}
PlaceOK(f) ==
  /\ AtMostOnePlace(f)
  /\ m_kernel[f] = "fired" => ~ Nowhere(f)
  /\ m_kernel[f] = "armed" => Nowhere(f)
PlacesOK == \A f \in Fds \cup {OutIdent} : PlaceOK(f)

LoopInv ==
  /\ TypeOK /\ StepsOK /\ PoolOK /\ OnePoller /\ BacklogOK
  /\ FreshOK /\ GoneOK /\ KernelHasHandler /\ PlacesOK

Busy(t) == pc[t] \notin {"new", "poll", "exited"} /\ t \notin m_cond
Queued == m_more_queue # <<>> \/ m_task_queue > 0 \/ out_queue # <<>> \/ m_off # m_num

(* No wake-up is lost: as long as the pool runs, some worker is not asleep *)
(* on m_cond, and queued work never waits for an event: some worker is     *)
(* neither asleep nor in epoll_wait.  This needs two workers; with one,    *)
(* the poller ignores tasks and queued writes.  And it needs a program     *)
(* that does not call run_once meanwhile, which takes the poller's role    *)
(* and gives it back without waking anybody.                               *)
NoWorkAsleep ==
  m_workers # {} /\ ~m_end_flag /\ ~mixed =>
    /\ ~ (Workers \subseteq m_cond)
    /\ Queued => \E t \in Workers : Busy(t)

(* The inductive invariant behind it, AwakeInv.  Whoever sleeps is inside  *)
(* the wait.  While nobody polls two workers are awake: the one that is    *)
(* going to poll will not leave queued work to sleepers only.              *)
SleepOK == \A t \in m_cond : pc[t] = IF t \in Workers THEN "retry" ELSE "asleep"
AwakeOK ==
  m_workers # {} /\ ~m_end_flag /\ ~mixed =>
    /\ \A t \in Workers : pc[t] \notin {"new", "exited"}
    /\ \A c \in Callers : pc[c] \in {"idle", "flush", "add_fd", "remove_fd"}
    /\ m_pollable => \E t, u \in Workers : t # u /\ Busy(t) /\ Busy(u)
    /\ ~m_pollable /\ Queued => \E t \in Workers : Busy(t) /\ ~Polling(t)
AwakeInv == LoopInv /\ SleepOK /\ AwakeOK

(* When input pauses, tasks run: the pool does not forget a task, although *)
(* one worker always prefers to poll.                                      *)
TasksRun == m_task_queue > 0 /\ m_workers # {} ~> m_task_queue = 0 \/ m_end_flag

(* Queued data of a socket that becomes writable is written. *)
WritesServed ==
  m_watching > 0 /\ m_workers # {} ~> m_watching = 0 \/ m_end_flag

(* flush() returns, unless the loop is being ended: whether workers serve  *)
(* the tasks and the queued writes and wake it, or it serves them itself.  *)
FlushReturns == \A c \in Callers : c \in flushing ~> c \notin flushing \/ m_end_flag

(* A program without workers that calls run_once again and again has its   *)
(* tasks run and its queued writes served: a turn neither blocks for good  *)
(* nor prefers events to them for ever.                                    *)
RunOnceServes ==
  (\A c \in Callers : []<>(pc[c] = "locked" /\ m_workers = {})) =>
    (m_task_queue > 0 \/ m_watching > 0 ~> m_task_queue = 0 /\ m_watching = 0)

(* end() ends the pool: every worker leaves thread_main, wherever it was,  *)
(* so join() returns.                                                      *)
EndStops == m_end_flag ~> \A t \in Workers : pc[t] \in {"new", "exited"}

(* A handler whose input has arrived is called, unless it is removed or    *)
(* the loop ends.                                                          *)
InputHandled ==
  \A f \in Fds : f \in ready /\ f \in m_state /\ m_workers # {}
                 ~> f \notin ready \/ f \notin m_state \/ m_end_flag

=============================================================================
