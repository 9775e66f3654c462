# A TLA+ model of mpio

mpio is a C++ library for event-driven network servers. Its core, `mp::wavy`,
is a multithreaded event loop over epoll or kqueue: a pool of worker threads
shares one epoll instance, runs handlers when descriptors become readable, runs submitted
tasks, and writes queued data when sockets become writable. This directory
models that core, checks it with TLC and proves its safety with TLAPS. Paths
below are relative to the repository's root.

## 1. The system

| Part | State | Operations | Talks to |
|---|---|---|---|
| `wavy::kernel` (`mpsrc/wavy_kernel_epoll.h`) | one epoll instance: an interest list of one-shot registrations | `add_fd`, `remove`, `reactivate`, `wait`, `add_kernel`; timers, signals | the operating system |
| `wavy::kernel` (`mpsrc/wavy_kernel_kqueue.h`) | the same over kqueue; a table of identifiers for timers and signals, which have no descriptor there | the same; `alloc_xident`, `free_xident` | the operating system |
| `wavy::xfer` (`mp/wavy.hmpl`, `mpsrc/wavy_out.cc`) | a buffer of elements: bytes to write, files to send, finalizers | `push_*`, `migrate`, `clear`, `execute` | sockets |
| `wavy::out` (`mpsrc/wavy_out.cc`) | per descriptor a mutex and an `xfer` queue; its own kernel; `m_queue` of events; `m_watching` | `write`, `commit_raw`, `commit`, `poll_event`, `next`, `write_event` | callers (any thread), the loop's workers |
| `wavy::loop_impl` (`mpsrc/wavy_loop.cc`) | `m_mutex`, `m_cond`, `m_flush_cond`, `m_pollable`, the batch `m_backlog[m_off..m_num)`, `m_more_queue`, `m_task_queue`, `m_end_flag`, handlers `m_state` | `thread_main`, `submit`, `add_handler`, `remove_handler`, `flush`, `start`, `end`, `join`, `run_once`, `run_nonblock` | kernel, out, handlers |
| `wavy::handler` (`mp/wavy.hmpl`) | a descriptor, closed by the destructor; shared pointers to it | the callbacks, `~handler` | loop, out (a queued write holds a pointer) |
| `wavy::event` | flags of one dispatched event | `more`, `next`, `remove` | loop |
| timers, signals, `listen`, `connect` | handlers and tasks built on the loop | `add_timer`, `remove_timer`, ... | loop |
| `stream_buffer`, `shared_buffer` (`mp/`) | reference-counted input buffers | fill, consume, retain, reserve | handlers |
| `sparse_array`, `sync`, `pthread` wrappers, signal masks (`mp/`) | containers and thin wrappers | | |

What is hard in it: any thread may write to a descriptor while a worker drains
its queue; a one-shot event is handed from epoll through a queue to a worker
under different locks; the poller fills the shared batch without the mutex;
workers that sleep must be woken by whoever leaves work behind; finalizers free
memory and must run after the write they belong to, and once; the counter that
`flush` waits for is kept apart from what it counts; and everything is found by
descriptor number, which the operating system gives to the next connection as
soon as it is closed. `PROJECT.json` lists these hazards at their lines, with the
properties that cover them. Where the code does go wrong in the modelled case and
no document forbids the case, the property has a premise that excludes it, and the
hazard names no property but says so.

Each part's correctness, in a sentence. *Kernel*: a one-shot registration
reports once until it is re-armed. *xfer and out*: what reaches a socket is what
the callers asked for, in order and once; finalizers follow their bytes; queued
data is always watched, and all of it drains. *loop*: one poller; each event is
handled once, by one worker; no work is left with everyone asleep; `flush`,
`end` and `join` finish. *handler*: a number is not reused while anything that
was made under it is left.

## 2. The modules

| Module | Models | Lines of the source |
|---|---|---|
| `WavyKernel` | the interest list as a function to `none`, `armed`, `fired`; operators for each kernel call | `wavy_kernel_epoll.h:77-106, 339-402` |
| `Xfer` | the transfer buffer as a sequence of elements; push, migrate and the trimming of a partly written element | `wavy_out.cc:69-396` |
| `OutStream` | what the write path promises, without threads and queues; `WavyOut` implements it | |
| `WavyOut` | the write path: callers, workers, epoll, sockets and peers | `wavy_out.cc:165-589`, `wavy_out.h` |
| `WavyLoop` | the worker pool and its callers | `wavy_loop.cc`, `wavy_loop.h` |
| `WavyConn` | connections that come and go: handler, loop and write path together, reuse of descriptor numbers | `mp/wavy.hmpl`, `wavy_loop.cc`, `wavy_out.cc` |
| `WavyTimer` | timers: references to the handler, reuse of descriptor numbers | `wavy_timer.cc`, `wavy_timer.h`, `wavy_kernel_epoll.h:109-174` |
| `WavySignal` | signal handlers: masks, dispositions, pending signals | `wavy_signal.cc`, `wavy_signal.h`, `mp/signal.h`, `wavy_kernel_epoll.h:282-336` |
| `WavyKqueue` | timers and signals over kqueue: the allocator of identifiers, registrations deleted when they are reported | `wavy_kernel_kqueue.h`, `wavy_timer.cc`, `wavy_signal.cc` |
| `WavyConnect` | `connect` and `listen` | `wavy_connect.cc:33-148`, `wavy_listen.cc` |
| `StreamBuffer` | the input buffer and its refs | `mp/stream_buffer.h` |
| `...Proofs` | the theorems about the module whose name they begin with, for each of the eight components `WavyOut` to `StreamBuffer` (section 4) | |
| `MC...` | instances for TLC | |

The `Wavy...` modules over epoll extend `WavyKernel`; `WavyOut` and `OutStream`
extend `Xfer`, and `WavyOut` instantiates `OutStream`.

### WavyKernel

Every registration that the library makes is one-shot, so a descriptor is not
registered, armed, or fired. `wait` turns an armed descriptor whose level is
high into a fired one; `reactivate` arms it again and does nothing for a
descriptor that has been removed (`EPOLL_CTL_MOD` fails with `ENOENT`); `add_fd`
does nothing for a registered one. Return codes are dropped, as every caller
drops them. `Batches` is what one `epoll_wait` may report: at most
`BacklogSize` ready descriptors, in any order.

### Xfer

A byte is named by its position in the stream that the callers asked for, so an
element is a run of positions, and a property can say which bytes arrived. A
finalizer element carries its number. Memory, iovec, file and header elements
differ only in where their bytes come from and are one kind of element: a
`writev` that takes a part of an element leaves the rest of it at its head.

### WavyOut

Variables carry the source's names: `m_fdctx` (the queues), `m_kernel`,
`m_queue`, `m_watching`; `owner` is the holder of each descriptor's mutex; `pc`,
`fd`, `op` and `xfbuf` are the position and the locals of each thread. `room`,
`broken` and `wire` are the sockets. `accepted`, `nfin`, `finalized`,
`dropped` and `failed` record history that the properties speak about.

A step is one system call, one finalizer, or one access to state that is seen
without the descriptor's mutex:

* `write`, `commit_raw`, `commit` (all through `Call`): take the mutex; append
  to a nonempty queue and return, or go on to write directly.
* `ExecuteOn`, `ExecuteDone`, `ExecuteBlocks`, `ExecuteFails`: the turns of
  `execute` in the caller. A short write or `EAGAIN` queues the rest and goes to
  `WatchAddFd`, then `WatchCount` (the two statements of `watch`). Failure
  follows the code's three ways: `write` and `commit` shut the reading side
  down, `commit_raw` does not and forgets the rest; after a failed `commit` the
  buffer is still the caller's, who is assumed to destroy it (`ClearCaller`, from
  `~xfer`).
* `poll_event` and `next` run under the loop's mutex and are a step each.
* `WriteEventLock`, `TryWriteOn`, `TryWriteBlocks`, `TryWriteDone`,
  `TryWriteFails`, `Reactivate`, `Remove`, `Clear`, `Unwatch`: `write_event`.
* `Drain`, `PeerReset`: the peers.

`EINTR` is not a case of its own: the code treats it as `EAGAIN`, and a
non-blocking write does not return it once it can make progress. An exception
thrown by a finalizer is swallowed by the code and so has no effect here. A
finalizer that itself writes to the same descriptor would block on the mutex
that is held while it runs; the model's finalizers do not.

### OutStream

The abstract specification of the write path. Each descriptor has one stream
(`todo`) to which a call appends its buffer (`Ask`); the socket takes bytes from
its front (`Deliver`), and a finalizer at the front runs (`Run`). Only at the
front of the stream, only when the connection is reset or the write there has no
bytes, the rest of the stream may be discarded (`Discard`); its finalizers then
run in any order and at any time (`RunLate`), or never do (`dropped`).

The mapping from `WavyOut`: `todo` is what is left of the buffer of the thread
that writes directly, or else the queue (`Unsent`), unless a worker is about to
clear the queue after an error (`Discarding`); `late` is the finalizers of such a
queue, and of the buffers that callers have yet to destroy (`Clearing`). The
other variables are those of the same name. So mutexes, registrations, events
and `m_watching` change nothing in what the stream does: `WavyOut` takes a step
of `OutStream` or leaves it alone.

### WavyLoop

Variables again carry the source's names; `m_cond` and `m_flush_cond` are the
sets of threads asleep on them, `m_task_queue` is a length, and `m_state` the set
of descriptors with a handler. Of the write path it keeps what the loop sees:
`out_kernel`, `out_queue`, `m_watching`, `writable`.

* `Lock` to `Reactivate`, `Remove`, `reset_handler` follow `thread_main` from
  label to label; the guards `MayDoOut`, `MayDoTask`, `MaySleep`, `MayTakeEvent`
  are its conditions. The unlocked write of `m_pollable` on the way out, and the
  unlocked `epoll_wait` into `m_backlog`, are steps of their own.
* `event_more`, `event_next`, `event_remove` are what a handler may do; it may
  do any of them, in any order, and then return true, false or throw.
* `start`, `submit`, `end`, `join`, `flush`, `add_handler`, `remove_handler`,
  `watch` are the callers' operations. `end`, `add_handler` and `remove_handler`
  take two steps, in the code's order. A handler or task that calls one of them
  behaves like a caller doing so at that moment.

* `run_once` and `flush` without workers make one turn of the same code in the
  caller's thread (`MayDrive`); the differences are in the guards (a caller does
  tasks before it polls, without a limit, and then queued writes) and in what a
  turn ends with (`Again`). `flush` of an ended loop repeats its test for ever
  (`spin`), which is what the code does. `run_nonblock` is `run_once` with
  another timeout, when it is used alone; beside workers it would go on with the
  queues after it released the mutex, a data race that is not modelled.
* `mixed`, chosen at the start, says that the program calls `run_once` while
  workers run. A `run_once` that times out gives the poller's role back without
  waking anybody, so all workers may be asleep on `m_cond` with nobody polling
  (`Stranded`) until a caller does something. `OnePoller`, `OneShotOnce` and
  `ArmedHasHandler` hold for such programs too, `NoWorkAsleep` does not. No
  document says which calls may be mixed.

A descriptor whose handler was removed is not added again (`released`):
closing and reuse of descriptor numbers are the subject of `WavyConn` and
`WavyTimer`.

### WavyConn

`file` says which connection has a number now. Handler, registrations and queue
are found by number; `Refer` is every change of a shared pointer, followed by
`~handler` for those connections that nobody refers to any more, which closes the
number and clears its registrations in both epoll instances. The references are
`m_state`, the worker's copy, the caller's, and the finalizers in queues and
buffers.

Two calls write. `commit` is a write with a finalizer, which either holds the
handler, as `push_finalize(shared_ptr)` and `loop::write` with a `shared_ptr` to
the handler make it, or holds something else; `write` is `loop::write` of bytes
alone. `bare` records that something was written that does not hold the handler.
What such a write leaves queued may outlive its connection and go to the next one
with the number, or stay in a queue that nobody watches any more. So `~bare` is a
premise of `RightPeer` and `QueueCurrent`, without which TLC refutes both, and
`ClosedInTheEnd` excepts such behaviours; `HandlerKept` holds for all kinds of
write.

`Accept` to `Drop` are the callers, `commit` to `write` a write by a caller or
from a callback, `write_event` to `clear` a worker with a write event, `Dispatch`
to `reset_handler` a worker with a read event. `leaked` holds the
connections to which `commit_raw` lost a reference after an error: they are never
closed, and `ClosedInTheEnd` excepts them.

`outside` records that the program has called `remove_handler` from outside the
handler. Once it has, a worker may have an old event of the number: finding no
handler, it removes by number, and so removes the registration and handler of a
connection that got the number meanwhile. `RightPeer` and `QueueCurrent` hold in
spite of that, `HandlerKept` only without it.

### WavyTimer

The life of a handler that owns its descriptor. `file` says which timer has a
number now, `m_state` which handler is found under it, `h` which handler each
thread holds. `Close` is the destructor: it runs in the step that drops the last
reference, closes the descriptor and so removes its registration. The steps
`add_timer`, `set_handler`, `AddReturns`, `remove_timer`, `KernelRemove` are the
statements of the two functions; `Dispatch` to `Drop` are `thread_main` with one
event. `FirstExpiry` is the conversion of the arguments, including its edge: a
first expiry of zero disarms the timer. The program is assumed to remove a timer
only while it exists; a stale ident would remove whoever has the number.

`early`, chosen at the start, says which protocol the program follows. In the
repository's tests timers are added before `start`; then `TimersFire` holds.
While workers run, `add_timer` registers the timer before its handler is set, so
an event in between finds no handler, and `thread_main` removes the
registration: the timer never fires. Without its premise `early`, `TimersFire`
is refuted by this behaviour. No document promises otherwise, so it is a hazard
and not a finding; `OpenWhileCalled` and `TimersEnd` hold under both protocols.

### WavySignal

`mask` per thread, `disp` per signal, `pending` for the process. The members of
`signal_handler` are constructed and destroyed in the code's order, each a step:
signalfd, `SIG_IGN`, `SIG_BLOCK`, `set_handler`; `SIG_UNBLOCK`, the saved
disposition, `close`. The destructor runs in the thread that drops the last
reference, and changes the mask of that thread only. `Kill` and `Deliver` follow
Linux: an ignored signal is dropped when the main thread does not block it; a
pending signal is taken by any thread that does not block it; unblocking takes
effect before the call returns. Handlers are added before `start`, as
`test/signal.cc:29` demands.

### WavyKqueue

A kqueue is a table `kq` from keys to registrations. `EV_ONESHOT` deletes a
registration when it is reported, and `reactivate` adds it anew from what the
event carries, whether or not somebody removed it meanwhile; that differs from
epoll, where `reactivate` of a removed registration does nothing. Timers and
signals get an identifier from a table that threads use without a lock:
`FetchAndAdd` and `CompareAndSwap` are the two atomic instructions of a probe, and
`MaxProbes` the two rounds after which `alloc_xident` gives up. `freeThroughout`
records which identifiers were free all the time since the call.

`SetEvent`, `set_handler`, `AddReturns` are `add_timer` and `add_signal`;
`remove`, `Drop`, `Destroy`, `Free`, `Dropped` follow a removed handler to its
destructor in whichever thread drops the last pointer. `remove_signal` and
`~signal` pass the identifier where the kernel expects the number of the signal,
so they delete nothing and the registration stays. `outside`, chosen at the
start, says whether the program removes handlers from outside their callbacks:
if it does, an event that is under way can reach the handler that took the
identifier over, and `reactivate` then registers the old timer again under it.
`OwnEvent` therefore has the premise `~outside`; `XidentOwned` holds without it.
Descriptors are left out: the loop uses them as with epoll.

### WavyConnect

`connect` is a task: `Socket`, `Connect`, `PollReturns`, `PollTimesOut` or
`PollFails`, `Error`, `Out` are its system calls, each of which may fail.
`PollFails` is an error of `poll` or `getsockopt` itself, possible also when the
connection is up already. `TimeoutMsec` is the
conversion of the timeout. The listener accepts until `EAGAIN` (`AcceptEnds`,
also for `EINTR`), hands each connection to a callback that may throw, and is
closed by any other error. `listen` itself is one step.

### StreamBuffer

Blocks have a size, a counter and bytes, which are named by their position in
the input. A pointer that the parser keeps is a record of block, offset and the
byte it should find. `reserve_buffer` rewinds and then expands in place
(`realloc`, which may move the block) or elsewhere. Refs are emptied block by
block by other threads (`clear`, `each_decr`), interleaved with all operations
of the buffer. `parsed` is what the parser has taken and not retained: it is
valid until the block is rewound, which is how the class is meant to be used
(`mp/stream_buffer.h:33-52`). `retain_to` hands all of it to a ref; `retain`
hands over the blocks before the current one only, because `m_ref` does not hold
the current block, so the pointers into that stay in `parsed`. Allocation may
fail. The copy constructor of `ref` is left out: it initialises its array from
itself, and nothing uses it.

## 3. The runs

| Run | Instance | States | Shows |
|---|---|---|---|
| `WavyOut_stream` | 1 socket of 2 bytes, 2 callers, 2 workers, 5 bytes, 3 finalizers; writes of no bytes and empty buffers among the requests | 1.2 M | `ImplementsStream`; `StreamComplete`, `FinalizeAfterWrite`, `FinalizeOnce`; `EventServedOnce`, `QueuedIffWatched`, `FlushWaitsForData`; `TypeOK` |
| `WavyOut_live` | 1 socket of 1 byte, the same requests, fair | 100 k | `Drains`, `FinalizersSettle` |
| `WavyOut_shutdown` | 1 socket | | violation, see below |
| `WavyLoop_events` | 1 handler, 1 written descriptor, 3 workers, 1 caller, with and without mixing | 1.5 M | `OnePoller`, `OneShotOnce`, `ArmedHasHandler`, `NoWorkAsleep` |
| `WavyLoop_live` | 1 handler, 1 written descriptor, 2 workers, 1 caller, fair | 115 k | `TasksRun`, `WritesServed`, `FlushReturns`, `RunOnceServes`, `EndStops`, `InputHandled` |
| `WavyConn` | 2 connections on 1 number, 2 workers, 1 caller, removal from inside and outside, all kinds of write, fair | 419 k | `RightPeer`, `QueueCurrent`, `HandlerKept`, `ClosedInTheEnd` |
| `WavyTimer` | a periodic and a one-shot timer on 2 numbers, 2 workers, both protocols, fair | 101 k | `OpenWhileCalled`, `TimersFire`, `TimersEnd` |
| `WavySignal` | 2 signals with a handler each, 2 workers, 3 raised, fair | 34 k | `HandledNotLost`, `OwedNeverKills`, `SignalsHandled` |
| `WavyKqueue` | 2 timers and a signal on 2 identifiers, 2 callers, 1 worker | 3.8 M | `NoSpuriousEMFILE`, `XidentOwned`, `OwnEvent` |
| `WavyConnect` | 3 calls, 2 workers, 1 listener, fair | 330 k | `AnswerTrue`, `AcceptedOwned`, `ConnectAnswered`, `ConnectionsAccepted` |
| `WavyConnect_timeout` | 1 call | | violation, see below |
| `StreamBuffer` | 3 blocks of up to 4 bytes, 2 refs, 3 bytes of input | 402 k | `CountExact`, `DataIntact`, `RetainedIntact` |

Every property has a mutant of the model, a plausible bug of the code, under
which TLC refutes it (`PROJECT.json`, "mutants"; the mutated definitions stand
in the modules in front of the originals).

**Bounds.** In `WavyOut` the number of threads and descriptors is in the
constants; `MaxBytes`, `MaxFins` and `MaxEntries` bound what callers ask for.
They are chosen so that a queue holds several elements, is drained, re-armed and
refilled more than once, and so that a short write can end inside an element and
at its end, with a send buffer of one or two bytes. Two callers and two workers
are enough for every pair of concurrent operations on a descriptor; the proofs
below show that nothing depends on the numbers. In `WavyLoop`, `MaxWork` bounds
arrivals, tasks, writes and calls of `event::more` together, and `TaskLimit` is
1 where the code has 16, so that both sides of the limit are met. Three workers
are needed for `NoWorkAsleep` to be interesting: one polls, one sleeps, one
leaves work behind. In `StreamBuffer` a block of two bytes holds one byte of
input beside a counter of one, so three bytes are enough to expand in place, to
expand with data to copy, and to rewind over retained data; `MaxSize` lets a
block double once. Two timers on two numbers suffice for a number to be reused
while its previous owner's event is still under way; in `WavyConn` two connections
must share the only number, so every reuse is one between them. There `MaxWork`
bounds writes and arrivals of input together, and the send buffer holds one of
the two elements of a write, so that a queue is drained in several events.
Writes that do not hold their handler count twice, since only `HandlerKept` speaks
of what follows them; one is enough to refute the others without their premise.
Connections are numbered in the order of their acceptance. In `WavyKqueue` three handlers
compete for two identifiers; `Wrap`, 2^32 in the code, is a multiple of their
number, as there, and `Wrap` 4 gives the same results. `NoSpuriousEMFILE` is
stated for at most two allocating threads: with three callers and three
identifiers, TLC finds an `alloc_xident` that fails although one identifier was
free throughout. Workers, callers, blocks and refs are symmetric where only safety
is checked (`WavyOut_stream`, whose refinement is one of safety, `WavyLoop_events`,
`WavyKqueue`, `StreamBuffer`); no run with a liveness property uses symmetry.

**Fairness.** Weak fairness for each thread (they are scheduled, and handlers
and tasks return), for polling, and for the peer (it reads what it was sent).
A caller is only fair inside a call: nobody has to make one. `RunOnceServes` has
the caller's part as its premise, that it calls `run_once` again and again. In
`WavyConn` callers let go of their pointers in the end. In `WavyConnect` the
network answers in the end, and `accept` with a connection waiting is not
interrupted for ever (strong fairness of `Accept`); `poll` need not fail
(`PollFails` has no fairness). Tasks and queued
writes are served in `WavyLoop_live` because input is bounded there: under input
that never pauses, the code lets the poller take events forever and leaves up to
16 tasks and out's queue to the other workers, and a pool of one worker never
serves them while it polls. The model reproduces this, so `NoWorkAsleep` and the
liveness properties are checked with at least two workers.

**Deadlock** is checked in all runs. `Quiescent`, `Stopped` and `Finished` are the
states in which the system may rest: nothing queued and nobody inside a call; the
pool shut down; the buffer destroyed. `Stranded` is the one state of rest that
nobody wants; only a program that mixes `run_once` with workers reaches it.

**Findings.** `WavyOut_shutdown`: `try_write` says "error occured"
(`mpsrc/wavy_out.cc:286`) where it shuts the connection's reading side down, but
it also does so when a caller asked to write no bytes, since `writev` then
returns 0 and `execute` stops with the element in the buffer. Everything queued
behind the empty write is discarded.

`WavyConnect_timeout`: the timeout of `connect` limits `poll` only if its seconds
and its nanoseconds are both nonzero (`mpsrc/wavy_connect.cc:58`), where the
disabled version of the function in the same file (lines 291-292) has no limit
only if both are zero.

## 4. The proofs

Every safety property that a run checks is also proved, for all values of the
constants that the named assumptions allow: any number of threads, descriptors,
connections, handlers, bytes. Each proof module has a theorem `Spec => []Inv`
for an inductive invariant, and one theorem per property that follows from it.
The invariants stand in the component's module, where TLC can evaluate them; they
were checked on the instances of section 3 before they were proved.

| Module | Inductive invariant | Properties proved from it |
|---|---|---|
| `WavyOutProofs` | `WatchInv` (`WatchCorrect`; `TypeCorrect` for its first part), `StreamInv` (`StreamCorrect`) | `TypeOK`, `EventServedOnce`, `QueuedIffWatched`, `FlushWaitsForData`, `StreamComplete`, `FinalizeAfterWrite`, `FinalizeOnce`, order of the bytes (`InOrder`), and the refinement `ImplementsStream` (`StreamRefined`) |
| `WavyLoopProofs` | `LoopInv` (`LoopCorrect`), `AwakeInv` | `OnePoller`, `ArmedHasHandler`, `OneShotOnce`; `NoWorkAsleep` for two workers or more (`NobodyAsleep`) |
| `WavyConnProofs` | `ConnInv` (`ConnCorrect`) | `RightPeer`, `QueueCurrent`, `HandlerKept` |
| `WavyTimerProofs` | `TimerInv` (`TimerCorrect`) | `OpenWhileCalled`, and that no timerfd leaks (`NoTimerLeaked`) |
| `WavySignalProofs` | `SignalInv` (`SignalCorrect`) | `HandledNotLost`, `OwedNeverKills`, if each handler has a signal of its own (`OwnSignal`) |
| `WavyKqueueProofs` | `KqueueInv` (`KqueueCorrect`) | `XidentOwned`, `OwnEvent`, `NoSpuriousEMFILE` |
| `WavyConnectProofs` | `ConnectInv` (`ConnectCorrect`) | `AnswerTrue`, `AcceptedOwned` |
| `StreamBufferProofs` | `BufferInv` (`BufferCorrect`) | `CountExact`, `DataIntact`, `RetainedIntact` |

**Watching** (`WavyOut`). None of the properties is inductive alone.
`QueuedIffWatched` speaks of free mutexes only, so `HolderOK` says what a holder
knows: the queue of a descriptor that is being written directly is empty and not
watched; between `watch`'s statements it is not empty; a worker at the end of
`write_event` has removed the registration. `EventServedOnce` tells a worker that
serves an event that its registration is fired, hence present, hence that
`reactivate` takes effect and no caller can find the queue empty and register
again. `WatchingExact` counts the descriptors for which the counter and the list
differ (`Counted`), which depends on who holds the mutex, hence on `LocksOK`.
`FlushWaitsForData` follows: if nothing is counted, a nonempty queue is not
watched, so its mutex is held, and not by a worker.

**The stream** (`WavyOut`). `RestOK` says that what is unsent of a descriptor is
one contiguous end of what callers asked for, and that, unless something was
discarded, the socket has taken exactly the bytes before it and exactly the
finalizers before it have run. `BuffersOK` says where parts of a stream can be,
`FinsOK` that every finalizer waits at one place, has run or was dropped. The
queue and the caller's buffer are sequences of elements with running positions
(`IsPart`); that their ends, sums and concatenations fit is proved about `Xfer`'s
operators first. Where that takes an induction over a sequence it is done by the
least index that fails (`LeastNat`), because the library's induction rules cannot
be instantiated here. A step changes the stream of one descriptor at most, in one
of a few ways (`Effect`): ask, deliver, run, discard, run late, or nothing. For
each way the invariant is kept (`EffectRest`) and a step or stutter of `OutStream`
is taken (`EffectRefines`); every action is shown to be of one of these ways, so
the invariant and the refinement come out of the same case analysis (`StepOK`).

**Events** (`WavyLoop`). `OneShotOnce` counts the places of an event; `PlaceOK`
says the same without counting, and `PlacesOK` needs to know that the batch is
published before it is consumed (`BacklogOK`), which step a thread with an event
is at (`StepsOK`), that `add_handler` registers a descriptor that left no trace
(`FreshOK`) and that a descriptor given up is never armed again (`GoneOK`). As
with the stream, the argument is made once per kind of step.

**Wake-ups** (`WavyLoop`). `NoWorkAsleep` is not inductive: from a state in which
nobody polls and only one worker is awake, that worker may go to poll and leave
queued writes to sleepers. `AwakeOK` excludes the state: while `m_pollable` is
true two workers are awake. The poller makes it so when it publishes a batch, as
it signals `m_cond` or else finds nobody asleep; and a worker goes to sleep only
while another polls and all queues are empty. So the role of the poller is always
taken by one worker while another stays. With one worker there is no other, hence
the theorem's assumption of two; with `mixed`, `run_once` gives the role back
without waking anybody, hence the premise of the property.

**Reuse of numbers** (`WavyConn`). `HeldOK`: a number for which `m_state` or a
thread has a handler is open and that handler's, so nothing acts on a number
that has changed hands; a new connection is held by nobody yet, so `accept`
disturbs nothing. `BuffersOK`, as long as every write holds its handler (`~bare`):
what is left of a write is all for one connection
and ends with the finalizer that holds it (`IsWrite`), so a number with a queue
is not closed, and its queue is for the connection that has it. With that every
step that drops references leaves each number as it was, or closes one that
nobody refers to (`Referred`, `Open`, `Closed`). `WatchOK` is `HolderOK` for this
module, under the same premise. `EventsOK` holds until `remove_handler` is called
from outside: a disarmed number has one event or one worker, so a worker never finds the handler
of another connection, or none, under its number; `HandlerKept` rests on it.

**Timers.** `OpenOK`: whatever `m_state` or a thread holds is open under its
number, and a number is open as long as something holds it.

**Signals.** The destructor unblocks in one thread and then restores the
disposition, while other threads still block the signal. `AloneOK` and `SetOK`
follow a handler through construction and destruction; `OwedOK`: a signal that
is owed to a handler is pending and ignored, and was taken before the disposition
is restored. Two handlers of one signal break this (`mp/signal.h:112`, a hazard
that no property covers), hence `OwnSignal`.

**Identifiers** (`WavyKqueue`). `LiveOK`, `TakenOK`, `RegisteredOK` say who has
an identifier from `alloc_xident` to `free_xident`; `OneToken` that without
removals from outside a registration, an event and a worker are one at a time.
`ProbesOK` bounds the tries of `alloc_xident`: the index moves round by one per
try, so after `Tries` tries an identifier that stays free is at most
`2 * XMAX - Tries` steps ahead, or the other caller has just fetched it and the
index must come round once more. It therefore speaks of two callers at most.

**Connect and listen.** `OneRun`: a request is queued, with one worker or
answered; `StepsOK`: what its socket and the network are at each step.

**Input buffers.** `HeldOK` and `ParsedOK`: every pointer that somebody keeps is
into a block that a ref or the buffer holds, behind the counter and before the
unparsed data. So `decr_count` frees no block that is pointed into, and
`reserve_buffer`, which starts over at the head of a block only if its counter is
one, does so only when no ref points into the block.

**Assumptions.** Those that the modules name: threads of different kinds are
different, `None` is no member of anything, bounds are naturals, requests are
buffers that the push operations build (`RequestsAssumption`). Descriptors are
finite where they are counted (`FiniteAssumption`, `LoopAssumption`), refs in
`BufferAssumption`, callers in `KqueueAssumption`, where `Wrap` is a multiple of
`XMAX` as 2^32 is of the code's table size.

Only model-checked: all liveness (`Drains`, `FinalizersSettle`, `TasksRun`,
`WritesServed`, `FlushReturns`, `RunOnceServes`, `EndStops`, `InputHandled`,
`ClosedInTheEnd`, `TimersFire`, `TimersEnd`, `SignalsHandled`, `ConnectAnswered`,
`ConnectionsAccepted`) and the absence of deadlock, since fairness and `ENABLED`
are out of the prover's reach.

## 5. What is not modelled, and the plan

What remains to be proved: lemmas on which the liveness properties rest and that
are safety, such as that a caller asleep on `m_flush_cond` has work to wait for,
and that a signal handler's event is never lost between `signalfd` and `m_state`.

Of the modelled components:

* `loop_impl`: `detach` and `add_thread` (workers that `join` does not wait for);
  `run_nonblock` beside workers, and copies of a shared pointer that another
  thread resets, which are data races below the models' granularity.
* `xfer`: where elements lie in memory (`reserve`, `writev`'s vector).
* epoll kernel: the POSIX timer variant for systems without timerfd; failures of
  `epoll_ctl` other than on a missing or existing registration.
* kqueue kernel: descriptors, which the loop uses as with epoll.
* signals: handlers added while workers run; two handlers of one signal.
* `stream_buffer`: the copy constructor of `ref`.

Not modelled at all: `shared_buffer.h` is part of no build, and does not compile;
`sparse_array.h` is a container that nothing in the library uses; `sync.h` is a
value that can only be reached with its lock held.

Left out: the experimental headers (`endian.h`, `iocntl.h`, `tls_set.h`),
language helpers without state (`functional.h`, `memory.h`, `exception.h`,
`unordered*.h`, `utilize.h`, `object_*`), the build and the template generator
`mpl.rb`, `pthread_signal`, and memory exhaustion except in `stream_buffer`.
