----------------------------- MODULE WavySignal -----------------------------
(***************************************************************************)
(* Signal handlers of the event loop (mpsrc/wavy_signal.cc,                *)
(* mpsrc/wavy_signal.h, mp/signal.h and the signal part of                 *)
(* mpsrc/wavy_kernel_epoll.h).  A signal handler reads a signalfd.  For    *)
(* that to work the signal must stay pending until it is read, so its      *)
(* constructor ignores the signal (scoped_signal) and then blocks it in    *)
(* the calling thread (scoped_sigprocmask), whose mask the workers inherit *)
(* when they are started.  The destructor undoes both in the opposite      *)
(* order, in the thread that drops the last reference.                     *)
(*                                                                         *)
(* The loop is reduced as in WavyTimer; numbers of descriptors are not     *)
(* reused here, so a descriptor is named by its handler.                   *)
(***************************************************************************)
EXTENDS WavyKernel

CONSTANTS
  Handlers, Signos,
  Signo,        \* per handler: its signal
  Main,         \* the thread that adds and removes handlers
  Workers, None,
  MaxRaise      \* bound: signals sent to the process

ASSUME SignalAssumption ==
  /\ Signo \in [Handlers -> Signos]
  /\ Main \notin Workers /\ None \notin Handlers /\ MaxRaise \in Nat

VARIABLES
  mask,         \* per thread: the signals it blocks
  disp, m_save, \* per signal: its disposition; per handler: the saved one
  pending,      \* signals pending for the process
  owed,         \* those raised while a handler was set for them
  lost,         \* signals discarded although a handler was set
  killed,       \* what killed the process: "none", "owed", "other"
  raised,
  m_kernel, m_state, events,
  added,        \* handlers already constructed
  running,
  arg,          \* the ident that Main passed to remove_signal
  pc, h         \* per thread: step, handler held

maskVars == <<mask, disp, m_save>>
sigVars == <<pending, owed, lost, killed, raised>>
loopVars == <<m_kernel, m_state, events>>
callVars == <<added, running, arg>>
vars == <<maskVars, sigVars, loopVars, callVars, pc, h>>

Threads == Workers \cup {Main}
Started == IF running THEN Threads ELSE {Main}
At(t, step) == pc' = [pc EXCEPT ![t] = step]

IsSet(s) == \E hd \in m_state : Signo[hd] = s

(* An unblocked signal s takes effect: it is discarded or terminates. *)
TakeEffect(s) ==
  /\ pending' = pending \ {s} /\ owed' = owed \ {s}
  /\ IF disp[s] = "ignore"
     THEN lost' = (IF IsSet(s) /\ s \in owed THEN lost \cup {s} ELSE lost) /\ UNCHANGED killed
     ELSE killed' = (IF s \in owed THEN "owed" ELSE "other") /\ UNCHANGED lost
  /\ UNCHANGED raised

-----------------------------------------------------------------------------
(* The operating system.                                                   *)

(* kill: an ignored signal that the main thread does not block is dropped  *)
(* at once; a second one of a kind that is pending changes nothing.        *)
Kill(s) ==
  /\ killed = "none" /\ raised < MaxRaise /\ raised' = raised + 1
  /\ IF disp[s] = "ignore" /\ s \notin mask[Main]
     THEN /\ lost' = IF IsSet(s) THEN lost \cup {s} ELSE lost
          /\ UNCHANGED <<pending, owed>>
     ELSE /\ pending' = pending \cup {s}
          /\ owed' = IF IsSet(s) THEN owed \cup {s} ELSE owed
          /\ UNCHANGED lost
  /\ UNCHANGED <<killed, maskVars, loopVars, callVars, pc, h>>

(* A thread that does not block a pending signal takes it. *)
Deliver(t, s) ==
  /\ killed = "none" /\ t \in Started /\ s \in pending \ mask[t]
  /\ TakeEffect(s)
  /\ UNCHANGED <<maskVars, loopVars, callVars, pc, h>>

(* epoll_wait reports the signalfd of a pending signal. *)
Report(hd) ==
  /\ running /\ m_kernel[hd] = "armed" /\ Signo[hd] \in pending
  /\ m_kernel' = wait(m_kernel, <<hd>>)
  /\ events' = events \cup {hd}
  /\ UNCHANGED <<m_state, maskVars, sigVars, callVars, pc, h>>

-----------------------------------------------------------------------------
(* add_signal: the members of signal_handler are constructed in order.     *)

add_signal(hd) ==
  /\ pc[Main] = "idle" /\ ~running /\ hd \notin added
  /\ added' = added \cup {hd}
  /\ m_kernel' = add_fd(m_kernel, hd)
  /\ h' = [h EXCEPT ![Main] = hd]
  /\ At(Main, "sigaction")
  /\ UNCHANGED <<maskVars, sigVars, m_state, events, running, arg>>

(* scoped_signal: SIG_IGN, which also discards what is pending. *)
scoped_signal ==
  /\ pc[Main] = "sigaction"
  /\ LET s == Signo[h[Main]] IN
     /\ m_save' = [m_save EXCEPT ![h[Main]] = disp[s]]
     /\ disp' = [disp EXCEPT ![s] = "ignore"]
     /\ pending' = pending \ {s} /\ owed' = owed \ {s}
  /\ At(Main, "sigblock")
  /\ UNCHANGED <<mask, lost, killed, raised, loopVars, callVars, h>>

(* Mutant of Blocked: the mask is left alone. *)
Blocked_not(s) == mask

(* sigprocmask(SIG_BLOCK) in the calling thread. *)
Blocked(s) == [mask EXCEPT ![Main] = @ \cup {s}]

scoped_sigprocmask ==
  /\ pc[Main] = "sigblock"
  /\ mask' = Blocked(Signo[h[Main]])
  /\ At(Main, "set_handler")
  /\ UNCHANGED <<disp, m_save, sigVars, loopVars, callVars, h>>

set_handler ==
  /\ pc[Main] = "set_handler"
  /\ m_state' = m_state \cup {h[Main]}
  /\ h' = [h EXCEPT ![Main] = None]
  /\ At(Main, "idle")
  /\ UNCHANGED <<maskVars, sigVars, m_kernel, events, callVars>>

(* The handlers are added; the workers inherit the mask. *)
start ==
  /\ pc[Main] = "idle" /\ ~running
  /\ running' = TRUE
  /\ mask' = [t \in Threads |-> mask[Main]]
  /\ UNCHANGED <<disp, m_save, sigVars, loopVars, added, arg, pc, h>>

(* remove_signal: the kernel first. *)
remove_signal(hd) ==
  /\ pc[Main] = "idle" /\ hd \in m_state
  /\ m_kernel' = remove(m_kernel, hd)
  /\ arg' = hd /\ At(Main, "reset_handler")
  /\ UNCHANGED <<maskVars, sigVars, m_state, events, added, running, h>>

(* Then reset_handler, which leaves Main with the reference of m_state, if *)
(* a worker has not dropped it meanwhile.                                  *)
RemoveReset ==
  /\ pc[Main] = "reset_handler"
  /\ IF arg \in m_state
     THEN m_state' = m_state \ {arg} /\ h' = [h EXCEPT ![Main] = arg] /\ At(Main, "drop")
     ELSE At(Main, "idle") /\ UNCHANGED <<m_state, h>>
  /\ UNCHANGED <<maskVars, sigVars, m_kernel, events, callVars>>

-----------------------------------------------------------------------------
(* A worker with an event (thread_main, process_handler).                  *)

Dispatch(w) ==
  /\ pc[w] = "idle"
  /\ \E hd \in events :
       /\ events' = events \ {hd}
       /\ IF hd \in m_state
          THEN h' = [h EXCEPT ![w] = hd] /\ At(w, "call") /\ UNCHANGED m_kernel
          ELSE m_kernel' = remove(m_kernel, hd) /\ UNCHANGED <<h, pc>>
  /\ UNCHANGED <<maskVars, sigVars, m_state, callVars>>

(* signal_handler::operator(): read_signal, then the callback. *)
Callback(w) ==
  /\ pc[w] = "call"
  /\ pending' = pending \ {Signo[h[w]]} /\ owed' = owed \ {Signo[h[w]]}
  /\ \E cont \in BOOLEAN : At(w, IF cont THEN "reactivate" ELSE "remove")
  /\ UNCHANGED <<lost, killed, raised, maskVars, loopVars, callVars, h>>

Reactivate(w) ==
  /\ pc[w] = "reactivate"
  /\ m_kernel' = reactivate(m_kernel, h[w])
  /\ At(w, "drop")
  /\ UNCHANGED <<maskVars, sigVars, m_state, events, callVars, h>>

Remove(w) ==
  /\ pc[w] = "remove"
  /\ m_kernel' = remove(m_kernel, h[w])
  /\ At(w, "reset_handler")
  /\ UNCHANGED <<maskVars, sigVars, m_state, events, callVars, h>>

reset_handler(w) ==
  /\ pc[w] = "reset_handler"
  /\ m_state' = m_state \ {h[w]}
  /\ At(w, "drop")
  /\ UNCHANGED <<maskVars, sigVars, m_kernel, events, callVars, h>>

-----------------------------------------------------------------------------
(* ~signal_handler, in the thread that drops the last reference.           *)

(* Mutant of Destructor: the members are destroyed in their own order. *)
Destructor_forward == <<"restore", "unblock", "close">>

(* The members are destroyed in the opposite order of their declaration. *)
Destructor == <<"unblock", "restore", "close">>

After(step) ==
  LET i == CHOOSE j \in 1..3 : Destructor[j] = step IN
  IF i = 3 THEN "idle" ELSE Destructor[i + 1]

(* m_state or the thread's copy lets go; the last one destroys. *)
Drop(t) ==
  /\ pc[t] = "drop"
  /\ IF h[t] \in m_state \/ \E u \in Threads \ {t} : h[u] = h[t]
     THEN At(t, "idle") /\ h' = [h EXCEPT ![t] = None]
     ELSE At(t, Destructor[1]) /\ UNCHANGED h
  /\ UNCHANGED <<maskVars, sigVars, loopVars, callVars>>

(* sigprocmask(SIG_UNBLOCK): a pending signal takes effect before it       *)
(* returns.                                                                *)
Unblock(t) ==
  /\ pc[t] = "unblock" /\ At(t, After("unblock"))
  /\ LET s == Signo[h[t]] IN
     /\ mask' = [mask EXCEPT ![t] = @ \ {s}]
     /\ IF s \in pending THEN TakeEffect(s) ELSE UNCHANGED sigVars
  /\ UNCHANGED <<disp, m_save, loopVars, callVars, h>>

Restore(t) ==
  /\ pc[t] = "restore" /\ At(t, After("restore"))
  /\ disp' = [disp EXCEPT ![Signo[h[t]]] = m_save[h[t]]]
  /\ UNCHANGED <<mask, m_save, sigVars, loopVars, callVars, h>>

CloseFd(t) ==
  /\ pc[t] = "close" /\ At(t, After("close"))
  /\ m_kernel' = remove(m_kernel, h[t])
  /\ h' = [h EXCEPT ![t] = None]
  /\ UNCHANGED <<maskVars, sigVars, m_state, events, callVars>>

-----------------------------------------------------------------------------
Init ==
  /\ mask = [t \in Threads |-> {}] /\ disp = [s \in Signos |-> "default"]
  /\ m_save = [hd \in Handlers |-> "default"]
  /\ pending = {} /\ owed = {} /\ lost = {} /\ killed = "none" /\ raised = 0
  /\ m_kernel = [hd \in Handlers |-> "none"] /\ m_state = {} /\ events = {}
  /\ added = {} /\ running = FALSE /\ arg = None
  /\ pc = [t \in Threads |-> "idle"] /\ h = [t \in Threads |-> None]

Dispose(t) == Drop(t) \/ Unblock(t) \/ Restore(t) \/ CloseFd(t)

(* What Main does inside a call. *)
MainGoesOn ==
  scoped_signal \/ scoped_sigprocmask \/ set_handler \/ RemoveReset \/ Dispose(Main)

WorkerStep(w) ==
  Dispatch(w) \/ Callback(w) \/ Reactivate(w) \/ Remove(w) \/ reset_handler(w) \/ Dispose(w)

(* The process is dead, or nothing is under way. *)
Quiescent ==
  /\ \/ killed # "none"
     \/ running /\ events = {} /\ \A t \in Threads : pc[t] = "idle"
  /\ UNCHANGED vars

Step ==
  \/ MainGoesOn \/ start
  \/ \E hd \in Handlers : add_signal(hd) \/ remove_signal(hd) \/ Report(hd)
  \/ \E w \in Workers : WorkerStep(w)
  \/ \E s \in Signos : Kill(s) \/ \E t \in Threads : Deliver(t, s)

Next == (killed = "none" /\ Step) \/ Quiescent

Spec == Init /\ [][Next]_vars

LiveSpec ==
  /\ Spec
  /\ WF_vars(killed = "none" /\ MainGoesOn) /\ WF_vars(killed = "none" /\ start)
  /\ \A w \in Workers : WF_vars(killed = "none" /\ WorkerStep(w))
  /\ \A hd \in Handlers : WF_vars(killed = "none" /\ Report(hd))

-----------------------------------------------------------------------------
(* Properties.                                                             *)

(* If the handlers are added "before starting any other threads"           *)
(* (test/signal.cc:29), no signal that has a handler is discarded: every   *)
(* thread blocks it, whatever handlers of other signals come and go.       *)
HandledNotLost == lost = {}

(* A signal raised while it had a handler never terminates the process,    *)
(* not even when it is still pending as the handler is destroyed, which    *)
(* unblocks it in one thread and gives it its old disposition back.        *)
OwedNeverKills == killed # "owed"

(* A signal that has a handler is read by it, or discarded with it.        *)
SignalsHandled == \A s \in Signos : s \in owed ~> (s \notin owed \/ killed # "none")

-----------------------------------------------------------------------------
(* The inductive invariant behind HandledNotLost and OwedNeverKills, which *)
(* hold if every handler has a signal of its own.                          *)

OwnSignal == \A a, b \in Handlers : Signo[a] = Signo[b] => a = b

Constructing == {"sigaction", "sigblock", "set_handler"}
Destroying == {"unblock", "restore", "close"}

TypeOK ==
  /\ mask \in [Threads -> SUBSET Signos]
  /\ disp \in [Signos -> {"default", "ignore"}] /\ m_save \in [Handlers -> {"default", "ignore"}]
  /\ pending \subseteq Signos /\ owed \subseteq Signos /\ lost \subseteq Signos
  /\ killed \in {"none", "owed", "other"} /\ raised \in Nat
  /\ m_kernel \in [Handlers -> Interest] /\ m_state \subseteq Handlers /\ events \subseteq Handlers
  /\ added \subseteq Handlers /\ running \in BOOLEAN /\ arg \in Handlers \cup {None}
  /\ pc \in [Threads -> {"idle", "call", "reactivate", "remove", "reset_handler", "drop"}
                          \cup Constructing \cup Destroying]
  /\ h \in [Threads -> Handlers \cup {None}]

(* Who has which handler, inside which call. *)
CallsOK ==
  /\ m_state \subseteq added
  /\ \A t \in Threads :
       /\ h[t] # None => h[t] \in added
       /\ h[t] = None <=> pc[t] = "idle" \/ (t = Main /\ pc[t] = "reset_handler")
  /\ \A w \in Workers : pc[w] \notin Constructing
  /\ pc[Main] \notin {"call", "reactivate", "remove"}
  /\ pc[Main] \in Constructing => ~running /\ h[Main] \notin m_state
  /\ ~running => events = {} /\ \A w \in Workers : pc[w] = "idle"

(* The thread that destroys a handler is the only one that has it. *)
AloneOK ==
  \A t \in Threads : pc[t] \in Destroying =>
    h[t] \notin m_state /\ \A u \in Threads \ {t} : h[u] # h[t]

(* A signal that has a handler is ignored, and blocked by every thread;    *)
(* the constructor establishes this, the destructor of another handler     *)
(* does not disturb it.                                                    *)
SetOK ==
  /\ \A hd \in m_state : disp[Signo[hd]] = "ignore" /\ \A t \in Started : Signo[hd] \in mask[t]
  /\ pc[Main] \in {"sigblock", "set_handler"} => disp[Signo[h[Main]]] = "ignore"
  /\ pc[Main] = "set_handler" => Signo[h[Main]] \in mask[Main]

(* A signal is owed only while it is pending and ignored, and no longer    *)
(* when its handler has unblocked it.                                      *)
OwedOK ==
  /\ \A s \in owed : s \in pending /\ disp[s] = "ignore"
  /\ \A t \in Threads : pc[t] \in {"restore", "close"} => Signo[h[t]] \notin owed

SignalInv ==
  /\ TypeOK /\ CallsOK /\ AloneOK /\ SetOK /\ OwedOK
  /\ HandledNotLost /\ OwedNeverKills

=============================================================================
