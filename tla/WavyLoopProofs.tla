--------------------------- MODULE WavyLoopProofs ---------------------------
(***************************************************************************)
(* The event loop delivers one-shot events exactly once, for any number of *)
(* descriptors, workers and callers: LoopInv (WavyLoop) is an inductive    *)
(* invariant, and OnePoller, OneShotOnce and ArmedHasHandler follow.       *)
(*                                                                         *)
(* A step of a thread t changes the places of the event of one descriptor  *)
(* at most, ev[t] or the one t is about to handle.  The argument is made   *)
(* once per kind of step (Quiet, Taken, Rearmed, ...), and every action is *)
(* shown to be of one of these kinds.                                      *)
(*                                                                         *)
(* Last, no wake-up is lost in a pool of two workers or more (AwakeInv).   *)
(***************************************************************************)
EXTENDS WavyLoop, FiniteSetTheorems, TLAPS

-----------------------------------------------------------------------------
(* The interest list.                                                      *)

(* A nonempty batch of at most max armed descriptors, without repetition. *)
Reported(k, batch, max) ==
  /\ Len(batch) \in 1..max
  /\ \A i \in 1..Len(batch) : k[batch[i]] = "armed"
  /\ \A i, j \in 1..Len(batch) : batch[i] = batch[j] => i = j

(* What epoll_wait reports is a nonempty sequence of at most max armed     *)
(* descriptors of the level, without repetition.                           *)
LEMMA BatchFacts ==
  ASSUME NEW k, NEW S, IsFiniteSet(S), NEW level \in SUBSET S, NEW max \in Nat,
         NEW batch \in Batches(k, level, max)
  PROVE  batch \in Seq(S) /\ Reported(k, batch, max)
<1>1. PICK B \in SUBSET {fd \in level : k[fd] = "armed"} :
        B # {} /\ Cardinality(B) <= max /\ batch \in Orders(B)
  BY Zenon DEF Batches
<1>2. IsFiniteSet(B)
  BY <1>1, FS_Subset, SMT
<1>3. Cardinality(B) \in Nat /\ Cardinality(B) # 0
  BY <1>1, <1>2, FS_CardinalityType, FS_EmptySet
<1>4. batch \in [1..Cardinality(B) -> B]
  BY <1>1 DEF Orders
<1>5. \A i, j \in DOMAIN batch : i # j => batch[i] # batch[j]
  BY <1>1 DEF Orders
<1>6. batch \in Seq(B) /\ Len(batch) = Cardinality(B) /\ DOMAIN batch = 1..Len(batch)
  BY <1>3, <1>4
<1>7. B \subseteq S
  BY <1>1
<1>8. batch \in Seq(S)
  BY <1>6, <1>7
<1>9. QED
  BY <1>1, <1>3, <1>4, <1>5, <1>6, <1>8 DEF Reported

(* The calls of the kernel change the entry of their own descriptor only,  *)
(* and keep an interest list an interest list.                             *)
LEMMA KernelCalls ==
  ASSUME NEW S, NEW k \in [S -> Interest], NEW f \in S
  PROVE  /\ add_fd(k, f) \in [S -> Interest]
         /\ remove(k, f) \in [S -> Interest]
         /\ reactivate(k, f) \in [S -> Interest]
         /\ \A g \in S : g # f => /\ add_fd(k, f)[g] = k[g]
                                  /\ remove(k, f)[g] = k[g]
                                  /\ reactivate(k, f)[g] = k[g]
         /\ remove(k, f)[f] = "none"
         /\ k[f] = "none" => reactivate(k, f)[f] = "none"
         /\ k[f] # "none" => reactivate(k, f)[f] = "armed"
         /\ k[f] = "none" => add_fd(k, f)[f] = "armed"
         /\ k[f] # "none" => add_fd(k, f)[f] = k[f]
BY DEF add_fd, remove, reactivate, Interest

(* The same for remove alone. *)
LEMMA RemoveFacts ==
  ASSUME NEW S, NEW k \in [S -> Interest], NEW f \in S
  PROVE  \A g \in S : remove(k, f)[g] = IF g = f THEN "none" ELSE k[g]
BY DEF remove

(* epoll_wait disarms what it reports and nothing else. *)
LEMMA WaitFacts ==
  ASSUME NEW S, NEW k \in [S -> Interest], NEW batch \in Seq(S)
  PROVE  /\ wait(k, batch) \in [S -> Interest]
         /\ \A g \in S : (\E i \in 1..Len(batch) : batch[i] = g) => wait(k, batch)[g] = "fired"
         /\ \A g \in S : ~ (\E i \in 1..Len(batch) : batch[i] = g) => wait(k, batch)[g] = k[g]
<1>1. DOMAIN k = S /\ DOMAIN batch = 1..Len(batch)
  OBVIOUS
<1>2. wait(k, batch) = [g \in S |-> IF \E i \in 1..Len(batch) : batch[i] = g
                                    THEN "fired" ELSE k[g]]
  BY <1>1 DEF wait
<1>3. QED
  BY <1>2 DEF Interest

(* What a poll of the loop may report. *)
LEMMA LoopBatch ==
  ASSUME TypeOK, NEW batch \in Batches(m_kernel, Level, BacklogSize)
  PROVE  /\ batch \in Seq(Fds \cup {OutIdent}) /\ Len(batch) \in 1..BacklogSize
         /\ \A i \in 1..Len(batch) : m_kernel[batch[i]] = "armed"
         /\ \A i, j \in 1..Len(batch) : batch[i] = batch[j] => i = j
<1>1. PICK S : S = Fds \cup {OutIdent}
  OBVIOUS
<1>2. IsFiniteSet(S)
  BY <1>1, LoopAssumption, FS_AddElement
<1>3. Level \in SUBSET S
  BY <1>1 DEF Level, TypeOK
<1>4. BacklogSize \in Nat
  BY LoopAssumption
<1>5. batch \in Seq(S) /\ Reported(m_kernel, batch, BacklogSize)
  BY <1>2, <1>3, <1>4, BatchFacts
<1>6. QED
  BY <1>1, <1>5 DEF Reported

(* And of out's own kernel. *)
LEMMA OutBatch ==
  ASSUME TypeOK, NEW batch \in Batches(out_kernel, writable, BacklogSize)
  PROVE  batch \in Seq(OutFds)
BY BatchFacts, LoopAssumption DEF TypeOK


-----------------------------------------------------------------------------
(* Types.                                                                  *)

TypedPC ==
  /\ pc \in [Threads -> WorkerPCs \cup CallerPCs]
  /\ \A t \in Workers : pc[t] \in WorkerPCs
  /\ \A c \in Callers : pc[c] \in CallerPCs

(* The rest of TypeOK. *)
TypedRest ==
  /\ m_mutex \in Threads \cup {None} /\ m_cond \subseteq Threads
  /\ m_flush_cond \subseteq Callers /\ flushing \subseteq Callers
  /\ m_pollable \in BOOLEAN
  /\ m_task_queue \in Nat /\ m_end_flag \in BOOLEAN /\ m_workers \in {{}, Workers}
  /\ m_state \subseteq Fds /\ ready \subseteq Fds /\ released \subseteq Fds
  /\ m_watching \in Int /\ writable \subseteq OutFds
  /\ last \in [Threads -> BOOLEAN] /\ mixed \in BOOLEAN /\ work \in 0..MaxWork
TypedEvents ==
  /\ m_off \in 0..m_num /\ m_num \in 0..BacklogSize
  /\ m_backlog \in Seq(Fds \cup {OutIdent}) /\ m_more_queue \in Seq(Fds)
  /\ m_kernel \in [Fds \cup {OutIdent} -> Interest]
  /\ out_kernel \in [OutFds -> Interest] /\ out_queue \in Seq(OutFds)
  /\ ev \in [Threads -> Fds \cup OutFds \cup {OutIdent, None}]
  /\ flags \in [Threads -> SUBSET {"reactivated", "removed"}]

(* TypeOK in three groups. *)
LEMMA Typed == TypeOK <=> TypedPC /\ TypedRest /\ TypedEvents
BY DEF TypeOK, TypedPC, TypedRest, TypedEvents

(* The small variables keep their types. *)
LEMMA RestTyped ==
  ASSUME LoopInv, Next
  PROVE  TypedRest'
<1> USE DEF poolVars, mutexVars, coreVars, pollVars, queueVars, lifeVars, fdVars, handlerVars,
            outVars, threadVars, restVars, TypedRest, Threads
<1>1. TypeOK /\ StepsOK /\ TypedRest /\ TypedEvents
  BY Typed DEF LoopInv
<1>3. ASSUME NEW t \in Workers, Lock(t) PROVE TypedRest'
  BY <1>1, <1>3, LoopAssumption DEF Lock
<1>4. ASSUME NEW t \in Threads, TakeMore(t) PROVE TypedRest'
  BY <1>1, <1>4, LoopAssumption DEF TakeMore, Process
<1>5. ASSUME NEW t \in Threads, do_out(t) PROVE TypedRest'
  BY <1>1, <1>5, LoopAssumption DEF do_out
<1>6. ASSUME NEW t \in Threads, do_task(t) PROVE TypedRest'
  BY <1>1, <1>6, LoopAssumption DEF do_task, Signal, MayDoTask
<1>7. ASSUME NEW t \in Threads, CondWait(t) PROVE TypedRest'
  BY <1>1, <1>7, LoopAssumption DEF CondWait
<1>8. ASSUME NEW t \in Threads, StartPoll(t) PROVE TypedRest'
  BY <1>1, <1>8, LoopAssumption DEF StartPoll
<1>9. ASSUME NEW t \in Threads, TakeBacklog(t) PROVE TypedRest'
  BY <1>1, <1>9, LoopAssumption DEF TakeBacklog, Process
<1>10. ASSUME NEW t \in Threads, PollReturns(t) PROVE TypedRest'
  BY <1>1, <1>10, LoopAssumption DEF PollReturns
<1>11. ASSUME NEW t \in Threads, PollTimesOut(t) PROVE TypedRest'
  BY <1>1, <1>11, LoopAssumption DEF PollTimesOut
<1>12. ASSUME NEW t \in Threads, Polled(t) PROVE TypedRest'
  BY <1>1, <1>12, LoopAssumption DEF Polled, Process, Signal
<1>13. ASSUME NEW t \in Threads, ReactivateOut(t) PROVE TypedRest'
  BY <1>1, <1>13, LoopAssumption DEF ReactivateOut
<1>14. ASSUME NEW t \in Threads, Dispatch(t) PROVE TypedRest'
  BY <1>1, <1>14, LoopAssumption DEF Dispatch
<1>15. ASSUME NEW t \in Threads, CallbackReturns(t) PROVE TypedRest'
  BY <1>1, <1>15, LoopAssumption DEF CallbackReturns, StepsOK, HandlerPCs
<1>16. ASSUME NEW t \in Threads, Reactivate(t) PROVE TypedRest'
  BY <1>1, <1>16, LoopAssumption DEF Reactivate
<1>17. ASSUME NEW t \in Threads, Remove(t) PROVE TypedRest'
  BY <1>1, <1>17, LoopAssumption DEF Remove
<1>18. ASSUME NEW t \in Threads, reset_handler(t) PROVE TypedRest'
  BY <1>1, <1>18, LoopAssumption DEF reset_handler
<1>19. ASSUME NEW t \in Threads, RunTask(t) PROVE TypedRest'
  BY <1>1, <1>19, LoopAssumption DEF RunTask
<1>20. ASSUME NEW t \in Threads, write_event(t) PROVE TypedRest'
  BY <1>1, <1>20, LoopAssumption DEF write_event, Spend
<1>21. ASSUME NEW t \in Threads, FlushBroadcast(t) PROVE TypedRest'
  BY <1>1, <1>21, LoopAssumption DEF FlushBroadcast, Broadcast
<1>22. ASSUME NEW t \in Threads, event_more(t) PROVE TypedRest'
  BY <1>1, <1>22, LoopAssumption DEF event_more, Signal, Spend
<1>23. ASSUME NEW t \in Threads, event_next(t) PROVE TypedRest'
  BY <1>1, <1>23, LoopAssumption DEF event_next
<1>24. ASSUME NEW t \in Threads, event_remove(t) PROVE TypedRest'
  BY <1>1, <1>24, LoopAssumption DEF event_remove, StepsOK, HandlerPCs
<1>25. ASSUME NEW t \in Threads, submit(t) PROVE TypedRest'
  BY <1>1, <1>25, LoopAssumption DEF submit, Signal, Spend
<1>26. ASSUME NEW t \in Threads, watch(t) PROVE TypedRest'
  BY <1>1, <1>26, LoopAssumption DEF watch, Spend
<1>27. ASSUME NEW c \in Callers, start(c) PROVE TypedRest'
  BY <1>1, <1>27, LoopAssumption DEF start
<1>28. ASSUME NEW c \in Callers, end(c) PROVE TypedRest'
  BY <1>1, <1>28, LoopAssumption DEF end, Broadcast
<1>29. ASSUME NEW c \in Callers, join(c) PROVE TypedRest'
  BY <1>1, <1>29, LoopAssumption DEF join
<1>30. ASSUME NEW c \in Callers, flush(c) PROVE TypedRest'
  BY <1>1, <1>30, LoopAssumption DEF flush
<1>31. ASSUME NEW c \in Callers, run_once(c) PROVE TypedRest'
  BY <1>1, <1>31, LoopAssumption DEF run_once
<1>32. ASSUME NEW c \in Callers, Woken(c) PROVE TypedRest'
  BY <1>1, <1>32, LoopAssumption DEF Woken
<1>33. ASSUME NEW c \in Callers, add_handler(c) PROVE TypedRest'
  BY <1>1, <1>33, LoopAssumption DEF add_handler
<1>34. ASSUME NEW c \in Callers, remove_handler(c) PROVE TypedRest'
  BY <1>1, <1>34, LoopAssumption DEF remove_handler
<1>35. ASSUME NEW f \in Fds, Arrive(f) PROVE TypedRest'
  BY <1>1, <1>35, LoopAssumption DEF Arrive, Spend
<1>36. ASSUME NEW f \in OutFds, Drain(f) PROVE TypedRest'
  BY <1>1, <1>36, LoopAssumption DEF Drain
<1>37. ASSUME Stopped \/ Stranded PROVE TypedRest'
  BY <1>1, <1>37, LoopAssumption DEF Stopped, Stranded, vars
<1>38. QED
  BY <1>3, <1>4, <1>5, <1>6, <1>7, <1>8, <1>9, <1>10, <1>11, <1>12, <1>13, <1>14, <1>15, <1>16,
     <1>17, <1>18, <1>19, <1>20, <1>21, <1>22, <1>23, <1>24, <1>25, <1>26, <1>27, <1>28, <1>29,
     <1>30, <1>31, <1>32, <1>33, <1>34, <1>35, <1>36, <1>37
     DEF Next, TurnStep, HandlerCall, CallerStep

(* Every thread stays inside its own code. *)
LEMMA PcTyped ==
  ASSUME LoopInv, Next
  PROVE  TypedPC'
<1> USE DEF poolVars, mutexVars, coreVars, pollVars, queueVars, lifeVars, fdVars, handlerVars,
            outVars, threadVars, restVars,
            At, Again, WorkerPCs, CallerPCs, TurnPCs, TypedPC, Threads
<1>1. TypedPC
  BY Typed DEF LoopInv
<1>2. ASSUME NEW t \in Workers, Lock(t) PROVE TypedPC'
  BY <1>2, <1>1, LoopAssumption DEF Lock
<1>3. ASSUME NEW t \in Threads, TakeMore(t) PROVE TypedPC'
  BY <1>3, <1>1, LoopAssumption DEF TakeMore, Process
<1>4. ASSUME NEW t \in Threads, do_out(t) PROVE TypedPC'
  BY <1>4, <1>1, LoopAssumption DEF do_out
<1>5. ASSUME NEW t \in Threads, do_task(t) PROVE TypedPC'
  BY <1>5, <1>1, LoopAssumption DEF do_task
<1>6. ASSUME NEW t \in Threads, CondWait(t) PROVE TypedPC'
  BY <1>6, <1>1, LoopAssumption DEF CondWait
<1>7. ASSUME NEW t \in Threads, StartPoll(t) PROVE TypedPC'
  BY <1>7, <1>1, LoopAssumption DEF StartPoll
<1>8. ASSUME NEW t \in Threads, TakeBacklog(t) PROVE TypedPC'
  BY <1>8, <1>1, LoopAssumption DEF TakeBacklog, Process
<1>9. ASSUME NEW t \in Threads, PollReturns(t) PROVE TypedPC'
  BY <1>9, <1>1, LoopAssumption DEF PollReturns
<1>10. ASSUME NEW t \in Threads, PollTimesOut(t) PROVE TypedPC'
  BY <1>10, <1>1, LoopAssumption DEF PollTimesOut
<1>11. ASSUME NEW t \in Threads, Polled(t) PROVE TypedPC'
  BY <1>11, <1>1, LoopAssumption DEF Polled, Process
<1>12. ASSUME NEW t \in Threads, ReactivateOut(t) PROVE TypedPC'
  BY <1>12, <1>1, LoopAssumption DEF ReactivateOut
<1>13. ASSUME NEW t \in Threads, Dispatch(t) PROVE TypedPC'
  BY <1>13, <1>1, LoopAssumption DEF Dispatch
<1>14. ASSUME NEW t \in Threads, CallbackReturns(t) PROVE TypedPC'
  BY <1>14, <1>1, LoopAssumption DEF CallbackReturns
<1>15. ASSUME NEW t \in Threads, Reactivate(t) PROVE TypedPC'
  BY <1>15, <1>1, LoopAssumption DEF Reactivate
<1>16. ASSUME NEW t \in Threads, Remove(t) PROVE TypedPC'
  BY <1>16, <1>1, LoopAssumption DEF Remove
<1>17. ASSUME NEW t \in Threads, reset_handler(t) PROVE TypedPC'
  BY <1>17, <1>1, LoopAssumption DEF reset_handler
<1>18. ASSUME NEW t \in Threads, RunTask(t) PROVE TypedPC'
  BY <1>18, <1>1, LoopAssumption DEF RunTask
<1>19. ASSUME NEW t \in Threads, write_event(t) PROVE TypedPC'
  BY <1>19, <1>1, LoopAssumption DEF write_event
<1>20. ASSUME NEW t \in Threads, FlushBroadcast(t) PROVE TypedPC'
  BY <1>20, <1>1, LoopAssumption DEF FlushBroadcast
<1>21. ASSUME NEW t \in Threads, event_more(t) PROVE TypedPC'
  BY <1>21, <1>1, LoopAssumption DEF event_more
<1>22. ASSUME NEW t \in Threads, event_next(t) PROVE TypedPC'
  BY <1>22, <1>1, LoopAssumption DEF event_next
<1>23. ASSUME NEW t \in Threads, event_remove(t) PROVE TypedPC'
  BY <1>23, <1>1, LoopAssumption DEF event_remove
<1>24. ASSUME NEW t \in Threads, submit(t) PROVE TypedPC'
  BY <1>24, <1>1, LoopAssumption DEF submit
<1>25. ASSUME NEW t \in Threads, watch(t) PROVE TypedPC'
  BY <1>25, <1>1, LoopAssumption DEF watch
<1>26. ASSUME NEW c \in Callers, start(c) PROVE TypedPC'
  BY <1>26, <1>1, LoopAssumption DEF start
<1>27. ASSUME NEW c \in Callers, end(c) PROVE TypedPC'
  BY <1>27, <1>1, LoopAssumption DEF end
<1>28. ASSUME NEW c \in Callers, join(c) PROVE TypedPC'
  BY <1>28, <1>1, LoopAssumption DEF join
<1>29. ASSUME NEW c \in Callers, flush(c) PROVE TypedPC'
  BY <1>29, <1>1, LoopAssumption DEF flush
<1>30. ASSUME NEW c \in Callers, run_once(c) PROVE TypedPC'
  BY <1>30, <1>1, LoopAssumption DEF run_once
<1>31. ASSUME NEW c \in Callers, Woken(c) PROVE TypedPC'
  BY <1>31, <1>1, LoopAssumption DEF Woken
<1>32. ASSUME NEW c \in Callers, add_handler(c) PROVE TypedPC'
  BY <1>32, <1>1, LoopAssumption DEF add_handler
<1>33. ASSUME NEW c \in Callers, remove_handler(c) PROVE TypedPC'
  BY <1>33, <1>1, LoopAssumption DEF remove_handler
<1>34. ASSUME NEW f \in Fds, Arrive(f) PROVE TypedPC'
  BY <1>34, <1>1, LoopAssumption DEF Arrive
<1>35. ASSUME NEW f \in OutFds, Drain(f) PROVE TypedPC'
  BY <1>35, <1>1, LoopAssumption DEF Drain
<1>36. ASSUME Stopped \/ Stranded PROVE TypedPC'
  BY <1>36, <1>1, LoopAssumption DEF Stopped, Stranded, vars
<1>37. QED
  BY <1>2, <1>3, <1>4, <1>5, <1>6, <1>7, <1>8, <1>9, <1>10, <1>11, <1>12, <1>13, <1>14, <1>15,
     <1>16, <1>17, <1>18, <1>19, <1>20, <1>21, <1>22, <1>23, <1>24, <1>25, <1>26, <1>27, <1>28,
     <1>29, <1>30, <1>31, <1>32, <1>33, <1>34, <1>35, <1>36
     DEF Next, TurnStep, HandlerCall, CallerStep

(* process_handler: out's events are moved to out's queue. *)
LEMMA ProcessTyped ==
  ASSUME TypeOK, NEW t \in Threads, NEW ident \in Fds \cup {OutIdent}, Process(t, ident)
  PROVE  /\ ev' \in [Threads -> Fds \cup OutFds \cup {OutIdent, None}]
         /\ flags' \in [Threads -> SUBSET {"reactivated", "removed"}]
         /\ out_kernel' \in [OutFds -> Interest] /\ out_queue' \in Seq(OutFds)
<1>1. out_kernel \in [OutFds -> Interest] /\ out_queue \in Seq(OutFds)
  BY DEF TypeOK
<1>2. ASSUME NEW batch \in Batches(out_kernel, writable, BacklogSize),
             out_kernel' = wait(out_kernel, batch), out_queue' = out_queue \o batch
      PROVE  out_kernel' \in [OutFds -> Interest] /\ out_queue' \in Seq(OutFds)
  <2>1. batch \in Seq(OutFds)
    BY OutBatch
  <2>2. QED
    BY <1>1, <1>2, <2>1, WaitFacts
<1>3. out_kernel' \in [OutFds -> Interest] /\ out_queue' \in Seq(OutFds)
  BY <1>1, <1>2 DEF Process
<1>4. QED
  BY <1>3 DEF Process, TypeOK

(* The batch, the queues, the interest lists and the events in hand. *)
LEMMA EventsTyped ==
  ASSUME LoopInv, Next
  PROVE  TypedEvents'
<1> USE DEF poolVars, mutexVars, coreVars, pollVars, queueVars, lifeVars, fdVars, handlerVars,
            outVars, threadVars, restVars,
            TypedEvents, Threads
<1>1. TypeOK /\ StepsOK /\ TypedEvents /\ OnePoller /\ BacklogOK
  BY Typed DEF LoopInv
<1>2. ASSUME NEW t \in Workers, Lock(t) PROVE TypedEvents'
  BY <1>2, <1>1 DEF Lock
<1>3. ASSUME NEW t \in Threads, TakeMore(t) PROVE TypedEvents'
  BY <1>3, <1>1, ProcessTyped DEF TakeMore
<1>4. ASSUME NEW t \in Threads, do_out(t) PROVE TypedEvents'
  BY <1>4, <1>1 DEF do_out, MayDoOut
<1>5. ASSUME NEW t \in Threads, do_task(t) PROVE TypedEvents'
  BY <1>5, <1>1 DEF do_task
<1>6. ASSUME NEW t \in Threads, CondWait(t) PROVE TypedEvents'
  BY <1>6, <1>1 DEF CondWait
<1>7. ASSUME NEW t \in Threads, StartPoll(t) PROVE TypedEvents'
  BY <1>7, <1>1 DEF StartPoll
<1>8. ASSUME NEW t \in Threads, TakeBacklog(t) PROVE TypedEvents'
  <2>1. m_off \in Nat /\ m_num \in Nat /\ m_off < m_num /\ m_num = Len(m_backlog)
    BY <1>8, <1>1 DEF TakeBacklog, MayTakeEvent, OnePoller, Polling, BacklogOK
  <2>2. m_backlog[m_off + 1] \in Fds \cup {OutIdent}
    BY <1>1, <2>1
  <2>3. Process(t, m_backlog[m_off + 1])
    BY <1>8 DEF TakeBacklog
  <2>4. QED
    BY <1>8, <1>1, <2>1, <2>2, <2>3, ProcessTyped DEF TakeBacklog
<1>9. ASSUME NEW t \in Threads, PollReturns(t) PROVE TypedEvents'
  <2>1. PICK batch \in Batches(m_kernel, Level, BacklogSize) :
          m_kernel' = wait(m_kernel, batch) /\ m_backlog' = batch
    BY <1>9 DEF PollReturns
  <2>2. batch \in Seq(Fds \cup {OutIdent})
    BY <1>1, <2>1, LoopBatch
  <2>3. m_kernel' \in [Fds \cup {OutIdent} -> Interest]
    BY <1>1, <2>1, <2>2, WaitFacts
  <2>4. QED
    BY <1>9, <1>1, <2>1, <2>2, <2>3 DEF PollReturns
<1>10. ASSUME NEW t \in Threads, PollTimesOut(t) PROVE TypedEvents'
  BY <1>10, <1>1 DEF PollTimesOut
<1>11. ASSUME NEW t \in Threads, Polled(t) PROVE TypedEvents'
  <2>1. Len(m_backlog) \in 1..BacklogSize
    BY <1>11, <1>1 DEF Polled, BacklogOK
  <2>2. m_backlog[1] \in Fds \cup {OutIdent}
    BY <1>1, <2>1
  <2>3. Process(t, m_backlog[1])
    BY <1>11 DEF Polled
  <2>4. QED
    BY <1>11, <1>1, <2>1, <2>2, <2>3, ProcessTyped DEF Polled
<1>12. ASSUME NEW t \in Threads, ReactivateOut(t) PROVE TypedEvents'
  BY <1>12, <1>1, KernelCalls DEF ReactivateOut
<1>13. ASSUME NEW t \in Threads, Dispatch(t) PROVE TypedEvents'
  BY <1>13, <1>1 DEF Dispatch
<1>14. ASSUME NEW t \in Threads, CallbackReturns(t) PROVE TypedEvents'
  BY <1>14, <1>1 DEF CallbackReturns
<1>15. ASSUME NEW t \in Threads, Reactivate(t) PROVE TypedEvents'
  BY <1>15, <1>1, KernelCalls DEF Reactivate, StepsOK, HandlerPCs
<1>16. ASSUME NEW t \in Threads, Remove(t) PROVE TypedEvents'
  BY <1>16, <1>1, KernelCalls DEF Remove, StepsOK, HandlerPCs
<1>17. ASSUME NEW t \in Threads, reset_handler(t) PROVE TypedEvents'
  BY <1>17, <1>1 DEF reset_handler
<1>18. ASSUME NEW t \in Threads, RunTask(t) PROVE TypedEvents'
  BY <1>18, <1>1 DEF RunTask
<1>19. ASSUME NEW t \in Threads, write_event(t) PROVE TypedEvents'
  <2>1. PICK f \in OutFds : f = ev[t]
    BY <1>19, <1>1 DEF write_event, StepsOK
  <2>2. out_kernel' = remove(out_kernel, f) \/ out_kernel' = reactivate(out_kernel, f)
    BY <1>19, <2>1 DEF write_event
  <2>3. out_kernel' \in [OutFds -> Interest]
    BY <1>1, <2>1, <2>2, KernelCalls
  <2>4. QED
    BY <1>19, <1>1, <2>3 DEF write_event, Spend
<1>20. ASSUME NEW t \in Threads, FlushBroadcast(t) PROVE TypedEvents'
  BY <1>20, <1>1 DEF FlushBroadcast
<1>21. ASSUME NEW t \in Threads, event_more(t) PROVE TypedEvents'
  BY <1>21, <1>1 DEF event_more, SetFlag, StepsOK, HandlerPCs
<1>22. ASSUME NEW t \in Threads, event_next(t) PROVE TypedEvents'
  BY <1>22, <1>1, KernelCalls DEF event_next, SetFlag, StepsOK, HandlerPCs
<1>23. ASSUME NEW t \in Threads, event_remove(t) PROVE TypedEvents'
  BY <1>23, <1>1, KernelCalls DEF event_remove, SetFlag, StepsOK, HandlerPCs
<1>24. ASSUME NEW t \in Threads, submit(t) PROVE TypedEvents'
  BY <1>24, <1>1 DEF submit
<1>25. ASSUME NEW t \in Threads, watch(t) PROVE TypedEvents'
  BY <1>25, <1>1, KernelCalls DEF watch
<1>26. ASSUME NEW c \in Callers, start(c) PROVE TypedEvents'
  BY <1>26, <1>1 DEF start
<1>27. ASSUME NEW c \in Callers, end(c) PROVE TypedEvents'
  BY <1>27, <1>1 DEF end
<1>28. ASSUME NEW c \in Callers, join(c) PROVE TypedEvents'
  BY <1>28, <1>1 DEF join
<1>29. ASSUME NEW c \in Callers, flush(c) PROVE TypedEvents'
  BY <1>29, <1>1 DEF flush
<1>30. ASSUME NEW c \in Callers, run_once(c) PROVE TypedEvents'
  BY <1>30, <1>1 DEF run_once
<1>31. ASSUME NEW c \in Callers, Woken(c) PROVE TypedEvents'
  BY <1>31, <1>1 DEF Woken
<1>32. ASSUME NEW c \in Callers, add_handler(c) PROVE TypedEvents'
  <2>1. CASE pc[c] = "add_fd" /\ m_kernel' = add_fd(m_kernel, ev[c])
    <3>1. ev[c] \in Fds
      BY <2>1, <1>1 DEF StepsOK
    <3>2. m_kernel' \in [Fds \cup {OutIdent} -> Interest]
      BY <1>1, <2>1, <3>1, KernelCalls
    <3>3. QED
      BY <1>32, <1>1, <3>2 DEF add_handler
  <2>2. CASE m_kernel' = m_kernel
    BY <1>32, <1>1, <2>2 DEF add_handler
  <2>3. QED
    BY <1>32, <2>1, <2>2 DEF add_handler
<1>33. ASSUME NEW c \in Callers, remove_handler(c) PROVE TypedEvents'
  <2>1. CASE pc[c] = "remove_fd" /\ m_kernel' = remove(m_kernel, ev[c])
    <3>1. ev[c] \in Fds
      BY <2>1, <1>1 DEF StepsOK
    <3>2. m_kernel' \in [Fds \cup {OutIdent} -> Interest]
      BY <1>1, <2>1, <3>1, KernelCalls
    <3>3. m_state \subseteq Fds
      BY <1>1 DEF TypeOK
    <3>4. QED
      BY <1>33, <1>1, <3>2, <3>3 DEF remove_handler
  <2>2. CASE m_kernel' = m_kernel
    <3>1. m_state \subseteq Fds
      BY <1>1 DEF TypeOK
    <3>2. QED
      BY <1>33, <1>1, <2>2, <3>1 DEF remove_handler
  <2>3. QED
    BY <1>33, <2>1, <2>2 DEF remove_handler
<1>34. ASSUME NEW f \in Fds, Arrive(f) PROVE TypedEvents'
  BY <1>34, <1>1 DEF Arrive
<1>35. ASSUME NEW f \in OutFds, Drain(f) PROVE TypedEvents'
  BY <1>35, <1>1 DEF Drain
<1>36. ASSUME Stopped \/ Stranded PROVE TypedEvents'
  BY <1>36, <1>1 DEF Stopped, Stranded, vars
<1>37. QED
  BY <1>2, <1>3, <1>4, <1>5, <1>6, <1>7, <1>8, <1>9, <1>10, <1>11, <1>12, <1>13, <1>14, <1>15,
     <1>16, <1>17, <1>18, <1>19, <1>20, <1>21, <1>22, <1>23, <1>24, <1>25, <1>26, <1>27, <1>28,
     <1>29, <1>30, <1>31, <1>32, <1>33, <1>34, <1>35, <1>36
     DEF Next, TurnStep, HandlerCall, CallerStep

(* A thread never leaves the pool's code without start() and join(). *)
LEMMA PoolKept ==
  ASSUME LoopInv, Next
  PROVE  PoolOK'
<1> USE DEF poolVars, mutexVars, coreVars, pollVars, queueVars, lifeVars, fdVars, handlerVars,
            outVars, threadVars, restVars,
            PoolOK, At, Again, Threads
<1>1. TypedPC /\ TypedRest /\ PoolOK
  BY Typed DEF LoopInv
<1>2. ASSUME NEW t \in Workers, Lock(t) PROVE PoolOK'
  BY <1>2, <1>1, LoopAssumption DEF Lock, TypedPC
<1>3. ASSUME NEW t \in Threads, TakeMore(t) PROVE PoolOK'
  BY <1>3, <1>1, LoopAssumption DEF TakeMore, Process, TypedPC
<1>4. ASSUME NEW t \in Threads, do_out(t) PROVE PoolOK'
  BY <1>4, <1>1, LoopAssumption DEF do_out, TypedPC
<1>5. ASSUME NEW t \in Threads, do_task(t) PROVE PoolOK'
  BY <1>5, <1>1, LoopAssumption DEF do_task, TypedPC
<1>6. ASSUME NEW t \in Threads, CondWait(t) PROVE PoolOK'
  BY <1>6, <1>1, LoopAssumption DEF CondWait, TypedPC
<1>7. ASSUME NEW t \in Threads, StartPoll(t) PROVE PoolOK'
  BY <1>7, <1>1, LoopAssumption DEF StartPoll, TypedPC
<1>8. ASSUME NEW t \in Threads, TakeBacklog(t) PROVE PoolOK'
  BY <1>8, <1>1, LoopAssumption DEF TakeBacklog, Process, TypedPC
<1>9. ASSUME NEW t \in Threads, PollReturns(t) PROVE PoolOK'
  BY <1>9, <1>1, LoopAssumption DEF PollReturns, TypedPC
<1>10. ASSUME NEW t \in Threads, PollTimesOut(t) PROVE PoolOK'
  BY <1>10, <1>1, LoopAssumption DEF PollTimesOut, TypedPC
<1>11. ASSUME NEW t \in Threads, Polled(t) PROVE PoolOK'
  BY <1>11, <1>1, LoopAssumption DEF Polled, Process, TypedPC
<1>12. ASSUME NEW t \in Threads, ReactivateOut(t) PROVE PoolOK'
  BY <1>12, <1>1, LoopAssumption DEF ReactivateOut, TypedPC
<1>13. ASSUME NEW t \in Threads, Dispatch(t) PROVE PoolOK'
  BY <1>13, <1>1, LoopAssumption DEF Dispatch, TypedPC
<1>14. ASSUME NEW t \in Threads, CallbackReturns(t) PROVE PoolOK'
  BY <1>14, <1>1, LoopAssumption DEF CallbackReturns, TypedPC
<1>15. ASSUME NEW t \in Threads, Reactivate(t) PROVE PoolOK'
  BY <1>15, <1>1, LoopAssumption DEF Reactivate, TypedPC
<1>16. ASSUME NEW t \in Threads, Remove(t) PROVE PoolOK'
  BY <1>16, <1>1, LoopAssumption DEF Remove, TypedPC
<1>17. ASSUME NEW t \in Threads, reset_handler(t) PROVE PoolOK'
  BY <1>17, <1>1, LoopAssumption DEF reset_handler, TypedPC
<1>18. ASSUME NEW t \in Threads, RunTask(t) PROVE PoolOK'
  BY <1>18, <1>1, LoopAssumption DEF RunTask, TypedPC
<1>19. ASSUME NEW t \in Threads, write_event(t) PROVE PoolOK'
  BY <1>19, <1>1, LoopAssumption DEF write_event, TypedPC
<1>20. ASSUME NEW t \in Threads, FlushBroadcast(t) PROVE PoolOK'
  BY <1>20, <1>1, LoopAssumption DEF FlushBroadcast, TypedPC
<1>21. ASSUME NEW t \in Threads, event_more(t) PROVE PoolOK'
  BY <1>21, <1>1, LoopAssumption DEF event_more, TypedPC
<1>22. ASSUME NEW t \in Threads, event_next(t) PROVE PoolOK'
  BY <1>22, <1>1, LoopAssumption DEF event_next, TypedPC
<1>23. ASSUME NEW t \in Threads, event_remove(t) PROVE PoolOK'
  BY <1>23, <1>1, LoopAssumption DEF event_remove, TypedPC
<1>24. ASSUME NEW t \in Threads, submit(t) PROVE PoolOK'
  BY <1>24, <1>1, LoopAssumption DEF submit, TypedPC
<1>25. ASSUME NEW t \in Threads, watch(t) PROVE PoolOK'
  BY <1>25, <1>1, LoopAssumption DEF watch, TypedPC
<1>26. ASSUME NEW c \in Callers, start(c) PROVE PoolOK'
  BY <1>26, <1>1, LoopAssumption DEF start, TypedPC
<1>27. ASSUME NEW c \in Callers, end(c) PROVE PoolOK'
  BY <1>27, <1>1, LoopAssumption DEF end, TypedPC
<1>28. ASSUME NEW c \in Callers, join(c) PROVE PoolOK'
  BY <1>28, <1>1, LoopAssumption DEF join, TypedPC, TypedRest
<1>29. ASSUME NEW c \in Callers, flush(c) PROVE PoolOK'
  BY <1>29, <1>1, LoopAssumption DEF flush, TypedPC
<1>30. ASSUME NEW c \in Callers, run_once(c) PROVE PoolOK'
  BY <1>30, <1>1, LoopAssumption DEF run_once, TypedPC
<1>31. ASSUME NEW c \in Callers, Woken(c) PROVE PoolOK'
  BY <1>31, <1>1, LoopAssumption DEF Woken, TypedPC
<1>32. ASSUME NEW c \in Callers, add_handler(c) PROVE PoolOK'
  BY <1>32, <1>1, LoopAssumption DEF add_handler, TypedPC
<1>33. ASSUME NEW c \in Callers, remove_handler(c) PROVE PoolOK'
  BY <1>33, <1>1, LoopAssumption DEF remove_handler, TypedPC
<1>34. ASSUME NEW f \in Fds, Arrive(f) PROVE PoolOK'
  BY <1>34, <1>1, LoopAssumption DEF Arrive, TypedPC
<1>35. ASSUME NEW f \in OutFds, Drain(f) PROVE PoolOK'
  BY <1>35, <1>1, LoopAssumption DEF Drain, TypedPC
<1>36. ASSUME Stopped \/ Stranded PROVE PoolOK'
  BY <1>36, <1>1, LoopAssumption DEF Stopped, Stranded, vars, TypedPC
<1>37. QED
  BY <1>2, <1>3, <1>4, <1>5, <1>6, <1>7, <1>8, <1>9, <1>10, <1>11, <1>12, <1>13, <1>14, <1>15,
     <1>16, <1>17, <1>18, <1>19, <1>20, <1>21, <1>22, <1>23, <1>24, <1>25, <1>26, <1>27, <1>28,
     <1>29, <1>30, <1>31, <1>32, <1>33, <1>34, <1>35, <1>36
     DEF Next, TurnStep, HandlerCall, CallerStep

(* The poller's role has one holder. *)
LEMMA PollerKept ==
  ASSUME LoopInv, Next
  PROVE  OnePoller'
<1> USE DEF poolVars, mutexVars, coreVars, pollVars, queueVars, lifeVars, fdVars, handlerVars,
            outVars, threadVars, restVars,
            OnePoller, Polling, At, Again, Threads
<1>1. TypedPC /\ TypedEvents /\ OnePoller /\ PoolOK /\ BacklogOK
  BY Typed DEF LoopInv
<1>2. ASSUME NEW t \in Workers, Lock(t) PROVE OnePoller'
  BY <1>2, <1>1, LoopAssumption DEF Lock, TypedPC
<1>3. ASSUME NEW t \in Threads, TakeMore(t) PROVE OnePoller'
  BY <1>3, <1>1, LoopAssumption DEF TakeMore, Process, TypedPC
<1>4. ASSUME NEW t \in Threads, do_out(t) PROVE OnePoller'
  BY <1>4, <1>1, LoopAssumption DEF do_out, TypedPC
<1>5. ASSUME NEW t \in Threads, do_task(t) PROVE OnePoller'
  BY <1>5, <1>1, LoopAssumption DEF do_task, TypedPC
<1>6. ASSUME NEW t \in Threads, CondWait(t) PROVE OnePoller'
  BY <1>6, <1>1, LoopAssumption DEF CondWait, TypedPC
<1>7. ASSUME NEW t \in Threads, StartPoll(t) PROVE OnePoller'
  BY <1>7, <1>1, LoopAssumption DEF StartPoll, MayTakeEvent, TypedPC
<1>8. ASSUME NEW t \in Threads, TakeBacklog(t) PROVE OnePoller'
  BY <1>8, <1>1, LoopAssumption DEF TakeBacklog, Process, TypedPC, MayTakeEvent
<1>9. ASSUME NEW t \in Threads, PollReturns(t) PROVE OnePoller'
  BY <1>9, <1>1, LoopAssumption DEF PollReturns, TypedPC
<1>10. ASSUME NEW t \in Threads, PollTimesOut(t) PROVE OnePoller'
  BY <1>10, <1>1, LoopAssumption DEF PollTimesOut, TypedPC
<1>11. ASSUME NEW t \in Threads, Polled(t) PROVE OnePoller'
  BY <1>11, <1>1, LoopAssumption DEF Polled, Process, TypedPC
<1>12. ASSUME NEW t \in Threads, ReactivateOut(t) PROVE OnePoller'
  BY <1>12, <1>1, LoopAssumption DEF ReactivateOut, TypedPC
<1>13. ASSUME NEW t \in Threads, Dispatch(t) PROVE OnePoller'
  BY <1>13, <1>1, LoopAssumption DEF Dispatch, TypedPC
<1>14. ASSUME NEW t \in Threads, CallbackReturns(t) PROVE OnePoller'
  BY <1>14, <1>1, LoopAssumption DEF CallbackReturns, TypedPC
<1>15. ASSUME NEW t \in Threads, Reactivate(t) PROVE OnePoller'
  BY <1>15, <1>1, LoopAssumption DEF Reactivate, TypedPC
<1>16. ASSUME NEW t \in Threads, Remove(t) PROVE OnePoller'
  BY <1>16, <1>1, LoopAssumption DEF Remove, TypedPC
<1>17. ASSUME NEW t \in Threads, reset_handler(t) PROVE OnePoller'
  BY <1>17, <1>1, LoopAssumption DEF reset_handler, TypedPC
<1>18. ASSUME NEW t \in Threads, RunTask(t) PROVE OnePoller'
  BY <1>18, <1>1, LoopAssumption DEF RunTask, TypedPC
<1>19. ASSUME NEW t \in Threads, write_event(t) PROVE OnePoller'
  BY <1>19, <1>1, LoopAssumption DEF write_event, TypedPC
<1>20. ASSUME NEW t \in Threads, FlushBroadcast(t) PROVE OnePoller'
  BY <1>20, <1>1, LoopAssumption DEF FlushBroadcast, TypedPC
<1>21. ASSUME NEW t \in Threads, event_more(t) PROVE OnePoller'
  BY <1>21, <1>1, LoopAssumption DEF event_more, TypedPC
<1>22. ASSUME NEW t \in Threads, event_next(t) PROVE OnePoller'
  BY <1>22, <1>1, LoopAssumption DEF event_next, TypedPC
<1>23. ASSUME NEW t \in Threads, event_remove(t) PROVE OnePoller'
  BY <1>23, <1>1, LoopAssumption DEF event_remove, TypedPC
<1>24. ASSUME NEW t \in Threads, submit(t) PROVE OnePoller'
  BY <1>24, <1>1, LoopAssumption DEF submit, TypedPC
<1>25. ASSUME NEW t \in Threads, watch(t) PROVE OnePoller'
  BY <1>25, <1>1, LoopAssumption DEF watch, TypedPC
<1>26. ASSUME NEW c \in Callers, start(c) PROVE OnePoller'
  BY <1>26, <1>1, LoopAssumption DEF start, PoolOK, TypedPC
<1>27. ASSUME NEW c \in Callers, end(c) PROVE OnePoller'
  BY <1>27, <1>1, LoopAssumption DEF end, TypedPC
<1>28. ASSUME NEW c \in Callers, join(c) PROVE OnePoller'
  BY <1>28, <1>1, LoopAssumption DEF join, TypedPC
<1>29. ASSUME NEW c \in Callers, flush(c) PROVE OnePoller'
  BY <1>29, <1>1, LoopAssumption DEF flush, TypedPC
<1>30. ASSUME NEW c \in Callers, run_once(c) PROVE OnePoller'
  BY <1>30, <1>1, LoopAssumption DEF run_once, TypedPC
<1>31. ASSUME NEW c \in Callers, Woken(c) PROVE OnePoller'
  BY <1>31, <1>1, LoopAssumption DEF Woken, TypedPC
<1>32. ASSUME NEW c \in Callers, add_handler(c) PROVE OnePoller'
  BY <1>32, <1>1, LoopAssumption DEF add_handler, TypedPC
<1>33. ASSUME NEW c \in Callers, remove_handler(c) PROVE OnePoller'
  BY <1>33, <1>1, LoopAssumption DEF remove_handler, TypedPC
<1>34. ASSUME NEW f \in Fds, Arrive(f) PROVE OnePoller'
  BY <1>34, <1>1, LoopAssumption DEF Arrive, TypedPC
<1>35. ASSUME NEW f \in OutFds, Drain(f) PROVE OnePoller'
  BY <1>35, <1>1, LoopAssumption DEF Drain, TypedPC
<1>36. ASSUME Stopped \/ Stranded PROVE OnePoller'
  BY <1>36, <1>1, LoopAssumption DEF Stopped, Stranded, vars, TypedPC
<1>37. QED
  BY <1>2, <1>3, <1>4, <1>5, <1>6, <1>7, <1>8, <1>9, <1>10, <1>11, <1>12, <1>13, <1>14, <1>15,
     <1>16, <1>17, <1>18, <1>19, <1>20, <1>21, <1>22, <1>23, <1>24, <1>25, <1>26, <1>27, <1>28,
     <1>29, <1>30, <1>31, <1>32, <1>33, <1>34, <1>35, <1>36
     DEF Next, TurnStep, HandlerCall, CallerStep

(* A thread's event is the one its step is about. *)
LEMMA StepsKept ==
  ASSUME LoopInv, Next
  PROVE  StepsOK'
<1> USE DEF poolVars, mutexVars, coreVars, pollVars, queueVars, lifeVars, fdVars, handlerVars,
            outVars, threadVars, restVars,
            StepsOK, HandlerPCs, At, Again, Threads
<1>1. TypedPC /\ TypedEvents /\ TypedRest /\ StepsOK /\ PoolOK /\ OnePoller /\ BacklogOK
  BY Typed DEF LoopInv
<1>2. ASSUME NEW t \in Workers, Lock(t) PROVE StepsOK'
  BY <1>2, <1>1, LoopAssumption DEF Lock, TypedPC, TypedEvents
<1>3. ASSUME NEW t \in Threads, TakeMore(t) PROVE StepsOK'
  BY <1>3, <1>1, LoopAssumption DEF TakeMore, Process, TypedPC, TypedEvents
<1>4. ASSUME NEW t \in Threads, do_out(t) PROVE StepsOK'
  BY <1>4, <1>1, LoopAssumption DEF do_out, MayDoOut, TypedPC, TypedEvents
<1>5. ASSUME NEW t \in Threads, do_task(t) PROVE StepsOK'
  BY <1>5, <1>1, LoopAssumption DEF do_task, TypedPC, TypedEvents
<1>6. ASSUME NEW t \in Threads, CondWait(t) PROVE StepsOK'
  BY <1>6, <1>1, LoopAssumption DEF CondWait, TypedPC, TypedEvents
<1>7. ASSUME NEW t \in Threads, StartPoll(t) PROVE StepsOK'
  BY <1>7, <1>1, LoopAssumption DEF StartPoll, TypedPC, TypedEvents
<1>8. ASSUME NEW t \in Threads, TakeBacklog(t) PROVE StepsOK'
  BY <1>8, <1>1, LoopAssumption
     DEF TakeBacklog, Process, TypedPC, MayTakeEvent, TypedEvents, OnePoller, Polling,
         BacklogOK
<1>9. ASSUME NEW t \in Threads, PollReturns(t) PROVE StepsOK'
  BY <1>9, <1>1, LoopAssumption DEF PollReturns, TypedPC, TypedEvents
<1>10. ASSUME NEW t \in Threads, PollTimesOut(t) PROVE StepsOK'
  BY <1>10, <1>1, LoopAssumption DEF PollTimesOut, TypedPC, TypedEvents
<1>11. ASSUME NEW t \in Threads, Polled(t) PROVE StepsOK'
  BY <1>11, <1>1, LoopAssumption DEF Polled, Process, TypedPC, TypedEvents, BacklogOK
<1>12. ASSUME NEW t \in Threads, ReactivateOut(t) PROVE StepsOK'
  BY <1>12, <1>1, LoopAssumption DEF ReactivateOut, TypedPC, TypedEvents
<1>13. ASSUME NEW t \in Threads, Dispatch(t) PROVE StepsOK'
  BY <1>13, <1>1, LoopAssumption DEF Dispatch, TypedPC, TypedEvents
<1>14. ASSUME NEW t \in Threads, CallbackReturns(t) PROVE StepsOK'
  BY <1>14, <1>1, LoopAssumption DEF CallbackReturns, TypedPC, TypedEvents
<1>15. ASSUME NEW t \in Threads, Reactivate(t) PROVE StepsOK'
  BY <1>15, <1>1, LoopAssumption DEF Reactivate, TypedPC, TypedEvents
<1>16. ASSUME NEW t \in Threads, Remove(t) PROVE StepsOK'
  BY <1>16, <1>1, LoopAssumption DEF Remove, TypedPC, TypedEvents
<1>17. ASSUME NEW t \in Threads, reset_handler(t) PROVE StepsOK'
  BY <1>17, <1>1, LoopAssumption DEF reset_handler, TypedPC, TypedEvents
<1>18. ASSUME NEW t \in Threads, RunTask(t) PROVE StepsOK'
  BY <1>18, <1>1, LoopAssumption DEF RunTask, TypedPC, TypedEvents
<1>19. ASSUME NEW t \in Threads, write_event(t) PROVE StepsOK'
  BY <1>19, <1>1, LoopAssumption DEF write_event, TypedPC, TypedEvents
<1>20. ASSUME NEW t \in Threads, FlushBroadcast(t) PROVE StepsOK'
  BY <1>20, <1>1, LoopAssumption DEF FlushBroadcast, TypedPC, TypedEvents
<1>21. ASSUME NEW t \in Threads, event_more(t) PROVE StepsOK'
  BY <1>21, <1>1, LoopAssumption DEF event_more, SetFlag, TypedPC, TypedEvents
<1>22. ASSUME NEW t \in Threads, event_next(t) PROVE StepsOK'
  BY <1>22, <1>1, LoopAssumption DEF event_next, SetFlag, TypedPC, TypedEvents
<1>23. ASSUME NEW t \in Threads, event_remove(t) PROVE StepsOK'
  BY <1>23, <1>1, LoopAssumption DEF event_remove, SetFlag, TypedPC, TypedEvents
<1>24. ASSUME NEW t \in Threads, submit(t) PROVE StepsOK'
  BY <1>24, <1>1, LoopAssumption DEF submit, TypedPC, TypedEvents
<1>25. ASSUME NEW t \in Threads, watch(t) PROVE StepsOK'
  BY <1>25, <1>1, LoopAssumption DEF watch, TypedPC, TypedEvents
<1>26. ASSUME NEW c \in Callers, start(c) PROVE StepsOK'
  BY <1>26, <1>1, LoopAssumption DEF start, PoolOK, TypedPC, TypedEvents
<1>27. ASSUME NEW c \in Callers, end(c) PROVE StepsOK'
  BY <1>27, <1>1, LoopAssumption DEF end, TypedPC, TypedEvents
<1>28. ASSUME NEW c \in Callers, join(c) PROVE StepsOK'
  BY <1>28, <1>1, LoopAssumption DEF join, TypedPC, TypedEvents
<1>29. ASSUME NEW c \in Callers, flush(c) PROVE StepsOK'
  BY <1>29, <1>1, LoopAssumption DEF flush, TypedPC, TypedEvents
<1>30. ASSUME NEW c \in Callers, run_once(c) PROVE StepsOK'
  BY <1>30, <1>1, LoopAssumption DEF run_once, TypedPC, TypedEvents
<1>31. ASSUME NEW c \in Callers, Woken(c) PROVE StepsOK'
  BY <1>31, <1>1, LoopAssumption DEF Woken, TypedPC, TypedEvents
<1>32. ASSUME NEW c \in Callers, add_handler(c) PROVE StepsOK'
  BY <1>32, <1>1, LoopAssumption DEF add_handler, TypedPC, TypedEvents
<1>33. ASSUME NEW c \in Callers, remove_handler(c) PROVE StepsOK'
  BY <1>33, <1>1, LoopAssumption DEF remove_handler, TypedPC, TypedEvents, TypedRest
<1>34. ASSUME NEW f \in Fds, Arrive(f) PROVE StepsOK'
  BY <1>34, <1>1, LoopAssumption DEF Arrive, TypedPC, TypedEvents
<1>35. ASSUME NEW f \in OutFds, Drain(f) PROVE StepsOK'
  BY <1>35, <1>1, LoopAssumption DEF Drain, TypedPC, TypedEvents
<1>36. ASSUME Stopped \/ Stranded PROVE StepsOK'
  BY <1>36, <1>1, LoopAssumption DEF Stopped, Stranded, vars, TypedPC, TypedEvents
<1>37. QED
  BY <1>2, <1>3, <1>4, <1>5, <1>6, <1>7, <1>8, <1>9, <1>10, <1>11, <1>12, <1>13, <1>14, <1>15,
     <1>16, <1>17, <1>18, <1>19, <1>20, <1>21, <1>22, <1>23, <1>24, <1>25, <1>26, <1>27, <1>28,
     <1>29, <1>30, <1>31, <1>32, <1>33, <1>34, <1>35, <1>36
     DEF Next, TurnStep, HandlerCall, CallerStep

(* m_num is the length of the published batch. *)
LEMMA BacklogKept ==
  ASSUME LoopInv, Next
  PROVE  BacklogOK'
<1> USE DEF poolVars, mutexVars, coreVars, pollVars, queueVars, lifeVars, fdVars, handlerVars,
            outVars, threadVars, restVars,
            BacklogOK, At, Again, Threads
<1>1. TypeOK /\ TypedPC /\ TypedEvents /\ BacklogOK /\ PoolOK
  BY Typed DEF LoopInv
<1>2. ASSUME NEW t \in Workers, Lock(t) PROVE BacklogOK'
  BY <1>2, <1>1, LoopAssumption DEF Lock, TypedPC
<1>3. ASSUME NEW t \in Threads, TakeMore(t) PROVE BacklogOK'
  BY <1>3, <1>1, LoopAssumption DEF TakeMore, Process, TypedPC
<1>4. ASSUME NEW t \in Threads, do_out(t) PROVE BacklogOK'
  BY <1>4, <1>1, LoopAssumption DEF do_out, TypedPC
<1>5. ASSUME NEW t \in Threads, do_task(t) PROVE BacklogOK'
  BY <1>5, <1>1, LoopAssumption DEF do_task, TypedPC
<1>6. ASSUME NEW t \in Threads, CondWait(t) PROVE BacklogOK'
  BY <1>6, <1>1, LoopAssumption DEF CondWait, TypedPC
<1>7. ASSUME NEW t \in Threads, StartPoll(t) PROVE BacklogOK'
  BY <1>7, <1>1, LoopAssumption DEF StartPoll, TypedPC
<1>8. ASSUME NEW t \in Threads, TakeBacklog(t) PROVE BacklogOK'
  BY <1>8, <1>1, LoopAssumption DEF TakeBacklog, Process, TypedPC
<1>9. ASSUME NEW t \in Threads, PollReturns(t) PROVE BacklogOK'
  BY <1>9, <1>1, LoopBatch DEF PollReturns, TypedPC
<1>10. ASSUME NEW t \in Threads, PollTimesOut(t) PROVE BacklogOK'
  BY <1>10, <1>1, LoopAssumption DEF PollTimesOut, TypedPC
<1>11. ASSUME NEW t \in Threads, Polled(t) PROVE BacklogOK'
  BY <1>11, <1>1, LoopAssumption DEF Polled, Process, TypedPC, TypedEvents
<1>12. ASSUME NEW t \in Threads, ReactivateOut(t) PROVE BacklogOK'
  BY <1>12, <1>1, LoopAssumption DEF ReactivateOut, TypedPC
<1>13. ASSUME NEW t \in Threads, Dispatch(t) PROVE BacklogOK'
  BY <1>13, <1>1, LoopAssumption DEF Dispatch, TypedPC
<1>14. ASSUME NEW t \in Threads, CallbackReturns(t) PROVE BacklogOK'
  BY <1>14, <1>1, LoopAssumption DEF CallbackReturns, TypedPC
<1>15. ASSUME NEW t \in Threads, Reactivate(t) PROVE BacklogOK'
  BY <1>15, <1>1, LoopAssumption DEF Reactivate, TypedPC
<1>16. ASSUME NEW t \in Threads, Remove(t) PROVE BacklogOK'
  BY <1>16, <1>1, LoopAssumption DEF Remove, TypedPC
<1>17. ASSUME NEW t \in Threads, reset_handler(t) PROVE BacklogOK'
  BY <1>17, <1>1, LoopAssumption DEF reset_handler, TypedPC
<1>18. ASSUME NEW t \in Threads, RunTask(t) PROVE BacklogOK'
  BY <1>18, <1>1, LoopAssumption DEF RunTask, TypedPC
<1>19. ASSUME NEW t \in Threads, write_event(t) PROVE BacklogOK'
  BY <1>19, <1>1, LoopAssumption DEF write_event, TypedPC
<1>20. ASSUME NEW t \in Threads, FlushBroadcast(t) PROVE BacklogOK'
  BY <1>20, <1>1, LoopAssumption DEF FlushBroadcast, TypedPC
<1>21. ASSUME NEW t \in Threads, event_more(t) PROVE BacklogOK'
  BY <1>21, <1>1, LoopAssumption DEF event_more, TypedPC
<1>22. ASSUME NEW t \in Threads, event_next(t) PROVE BacklogOK'
  BY <1>22, <1>1, LoopAssumption DEF event_next, TypedPC
<1>23. ASSUME NEW t \in Threads, event_remove(t) PROVE BacklogOK'
  BY <1>23, <1>1, LoopAssumption DEF event_remove, TypedPC
<1>24. ASSUME NEW t \in Threads, submit(t) PROVE BacklogOK'
  BY <1>24, <1>1, LoopAssumption DEF submit, TypedPC
<1>25. ASSUME NEW t \in Threads, watch(t) PROVE BacklogOK'
  BY <1>25, <1>1, LoopAssumption DEF watch, TypedPC
<1>26. ASSUME NEW c \in Callers, start(c) PROVE BacklogOK'
  BY <1>26, <1>1, LoopAssumption DEF start, PoolOK, TypedPC
<1>27. ASSUME NEW c \in Callers, end(c) PROVE BacklogOK'
  BY <1>27, <1>1, LoopAssumption DEF end, TypedPC
<1>28. ASSUME NEW c \in Callers, join(c) PROVE BacklogOK'
  BY <1>28, <1>1, LoopAssumption DEF join, TypedPC
<1>29. ASSUME NEW c \in Callers, flush(c) PROVE BacklogOK'
  BY <1>29, <1>1, LoopAssumption DEF flush, TypedPC
<1>30. ASSUME NEW c \in Callers, run_once(c) PROVE BacklogOK'
  BY <1>30, <1>1, LoopAssumption DEF run_once, TypedPC
<1>31. ASSUME NEW c \in Callers, Woken(c) PROVE BacklogOK'
  BY <1>31, <1>1, LoopAssumption DEF Woken, TypedPC
<1>32. ASSUME NEW c \in Callers, add_handler(c) PROVE BacklogOK'
  BY <1>32, <1>1, LoopAssumption DEF add_handler, TypedPC
<1>33. ASSUME NEW c \in Callers, remove_handler(c) PROVE BacklogOK'
  BY <1>33, <1>1, LoopAssumption DEF remove_handler, TypedPC
<1>34. ASSUME NEW f \in Fds, Arrive(f) PROVE BacklogOK'
  BY <1>34, <1>1, LoopAssumption DEF Arrive, TypedPC
<1>35. ASSUME NEW f \in OutFds, Drain(f) PROVE BacklogOK'
  BY <1>35, <1>1, LoopAssumption DEF Drain, TypedPC
<1>36. ASSUME Stopped \/ Stranded PROVE BacklogOK'
  BY <1>36, <1>1, LoopAssumption DEF Stopped, Stranded, vars, TypedPC
<1>37. QED
  BY <1>2, <1>3, <1>4, <1>5, <1>6, <1>7, <1>8, <1>9, <1>10, <1>11, <1>12, <1>13, <1>14, <1>15,
     <1>16, <1>17, <1>18, <1>19, <1>20, <1>21, <1>22, <1>23, <1>24, <1>25, <1>26, <1>27, <1>28,
     <1>29, <1>30, <1>31, <1>32, <1>33, <1>34, <1>35, <1>36
     DEF Next, TurnStep, HandlerCall, CallerStep

(* Only add_handler brings a descriptor into the interest list. *)
Registers(f) == \E c \in Callers : pc[c] = "add_fd" /\ ev[c] = f /\ pc'[c] # "add_fd"
OnlyAdded ==
  \A f \in Fds \cup {OutIdent} :
    m_kernel[f] = "none" /\ m_kernel'[f] # "none" => Registers(f)

(* Only add_handler brings a descriptor into the interest list. *)
LEMMA Additions ==
  ASSUME LoopInv, Next
  PROVE  OnlyAdded
<1> USE DEF poolVars, mutexVars, coreVars, pollVars, queueVars, lifeVars, fdVars, handlerVars,
            outVars, threadVars, restVars,
            OnlyAdded, Threads
<1>1. TypeOK /\ StepsOK /\ m_kernel \in [Fds \cup {OutIdent} -> Interest]
  BY DEF LoopInv, TypeOK
<1>2. ASSUME NEW t \in Workers, Lock(t) PROVE OnlyAdded
  BY <1>2, <1>1 DEF Lock
<1>3. ASSUME NEW t \in Threads, TakeMore(t) PROVE OnlyAdded
  BY <1>3, <1>1 DEF TakeMore
<1>4. ASSUME NEW t \in Threads, do_out(t) PROVE OnlyAdded
  BY <1>4, <1>1 DEF do_out
<1>5. ASSUME NEW t \in Threads, do_task(t) PROVE OnlyAdded
  BY <1>5, <1>1 DEF do_task
<1>6. ASSUME NEW t \in Threads, CondWait(t) PROVE OnlyAdded
  BY <1>6, <1>1 DEF CondWait
<1>7. ASSUME NEW t \in Threads, StartPoll(t) PROVE OnlyAdded
  BY <1>7, <1>1 DEF StartPoll
<1>8. ASSUME NEW t \in Threads, TakeBacklog(t) PROVE OnlyAdded
  BY <1>8, <1>1 DEF TakeBacklog
<1>9. ASSUME NEW t \in Threads, PollReturns(t) PROVE OnlyAdded
  <2>1. PICK batch \in Batches(m_kernel, Level, BacklogSize) : m_kernel' = wait(m_kernel, batch)
    BY <1>9 DEF PollReturns
  <2>2. batch \in Seq(Fds \cup {OutIdent})
        /\ \A i \in 1..Len(batch) : m_kernel[batch[i]] = "armed"
    BY <1>1, <2>1, LoopBatch
  <2>3. QED
    BY <1>1, <2>1, <2>2, WaitFacts
<1>10. ASSUME NEW t \in Threads, PollTimesOut(t) PROVE OnlyAdded
  BY <1>10, <1>1 DEF PollTimesOut
<1>11. ASSUME NEW t \in Threads, Polled(t) PROVE OnlyAdded
  BY <1>11, <1>1 DEF Polled
<1>12. ASSUME NEW t \in Threads, ReactivateOut(t) PROVE OnlyAdded
  BY <1>12, <1>1, KernelCalls DEF ReactivateOut, StepsOK, HandlerPCs
<1>13. ASSUME NEW t \in Threads, Dispatch(t) PROVE OnlyAdded
  BY <1>13, <1>1 DEF Dispatch
<1>14. ASSUME NEW t \in Threads, CallbackReturns(t) PROVE OnlyAdded
  BY <1>14, <1>1 DEF CallbackReturns
<1>15. ASSUME NEW t \in Threads, Reactivate(t) PROVE OnlyAdded
  <2>1. PICK f \in Fds \cup {OutIdent} : f = ev[t]
    BY <1>15, <1>1 DEF Reactivate, StepsOK, HandlerPCs
  <2>2. m_kernel' = reactivate(m_kernel, f)
    BY <1>15, <2>1 DEF Reactivate
  <2>3. QED
    BY <1>1, <2>2, KernelCalls
<1>16. ASSUME NEW t \in Threads, Remove(t) PROVE OnlyAdded
  BY <1>16, <1>1, KernelCalls DEF Remove, StepsOK, HandlerPCs
<1>17. ASSUME NEW t \in Threads, reset_handler(t) PROVE OnlyAdded
  BY <1>17, <1>1 DEF reset_handler
<1>18. ASSUME NEW t \in Threads, RunTask(t) PROVE OnlyAdded
  BY <1>18, <1>1 DEF RunTask
<1>19. ASSUME NEW t \in Threads, write_event(t) PROVE OnlyAdded
  BY <1>19, <1>1 DEF write_event
<1>20. ASSUME NEW t \in Threads, FlushBroadcast(t) PROVE OnlyAdded
  BY <1>20, <1>1 DEF FlushBroadcast
<1>21. ASSUME NEW t \in Threads, event_more(t) PROVE OnlyAdded
  BY <1>21, <1>1 DEF event_more
<1>22. ASSUME NEW t \in Threads, event_next(t) PROVE OnlyAdded
  BY <1>22, <1>1, KernelCalls DEF event_next, StepsOK, HandlerPCs
<1>23. ASSUME NEW t \in Threads, event_remove(t) PROVE OnlyAdded
  BY <1>23, <1>1, KernelCalls DEF event_remove, StepsOK, HandlerPCs
<1>24. ASSUME NEW t \in Threads, submit(t) PROVE OnlyAdded
  BY <1>24, <1>1 DEF submit
<1>25. ASSUME NEW t \in Threads, watch(t) PROVE OnlyAdded
  BY <1>25, <1>1 DEF watch
<1>26. ASSUME NEW c \in Callers, start(c) PROVE OnlyAdded
  BY <1>26, <1>1 DEF start
<1>27. ASSUME NEW c \in Callers, end(c) PROVE OnlyAdded
  BY <1>27, <1>1 DEF end
<1>28. ASSUME NEW c \in Callers, join(c) PROVE OnlyAdded
  BY <1>28, <1>1 DEF join
<1>29. ASSUME NEW c \in Callers, flush(c) PROVE OnlyAdded
  BY <1>29, <1>1 DEF flush
<1>30. ASSUME NEW c \in Callers, run_once(c) PROVE OnlyAdded
  BY <1>30, <1>1 DEF run_once
<1>31. ASSUME NEW c \in Callers, Woken(c) PROVE OnlyAdded
  BY <1>31, <1>1 DEF Woken
<1>32. ASSUME NEW c \in Callers, add_handler(c) PROVE OnlyAdded
  <2>1. CASE m_kernel' = m_kernel
    BY <2>1
  <2>2. CASE pc[c] = "add_fd" /\ m_kernel' = add_fd(m_kernel, ev[c]) /\ At(c, "idle")
    <3>1. PICK f \in Fds \cup {OutIdent} : f = ev[c]
      BY <2>2, <1>1 DEF StepsOK
    <3>2. Registers(f)
      BY <1>1, <2>2, <3>1 DEF Registers, At, TypeOK
    <3>3. QED
      BY <1>1, <2>2, <3>1, <3>2, KernelCalls
  <2>3. QED
    BY <1>32, <2>1, <2>2 DEF add_handler
<1>33. ASSUME NEW c \in Callers, remove_handler(c) PROVE OnlyAdded
  <2>1. CASE m_kernel' = m_kernel
    BY <2>1
  <2>2. CASE pc[c] = "remove_fd" /\ m_kernel' = remove(m_kernel, ev[c])
    <3>1. PICK f \in Fds \cup {OutIdent} : f = ev[c]
      BY <2>2, <1>1 DEF StepsOK
    <3>2. QED
      BY <1>1, <2>2, <3>1, RemoveFacts
  <2>3. QED
    BY <1>33, <2>1, <2>2 DEF remove_handler
<1>34. ASSUME NEW f \in Fds, Arrive(f) PROVE OnlyAdded
  BY <1>34, <1>1 DEF Arrive
<1>35. ASSUME NEW f \in OutFds, Drain(f) PROVE OnlyAdded
  BY <1>35, <1>1 DEF Drain
<1>36. ASSUME Stopped \/ Stranded PROVE OnlyAdded
  BY <1>36, <1>1 DEF Stopped, Stranded, vars
<1>37. QED
  BY <1>2, <1>3, <1>4, <1>5, <1>6, <1>7, <1>8, <1>9, <1>10, <1>11, <1>12, <1>13, <1>14, <1>15,
     <1>16, <1>17, <1>18, <1>19, <1>20, <1>21, <1>22, <1>23, <1>24, <1>25, <1>26, <1>27, <1>28,
     <1>29, <1>30, <1>31, <1>32, <1>33, <1>34, <1>35, <1>36
     DEF Next, TurnStep, HandlerCall, CallerStep

(* A descriptor given up stays out of the interest list. *)
LEMMA GoneKept ==
  ASSUME LoopInv, Next
  PROVE  GoneOK'
<1> USE DEF poolVars, mutexVars, coreVars, pollVars, queueVars, lifeVars, fdVars, handlerVars,
            outVars, threadVars, restVars,
            GoneOK, HandlerPCs, At, Again, Threads
<1>1. TypeOK /\ StepsOK /\ TypedPC /\ TypedRest /\ TypedEvents /\ GoneOK /\ FreshOK /\ PoolOK
  BY Typed DEF LoopInv
<1>2. ASSUME NEW u \in Threads, pc[u] = "reset" \/ "removed" \in flags[u]
      PROVE  m_kernel'[ev[u]] = "none"
  <2>1. ev[u] \in Fds /\ m_kernel[ev[u]] = "none" /\ pc[u] \notin {"add_fd", "write_event"}
    BY <1>1, <1>2 DEF StepsOK, HandlerPCs
  <2>2. Seen(ev[u])
    BY <2>1 DEF Seen
  <2>3. ~ Registers(ev[u])
    BY <1>1, <2>1, <2>2 DEF FreshOK, Registers, Threads
  <2>4. QED
    BY <2>1, <2>3, Additions DEF OnlyAdded
<1>3. ASSUME NEW t \in Workers, Lock(t) PROVE GoneOK'
  BY <1>3, <1>1, <1>2, LoopAssumption DEF Lock, TypedPC, TypedEvents, StepsOK
<1>4. ASSUME NEW t \in Threads, TakeMore(t) PROVE GoneOK'
  BY <1>4, <1>1, <1>2, LoopAssumption DEF TakeMore, Process, TypedPC, TypedEvents
<1>5. ASSUME NEW t \in Threads, do_out(t) PROVE GoneOK'
  BY <1>5, <1>1, <1>2, LoopAssumption DEF do_out, TypedPC, TypedEvents, StepsOK
<1>6. ASSUME NEW t \in Threads, do_task(t) PROVE GoneOK'
  BY <1>6, <1>1, <1>2, LoopAssumption DEF do_task, TypedPC, TypedEvents, StepsOK
<1>7. ASSUME NEW t \in Threads, CondWait(t) PROVE GoneOK'
  BY <1>7, <1>1, <1>2, LoopAssumption DEF CondWait, TypedPC, TypedEvents, StepsOK
<1>8. ASSUME NEW t \in Threads, StartPoll(t) PROVE GoneOK'
  BY <1>8, <1>1, <1>2, LoopAssumption DEF StartPoll, TypedPC, TypedEvents, StepsOK
<1>9. ASSUME NEW t \in Threads, TakeBacklog(t) PROVE GoneOK'
  BY <1>9, <1>1, <1>2, LoopAssumption DEF TakeBacklog, Process, TypedPC, TypedEvents
<1>10. ASSUME NEW t \in Threads, PollReturns(t) PROVE GoneOK'
  BY <1>10, <1>1, <1>2, LoopAssumption DEF PollReturns, TypedPC, TypedEvents, StepsOK
<1>11. ASSUME NEW t \in Threads, PollTimesOut(t) PROVE GoneOK'
  BY <1>11, <1>1, <1>2, LoopAssumption DEF PollTimesOut, TypedPC, TypedEvents, StepsOK
<1>12. ASSUME NEW t \in Threads, Polled(t) PROVE GoneOK'
  BY <1>12, <1>1, <1>2, LoopAssumption DEF Polled, Process, TypedPC, TypedEvents
<1>13. ASSUME NEW t \in Threads, ReactivateOut(t) PROVE GoneOK'
  BY <1>13, <1>1, <1>2, LoopAssumption DEF ReactivateOut, TypedPC, TypedEvents, StepsOK
<1>14. ASSUME NEW t \in Threads, Dispatch(t) PROVE GoneOK'
  BY <1>14, <1>1, <1>2, LoopAssumption DEF Dispatch, TypedPC, TypedEvents, StepsOK, FreshOK, Seen
<1>15. ASSUME NEW t \in Threads, CallbackReturns(t) PROVE GoneOK'
  BY <1>15, <1>1, <1>2, LoopAssumption DEF CallbackReturns, TypedPC, TypedEvents, StepsOK
<1>16. ASSUME NEW t \in Threads, Reactivate(t) PROVE GoneOK'
  BY <1>16, <1>1, <1>2, LoopAssumption DEF Reactivate, TypedPC, TypedEvents, StepsOK
<1>17. ASSUME NEW t \in Threads, Remove(t) PROVE GoneOK'
  <2>1. PICK f \in Fds \cup {OutIdent} : f = ev[t]
    BY <1>17, <1>1 DEF Remove, StepsOK
  <2>2. m_kernel' = remove(m_kernel, f)
    BY <1>17, <2>1 DEF Remove
  <2>3. m_kernel'[ev[t]] = "none"
    BY <1>1, <2>1, <2>2, RemoveFacts DEF TypedEvents
  <2>4. QED
    BY <1>17, <1>1, <1>2, <2>3 DEF Remove, TypedPC, TypedEvents
<1>18. ASSUME NEW t \in Threads, reset_handler(t) PROVE GoneOK'
  BY <1>18, <1>1, <1>2, LoopAssumption DEF reset_handler, TypedPC, TypedEvents, StepsOK
<1>19. ASSUME NEW t \in Threads, RunTask(t) PROVE GoneOK'
  BY <1>19, <1>1, <1>2, LoopAssumption DEF RunTask, TypedPC, TypedEvents, StepsOK
<1>20. ASSUME NEW t \in Threads, write_event(t) PROVE GoneOK'
  BY <1>20, <1>1, <1>2, LoopAssumption DEF write_event, TypedPC, TypedEvents, StepsOK
<1>21. ASSUME NEW t \in Threads, FlushBroadcast(t) PROVE GoneOK'
  BY <1>21, <1>1, <1>2, LoopAssumption DEF FlushBroadcast, TypedPC, TypedEvents, StepsOK
<1>22. ASSUME NEW t \in Threads, event_more(t) PROVE GoneOK'
  BY <1>22, <1>1, <1>2, LoopAssumption DEF event_more, SetFlag, TypedPC, TypedEvents
<1>23. ASSUME NEW t \in Threads, event_next(t) PROVE GoneOK'
  BY <1>23, <1>1, <1>2, LoopAssumption DEF event_next, SetFlag, TypedPC, TypedEvents
<1>24. ASSUME NEW t \in Threads, event_remove(t) PROVE GoneOK'
  <2>1. PICK f \in Fds \cup {OutIdent} : f = ev[t]
    BY <1>24, <1>1 DEF event_remove, StepsOK
  <2>2. m_kernel' = remove(m_kernel, f)
    BY <1>24, <2>1 DEF event_remove
  <2>3. m_kernel'[ev[t]] = "none"
    BY <1>1, <2>1, <2>2, RemoveFacts DEF TypedEvents
  <2>4. QED
    BY <1>24, <1>1, <1>2, <2>3 DEF event_remove, SetFlag, TypedPC, TypedEvents
<1>25. ASSUME NEW t \in Threads, submit(t) PROVE GoneOK'
  BY <1>25, <1>1, <1>2, LoopAssumption DEF submit, TypedPC, TypedEvents, StepsOK
<1>26. ASSUME NEW t \in Threads, watch(t) PROVE GoneOK'
  BY <1>26, <1>1, <1>2, LoopAssumption DEF watch, TypedPC, TypedEvents, StepsOK
<1>27. ASSUME NEW c \in Callers, start(c) PROVE GoneOK'
  BY <1>27, <1>1, <1>2, LoopAssumption DEF start, PoolOK, TypedPC, TypedEvents
<1>28. ASSUME NEW c \in Callers, end(c) PROVE GoneOK'
  BY <1>28, <1>1, <1>2, LoopAssumption DEF end, TypedPC, TypedEvents, StepsOK
<1>29. ASSUME NEW c \in Callers, join(c) PROVE GoneOK'
  BY <1>29, <1>1, <1>2, LoopAssumption DEF join, TypedPC, TypedEvents, StepsOK
<1>30. ASSUME NEW c \in Callers, flush(c) PROVE GoneOK'
  BY <1>30, <1>1, <1>2, LoopAssumption DEF flush, TypedPC, TypedEvents, StepsOK
<1>31. ASSUME NEW c \in Callers, run_once(c) PROVE GoneOK'
  BY <1>31, <1>1, <1>2, LoopAssumption DEF run_once, TypedPC, TypedEvents, StepsOK
<1>32. ASSUME NEW c \in Callers, Woken(c) PROVE GoneOK'
  BY <1>32, <1>1, <1>2, LoopAssumption DEF Woken, TypedPC, TypedEvents, StepsOK
<1>33. ASSUME NEW c \in Callers, add_handler(c) PROVE GoneOK'
  BY <1>33, <1>1, <1>2, LoopAssumption DEF add_handler, TypedPC, TypedEvents, StepsOK
<1>34. ASSUME NEW c \in Callers, remove_handler(c) PROVE GoneOK'
  <2>1. \A u \in Threads : flags'[u] = flags[u] /\ (u # c => pc'[u] = pc[u] /\ ev'[u] = ev[u])
    BY <1>34, <1>1 DEF remove_handler, TypedPC, TypedEvents
  <2>2. pc'[c] \in {"remove_fd", "idle"} /\ flags[c] = {}
    BY <1>34, <1>1 DEF remove_handler, TypedPC, StepsOK
  <2>3. released \subseteq released'
    BY <1>34 DEF remove_handler
  <2>4. QED
    BY <1>1, <1>2, <2>1, <2>2, <2>3
<1>35. ASSUME NEW f \in Fds, Arrive(f) PROVE GoneOK'
  BY <1>35, <1>1, <1>2, LoopAssumption DEF Arrive, TypedPC, TypedEvents, StepsOK
<1>36. ASSUME NEW f \in OutFds, Drain(f) PROVE GoneOK'
  BY <1>36, <1>1, <1>2, LoopAssumption DEF Drain, TypedPC, TypedEvents, StepsOK
<1>37. ASSUME Stopped \/ Stranded PROVE GoneOK'
  BY <1>37, <1>1, <1>2, LoopAssumption DEF Stopped, Stranded, vars, TypedPC, TypedEvents, StepsOK
<1>38. QED
  BY <1>3, <1>4, <1>5, <1>6, <1>7, <1>8, <1>9, <1>10, <1>11, <1>12, <1>13, <1>14, <1>15, <1>16,
     <1>17, <1>18, <1>19, <1>20, <1>21, <1>22, <1>23, <1>24, <1>25, <1>26, <1>27, <1>28, <1>29,
     <1>30, <1>31, <1>32, <1>33, <1>34, <1>35, <1>36, <1>37
     DEF Next, TurnStep, HandlerCall, CallerStep


(* A descriptor in the interest list has a handler, or is being removed. *)
LEMMA HandlerKept ==
  ASSUME LoopInv, Next
  PROVE  KernelHasHandler'
<1> USE DEF poolVars, mutexVars, coreVars, pollVars, queueVars, lifeVars, fdVars, handlerVars,
            outVars, threadVars, restVars,
            KernelHasHandler, At, Again, Threads
<1>1. TypeOK /\ StepsOK /\ TypedPC /\ TypedRest /\ TypedEvents /\ GoneOK /\ FreshOK /\ PoolOK
      /\ KernelHasHandler
  BY Typed DEF LoopInv
<1>2. ASSUME NEW f \in Fds, m_kernel'[f] # "none"
      PROVE  f \in m_state \/ \E c \in Callers : pc[c] = "remove_fd" /\ ev[c] = f
  <2>1. CASE m_kernel[f] = "none"
    <3>1. Registers(f)
      BY <1>2, <2>1, Additions DEF OnlyAdded
    <3>2. QED
      BY <1>1, <3>1 DEF FreshOK, Registers, Threads
  <2>2. CASE m_kernel[f] # "none"
    BY <1>1, <2>2 DEF KernelHasHandler
  <2>3. QED
    BY <2>1, <2>2
<1>3. ASSUME NEW t \in Workers, Lock(t) PROVE KernelHasHandler'
  BY <1>3, <1>1, <1>2, LoopAssumption DEF Lock, TypedPC, TypedEvents
<1>4. ASSUME NEW t \in Threads, TakeMore(t) PROVE KernelHasHandler'
  BY <1>4, <1>1, <1>2, LoopAssumption DEF TakeMore, Process, TypedPC, TypedEvents
<1>5. ASSUME NEW t \in Threads, do_out(t) PROVE KernelHasHandler'
  BY <1>5, <1>1, <1>2, LoopAssumption DEF do_out, TypedPC, TypedEvents
<1>6. ASSUME NEW t \in Threads, do_task(t) PROVE KernelHasHandler'
  BY <1>6, <1>1, <1>2, LoopAssumption DEF do_task, TypedPC, TypedEvents
<1>7. ASSUME NEW t \in Threads, CondWait(t) PROVE KernelHasHandler'
  BY <1>7, <1>1, <1>2, LoopAssumption DEF CondWait, TypedPC, TypedEvents
<1>8. ASSUME NEW t \in Threads, StartPoll(t) PROVE KernelHasHandler'
  BY <1>8, <1>1, <1>2, LoopAssumption DEF StartPoll, TypedPC, TypedEvents
<1>9. ASSUME NEW t \in Threads, TakeBacklog(t) PROVE KernelHasHandler'
  BY <1>9, <1>1, <1>2, LoopAssumption DEF TakeBacklog, Process, TypedPC, TypedEvents
<1>10. ASSUME NEW t \in Threads, PollReturns(t) PROVE KernelHasHandler'
  BY <1>10, <1>1, <1>2, LoopAssumption DEF PollReturns, TypedPC, TypedEvents
<1>11. ASSUME NEW t \in Threads, PollTimesOut(t) PROVE KernelHasHandler'
  BY <1>11, <1>1, <1>2, LoopAssumption DEF PollTimesOut, TypedPC, TypedEvents
<1>12. ASSUME NEW t \in Threads, Polled(t) PROVE KernelHasHandler'
  BY <1>12, <1>1, <1>2, LoopAssumption DEF Polled, Process, TypedPC, TypedEvents
<1>13. ASSUME NEW t \in Threads, ReactivateOut(t) PROVE KernelHasHandler'
  BY <1>13, <1>1, <1>2, LoopAssumption DEF ReactivateOut, TypedPC, TypedEvents
<1>14. ASSUME NEW t \in Threads, Dispatch(t) PROVE KernelHasHandler'
  BY <1>14, <1>1, <1>2, LoopAssumption DEF Dispatch, TypedPC, TypedEvents
<1>15. ASSUME NEW t \in Threads, CallbackReturns(t) PROVE KernelHasHandler'
  BY <1>15, <1>1, <1>2, LoopAssumption DEF CallbackReturns, TypedPC, TypedEvents
<1>16. ASSUME NEW t \in Threads, Reactivate(t) PROVE KernelHasHandler'
  BY <1>16, <1>1, <1>2, LoopAssumption DEF Reactivate, TypedPC, TypedEvents
<1>17. ASSUME NEW t \in Threads, Remove(t) PROVE KernelHasHandler'
  BY <1>17, <1>1, <1>2, LoopAssumption DEF Remove, TypedPC, TypedEvents
<1>18. ASSUME NEW t \in Threads, reset_handler(t) PROVE KernelHasHandler'
  <2>1. "removed" \in flags[t] \/ pc[t] = "reset"
    BY <1>18, <1>1 DEF reset_handler, StepsOK
  <2>2. ev[t] \in Fds /\ m_kernel[ev[t]] = "none" /\ m_kernel' = m_kernel
    BY <1>18, <1>1, <2>1 DEF GoneOK, reset_handler, StepsOK, HandlerPCs
  <2>3. \A f \in Fds : m_kernel'[f] # "none" /\ f \in m_state => f \in m_state'
    BY <1>18, <2>2 DEF reset_handler
  <2>4. \A c \in Callers : pc[c] = "remove_fd" => c # t /\ pc'[c] = "remove_fd" /\ ev'[c] = ev[c]
    BY <1>18, <1>1 DEF reset_handler, TypedPC, TypedEvents
  <2>5. QED
    BY <1>2, <2>3, <2>4
<1>19. ASSUME NEW t \in Threads, RunTask(t) PROVE KernelHasHandler'
  BY <1>19, <1>1, <1>2, LoopAssumption DEF RunTask, TypedPC, TypedEvents
<1>20. ASSUME NEW t \in Threads, write_event(t) PROVE KernelHasHandler'
  BY <1>20, <1>1, <1>2, LoopAssumption DEF write_event, TypedPC, TypedEvents
<1>21. ASSUME NEW t \in Threads, FlushBroadcast(t) PROVE KernelHasHandler'
  BY <1>21, <1>1, <1>2, LoopAssumption DEF FlushBroadcast, TypedPC, TypedEvents
<1>22. ASSUME NEW t \in Threads, event_more(t) PROVE KernelHasHandler'
  BY <1>22, <1>1, <1>2, LoopAssumption DEF event_more, TypedPC, TypedEvents
<1>23. ASSUME NEW t \in Threads, event_next(t) PROVE KernelHasHandler'
  BY <1>23, <1>1, <1>2, LoopAssumption DEF event_next, TypedPC, TypedEvents
<1>24. ASSUME NEW t \in Threads, event_remove(t) PROVE KernelHasHandler'
  BY <1>24, <1>1, <1>2, LoopAssumption DEF event_remove, TypedPC, TypedEvents
<1>25. ASSUME NEW t \in Threads, submit(t) PROVE KernelHasHandler'
  BY <1>25, <1>1, <1>2, LoopAssumption DEF submit, TypedPC, TypedEvents
<1>26. ASSUME NEW t \in Threads, watch(t) PROVE KernelHasHandler'
  BY <1>26, <1>1, <1>2, LoopAssumption DEF watch, TypedPC, TypedEvents
<1>27. ASSUME NEW c \in Callers, start(c) PROVE KernelHasHandler'
  BY <1>27, <1>1, <1>2, LoopAssumption DEF start, PoolOK, TypedPC, TypedEvents
<1>28. ASSUME NEW c \in Callers, end(c) PROVE KernelHasHandler'
  BY <1>28, <1>1, <1>2, LoopAssumption DEF end, TypedPC, TypedEvents
<1>29. ASSUME NEW c \in Callers, join(c) PROVE KernelHasHandler'
  BY <1>29, <1>1, <1>2, LoopAssumption DEF join, TypedPC, TypedEvents
<1>30. ASSUME NEW c \in Callers, flush(c) PROVE KernelHasHandler'
  BY <1>30, <1>1, <1>2, LoopAssumption DEF flush, TypedPC, TypedEvents
<1>31. ASSUME NEW c \in Callers, run_once(c) PROVE KernelHasHandler'
  BY <1>31, <1>1, <1>2, LoopAssumption DEF run_once, TypedPC, TypedEvents
<1>32. ASSUME NEW c \in Callers, Woken(c) PROVE KernelHasHandler'
  BY <1>32, <1>1, <1>2, LoopAssumption DEF Woken, TypedPC, TypedEvents
<1>33. ASSUME NEW c \in Callers, add_handler(c) PROVE KernelHasHandler'
  BY <1>33, <1>1, <1>2, LoopAssumption DEF add_handler, TypedPC, TypedEvents
<1>34. ASSUME NEW c \in Callers, remove_handler(c) PROVE KernelHasHandler'
  <2>1. CASE pc[c] = "remove_fd"
    <3>1. PICK f \in Fds \cup {OutIdent} : f = ev[c]
      BY <2>1, <1>1 DEF StepsOK
    <3>2. m_kernel' = remove(m_kernel, f) /\ m_state' = m_state
      BY <1>34, <2>1, <3>1 DEF remove_handler
    <3>3. m_kernel'[f] = "none"
      BY <1>1, <3>1, <3>2, RemoveFacts DEF TypedEvents
    <3>4. QED
      BY <1>34, <1>1, <1>2, <2>1, <3>1, <3>2, <3>3 DEF remove_handler, TypedPC, TypedEvents
  <2>2. CASE pc[c] = "idle"
    BY <1>34, <1>1, <1>2, <2>2 DEF remove_handler, TypedPC, TypedEvents
  <2>3. QED
    BY <1>34, <2>1, <2>2 DEF remove_handler
<1>35. ASSUME NEW f \in Fds, Arrive(f) PROVE KernelHasHandler'
  BY <1>35, <1>1, <1>2, LoopAssumption DEF Arrive, TypedPC, TypedEvents
<1>36. ASSUME NEW f \in OutFds, Drain(f) PROVE KernelHasHandler'
  BY <1>36, <1>1, <1>2, LoopAssumption DEF Drain, TypedPC, TypedEvents
<1>37. ASSUME Stopped \/ Stranded PROVE KernelHasHandler'
  BY <1>37, <1>1, <1>2, LoopAssumption DEF Stopped, Stranded, vars, TypedPC, TypedEvents
<1>38. QED
  BY <1>3, <1>4, <1>5, <1>6, <1>7, <1>8, <1>9, <1>10, <1>11, <1>12, <1>13, <1>14, <1>15, <1>16,
     <1>17, <1>18, <1>19, <1>20, <1>21, <1>22, <1>23, <1>24, <1>25, <1>26, <1>27, <1>28, <1>29,
     <1>30, <1>31, <1>32, <1>33, <1>34, <1>35, <1>36, <1>37
     DEF Next, TurnStep, HandlerCall, CallerStep

-----------------------------------------------------------------------------
(* The places of a fired event.                                            *)

(* A step that leaves the batch, the more queue or the events in hand.     *)
BacklogSame == \A f \in Fds \cup {OutIdent} : InBacklog(f)' = InBacklog(f)
MoreSame == \A f \in Fds \cup {OutIdent} : InMore(f)' = InMore(f)
Holds(t, f) ==
  /\ ev[t] = f /\ "reactivated" \notin flags[t]
  /\ pc[t] \notin {"write_event", "add_fd", "remove_fd"}
HoldsSame ==
  \A t \in Threads : \A f \in Fds \cup {OutIdent} : Holds(t, f)' <=> Holds(t, f)

(* Only a poll and a taken event change what is left of the batch. *)
LEMMA BacklogMoves ==
  ASSUME LoopInv, Next
  PROVE  \/ BacklogSame
         \/ \E t \in Threads :
             \/ TakeBacklog(t) \/ PollReturns(t) \/ Polled(t)
<1> DEFINE Goal == \/ BacklogSame
                   \/ \E t \in Threads :
                       \/ TakeBacklog(t) \/ PollReturns(t) \/ Polled(t)
<1> USE DEF poolVars, mutexVars, coreVars, pollVars, queueVars, lifeVars, fdVars, handlerVars,
            outVars, threadVars, restVars,
            BacklogSame, InBacklog, At, Again, Threads
<1>1. TypedPC /\ PoolOK
  BY Typed DEF LoopInv
<1>2. ASSUME NEW t \in Workers, Lock(t) PROVE Goal
  BY <1>2, <1>1, LoopAssumption DEF Lock, TypedPC
<1>3. ASSUME NEW t \in Threads, TakeMore(t) PROVE Goal
  BY <1>3, <1>1, LoopAssumption DEF TakeMore, Process, TypedPC
<1>4. ASSUME NEW t \in Threads, do_out(t) PROVE Goal
  BY <1>4, <1>1, LoopAssumption DEF do_out, TypedPC
<1>5. ASSUME NEW t \in Threads, do_task(t) PROVE Goal
  BY <1>5, <1>1, LoopAssumption DEF do_task, TypedPC
<1>6. ASSUME NEW t \in Threads, CondWait(t) PROVE Goal
  BY <1>6, <1>1, LoopAssumption DEF CondWait, TypedPC
<1>7. ASSUME NEW t \in Threads, StartPoll(t) PROVE Goal
  BY <1>7, <1>1, LoopAssumption DEF StartPoll, TypedPC
<1>8. ASSUME NEW t \in Threads, TakeBacklog(t) PROVE Goal
  BY <1>8
<1>9. ASSUME NEW t \in Threads, PollReturns(t) PROVE Goal
  BY <1>9
<1>10. ASSUME NEW t \in Threads, PollTimesOut(t) PROVE Goal
  BY <1>10, <1>1, LoopAssumption DEF PollTimesOut, TypedPC
<1>11. ASSUME NEW t \in Threads, Polled(t) PROVE Goal
  BY <1>11
<1>12. ASSUME NEW t \in Threads, ReactivateOut(t) PROVE Goal
  BY <1>12, <1>1, LoopAssumption DEF ReactivateOut, TypedPC
<1>13. ASSUME NEW t \in Threads, Dispatch(t) PROVE Goal
  BY <1>13, <1>1, LoopAssumption DEF Dispatch, TypedPC
<1>14. ASSUME NEW t \in Threads, CallbackReturns(t) PROVE Goal
  BY <1>14, <1>1, LoopAssumption DEF CallbackReturns, TypedPC
<1>15. ASSUME NEW t \in Threads, Reactivate(t) PROVE Goal
  BY <1>15, <1>1, LoopAssumption DEF Reactivate, TypedPC
<1>16. ASSUME NEW t \in Threads, Remove(t) PROVE Goal
  BY <1>16, <1>1, LoopAssumption DEF Remove, TypedPC
<1>17. ASSUME NEW t \in Threads, reset_handler(t) PROVE Goal
  BY <1>17, <1>1, LoopAssumption DEF reset_handler, TypedPC
<1>18. ASSUME NEW t \in Threads, RunTask(t) PROVE Goal
  BY <1>18, <1>1, LoopAssumption DEF RunTask, TypedPC
<1>19. ASSUME NEW t \in Threads, write_event(t) PROVE Goal
  BY <1>19, <1>1, LoopAssumption DEF write_event, TypedPC
<1>20. ASSUME NEW t \in Threads, FlushBroadcast(t) PROVE Goal
  BY <1>20, <1>1, LoopAssumption DEF FlushBroadcast, TypedPC
<1>21. ASSUME NEW t \in Threads, event_more(t) PROVE Goal
  BY <1>21, <1>1, LoopAssumption DEF event_more, TypedPC
<1>22. ASSUME NEW t \in Threads, event_next(t) PROVE Goal
  BY <1>22, <1>1, LoopAssumption DEF event_next, TypedPC
<1>23. ASSUME NEW t \in Threads, event_remove(t) PROVE Goal
  BY <1>23, <1>1, LoopAssumption DEF event_remove, TypedPC
<1>24. ASSUME NEW t \in Threads, submit(t) PROVE Goal
  BY <1>24, <1>1, LoopAssumption DEF submit, TypedPC
<1>25. ASSUME NEW t \in Threads, watch(t) PROVE Goal
  BY <1>25, <1>1, LoopAssumption DEF watch, TypedPC
<1>26. ASSUME NEW c \in Callers, start(c) PROVE Goal
  BY <1>26, <1>1, LoopAssumption DEF start, PoolOK, TypedPC
<1>27. ASSUME NEW c \in Callers, end(c) PROVE Goal
  BY <1>27, <1>1, LoopAssumption DEF end, TypedPC
<1>28. ASSUME NEW c \in Callers, join(c) PROVE Goal
  BY <1>28, <1>1, LoopAssumption DEF join, TypedPC
<1>29. ASSUME NEW c \in Callers, flush(c) PROVE Goal
  BY <1>29, <1>1, LoopAssumption DEF flush, TypedPC
<1>30. ASSUME NEW c \in Callers, run_once(c) PROVE Goal
  BY <1>30, <1>1, LoopAssumption DEF run_once, TypedPC
<1>31. ASSUME NEW c \in Callers, Woken(c) PROVE Goal
  BY <1>31, <1>1, LoopAssumption DEF Woken, TypedPC
<1>32. ASSUME NEW c \in Callers, add_handler(c) PROVE Goal
  BY <1>32, <1>1, LoopAssumption DEF add_handler, TypedPC
<1>33. ASSUME NEW c \in Callers, remove_handler(c) PROVE Goal
  BY <1>33, <1>1, LoopAssumption DEF remove_handler, TypedPC
<1>34. ASSUME NEW f \in Fds, Arrive(f) PROVE Goal
  BY <1>34, <1>1, LoopAssumption DEF Arrive, TypedPC
<1>35. ASSUME NEW f \in OutFds, Drain(f) PROVE Goal
  BY <1>35, <1>1, LoopAssumption DEF Drain, TypedPC
<1>36. ASSUME Stopped \/ Stranded PROVE Goal
  BY <1>36, <1>1, LoopAssumption DEF Stopped, Stranded, vars, TypedPC
<1>37. QED
  BY <1>2, <1>3, <1>4, <1>5, <1>6, <1>7, <1>8, <1>9, <1>10, <1>11, <1>12, <1>13, <1>14, <1>15,
     <1>16, <1>17, <1>18, <1>19, <1>20, <1>21, <1>22, <1>23, <1>24, <1>25, <1>26, <1>27, <1>28,
     <1>29, <1>30, <1>31, <1>32, <1>33, <1>34, <1>35, <1>36
     DEF Next, TurnStep, HandlerCall, CallerStep

(* Only event::more and TakeMore change the more queue. *)
LEMMA MoreMoves ==
  ASSUME LoopInv, Next
  PROVE  MoreSame \/ \E t \in Threads : TakeMore(t) \/ event_more(t)
<1> DEFINE Goal == MoreSame \/ \E t \in Threads : TakeMore(t) \/ event_more(t)
<1> USE DEF poolVars, mutexVars, coreVars, pollVars, queueVars, lifeVars, fdVars, handlerVars,
            outVars, threadVars, restVars,
            MoreSame, InMore
<1>1. TRUE
  OBVIOUS
<1>2. ASSUME NEW t \in Workers, Lock(t) PROVE Goal
  BY <1>2 DEF Lock
<1>3. ASSUME NEW t \in Threads, TakeMore(t) PROVE Goal
  BY <1>3
<1>4. ASSUME NEW t \in Threads, do_out(t) PROVE Goal
  BY <1>4 DEF do_out
<1>5. ASSUME NEW t \in Threads, do_task(t) PROVE Goal
  BY <1>5 DEF do_task
<1>6. ASSUME NEW t \in Threads, CondWait(t) PROVE Goal
  BY <1>6 DEF CondWait
<1>7. ASSUME NEW t \in Threads, StartPoll(t) PROVE Goal
  BY <1>7 DEF StartPoll
<1>8. ASSUME NEW t \in Threads, TakeBacklog(t) PROVE Goal
  BY <1>8 DEF TakeBacklog
<1>9. ASSUME NEW t \in Threads, PollReturns(t) PROVE Goal
  BY <1>9 DEF PollReturns
<1>10. ASSUME NEW t \in Threads, PollTimesOut(t) PROVE Goal
  BY <1>10 DEF PollTimesOut
<1>11. ASSUME NEW t \in Threads, Polled(t) PROVE Goal
  BY <1>11 DEF Polled
<1>12. ASSUME NEW t \in Threads, ReactivateOut(t) PROVE Goal
  BY <1>12 DEF ReactivateOut
<1>13. ASSUME NEW t \in Threads, Dispatch(t) PROVE Goal
  BY <1>13 DEF Dispatch
<1>14. ASSUME NEW t \in Threads, CallbackReturns(t) PROVE Goal
  BY <1>14 DEF CallbackReturns
<1>15. ASSUME NEW t \in Threads, Reactivate(t) PROVE Goal
  BY <1>15 DEF Reactivate
<1>16. ASSUME NEW t \in Threads, Remove(t) PROVE Goal
  BY <1>16 DEF Remove
<1>17. ASSUME NEW t \in Threads, reset_handler(t) PROVE Goal
  BY <1>17 DEF reset_handler
<1>18. ASSUME NEW t \in Threads, RunTask(t) PROVE Goal
  BY <1>18 DEF RunTask
<1>19. ASSUME NEW t \in Threads, write_event(t) PROVE Goal
  BY <1>19 DEF write_event
<1>20. ASSUME NEW t \in Threads, FlushBroadcast(t) PROVE Goal
  BY <1>20 DEF FlushBroadcast
<1>21. ASSUME NEW t \in Threads, event_more(t) PROVE Goal
  BY <1>21
<1>22. ASSUME NEW t \in Threads, event_next(t) PROVE Goal
  BY <1>22 DEF event_next
<1>23. ASSUME NEW t \in Threads, event_remove(t) PROVE Goal
  BY <1>23 DEF event_remove
<1>24. ASSUME NEW t \in Threads, submit(t) PROVE Goal
  BY <1>24 DEF submit
<1>25. ASSUME NEW t \in Threads, watch(t) PROVE Goal
  BY <1>25 DEF watch
<1>26. ASSUME NEW c \in Callers, start(c) PROVE Goal
  BY <1>26 DEF start
<1>27. ASSUME NEW c \in Callers, end(c) PROVE Goal
  BY <1>27 DEF end
<1>28. ASSUME NEW c \in Callers, join(c) PROVE Goal
  BY <1>28 DEF join
<1>29. ASSUME NEW c \in Callers, flush(c) PROVE Goal
  BY <1>29 DEF flush
<1>30. ASSUME NEW c \in Callers, run_once(c) PROVE Goal
  BY <1>30 DEF run_once
<1>31. ASSUME NEW c \in Callers, Woken(c) PROVE Goal
  BY <1>31 DEF Woken
<1>32. ASSUME NEW c \in Callers, add_handler(c) PROVE Goal
  BY <1>32 DEF add_handler
<1>33. ASSUME NEW c \in Callers, remove_handler(c) PROVE Goal
  BY <1>33 DEF remove_handler
<1>34. ASSUME NEW f \in Fds, Arrive(f) PROVE Goal
  BY <1>34 DEF Arrive
<1>35. ASSUME NEW f \in OutFds, Drain(f) PROVE Goal
  BY <1>35 DEF Drain
<1>36. ASSUME Stopped \/ Stranded PROVE Goal
  BY <1>36 DEF Stopped, Stranded, vars
<1>37. QED
  BY <1>2, <1>3, <1>4, <1>5, <1>6, <1>7, <1>8, <1>9, <1>10, <1>11, <1>12, <1>13, <1>14, <1>15,
     <1>16, <1>17, <1>18, <1>19, <1>20, <1>21, <1>22, <1>23, <1>24, <1>25, <1>26, <1>27, <1>28,
     <1>29, <1>30, <1>31, <1>32, <1>33, <1>34, <1>35, <1>36
     DEF Next, TurnStep, HandlerCall, CallerStep

(* The steps that give a thread an event in hand, or take it away. *)
LEMMA HoldMoves ==
  ASSUME LoopInv, Next
  PROVE  \/ HoldsSame
         \/ \E t \in Threads :
             \/ TakeMore(t) \/ TakeBacklog(t) \/ Polled(t) \/ ReactivateOut(t)
             \/ event_more(t) \/ event_next(t) \/ CallbackReturns(t) \/ Reactivate(t)
             \/ reset_handler(t)
<1> DEFINE Goal == \/ HoldsSame
                   \/ \E t \in Threads :
                       \/ TakeMore(t) \/ TakeBacklog(t) \/ Polled(t) \/ ReactivateOut(t)
                       \/ event_more(t) \/ event_next(t) \/ CallbackReturns(t) \/ Reactivate(t)
                       \/ reset_handler(t)
<1> USE DEF poolVars, mutexVars, coreVars, pollVars, queueVars, lifeVars, fdVars, handlerVars,
            outVars, threadVars, restVars,
            HoldsSame, Holds, At, Again, Threads
<1>1. TypedPC /\ TypedEvents /\ TypedRest /\ StepsOK /\ PoolOK
  BY Typed DEF LoopInv
<1>2. ASSUME NEW t \in Workers, Lock(t) PROVE Goal
  BY <1>2, <1>1, LoopAssumption DEF Lock, TypedPC, StepsOK, HandlerPCs
<1>3. ASSUME NEW t \in Threads, TakeMore(t) PROVE Goal
  BY <1>3
<1>4. ASSUME NEW t \in Threads, do_out(t) PROVE Goal
  BY <1>4, <1>1, LoopAssumption DEF do_out, TypedPC, TypedEvents, StepsOK, HandlerPCs
<1>5. ASSUME NEW t \in Threads, do_task(t) PROVE Goal
  BY <1>5, <1>1, LoopAssumption DEF do_task, TypedPC, StepsOK, HandlerPCs
<1>6. ASSUME NEW t \in Threads, CondWait(t) PROVE Goal
  BY <1>6, <1>1, LoopAssumption DEF CondWait, TypedPC, StepsOK, HandlerPCs
<1>7. ASSUME NEW t \in Threads, StartPoll(t) PROVE Goal
  BY <1>7, <1>1, LoopAssumption DEF StartPoll, TypedPC, StepsOK, HandlerPCs
<1>8. ASSUME NEW t \in Threads, TakeBacklog(t) PROVE Goal
  BY <1>8
<1>9. ASSUME NEW t \in Threads, PollReturns(t) PROVE Goal
  BY <1>9, <1>1, LoopAssumption DEF PollReturns, TypedPC, StepsOK, HandlerPCs
<1>10. ASSUME NEW t \in Threads, PollTimesOut(t) PROVE Goal
  BY <1>10, <1>1, LoopAssumption DEF PollTimesOut, TypedPC, StepsOK, HandlerPCs
<1>11. ASSUME NEW t \in Threads, Polled(t) PROVE Goal
  BY <1>11
<1>12. ASSUME NEW t \in Threads, ReactivateOut(t) PROVE Goal
  BY <1>12
<1>13. ASSUME NEW t \in Threads, Dispatch(t) PROVE Goal
  BY <1>13, <1>1, LoopAssumption DEF Dispatch, TypedPC, StepsOK, HandlerPCs
<1>14. ASSUME NEW t \in Threads, CallbackReturns(t) PROVE Goal
  BY <1>14
<1>15. ASSUME NEW t \in Threads, Reactivate(t) PROVE Goal
  BY <1>15
<1>16. ASSUME NEW t \in Threads, Remove(t) PROVE Goal
  BY <1>16, <1>1, LoopAssumption DEF Remove, TypedPC, StepsOK, HandlerPCs
<1>17. ASSUME NEW t \in Threads, reset_handler(t) PROVE Goal
  BY <1>17
<1>18. ASSUME NEW t \in Threads, RunTask(t) PROVE Goal
  BY <1>18, <1>1, LoopAssumption DEF RunTask, TypedPC, StepsOK, HandlerPCs
<1>19. ASSUME NEW t \in Threads, write_event(t) PROVE Goal
  BY <1>19, <1>1, LoopAssumption DEF write_event, TypedPC, TypedEvents, StepsOK, HandlerPCs
<1>20. ASSUME NEW t \in Threads, FlushBroadcast(t) PROVE Goal
  BY <1>20, <1>1, LoopAssumption DEF FlushBroadcast, TypedPC, StepsOK, HandlerPCs
<1>21. ASSUME NEW t \in Threads, event_more(t) PROVE Goal
  BY <1>21
<1>22. ASSUME NEW t \in Threads, event_next(t) PROVE Goal
  BY <1>22
<1>23. ASSUME NEW t \in Threads, event_remove(t) PROVE Goal
  BY <1>23, <1>1, LoopAssumption DEF event_remove, SetFlag, TypedPC, TypedEvents
<1>24. ASSUME NEW t \in Threads, submit(t) PROVE Goal
  BY <1>24, <1>1, LoopAssumption DEF submit, TypedPC, StepsOK, HandlerPCs
<1>25. ASSUME NEW t \in Threads, watch(t) PROVE Goal
  BY <1>25, <1>1, LoopAssumption DEF watch, TypedPC, StepsOK, HandlerPCs
<1>26. ASSUME NEW c \in Callers, start(c) PROVE Goal
  BY <1>26, <1>1, LoopAssumption DEF start, PoolOK, TypedPC
<1>27. ASSUME NEW c \in Callers, end(c) PROVE Goal
  BY <1>27, <1>1, LoopAssumption DEF end, TypedPC, StepsOK, HandlerPCs
<1>28. ASSUME NEW c \in Callers, join(c) PROVE Goal
  BY <1>28, <1>1, LoopAssumption DEF join, TypedPC, StepsOK, HandlerPCs
<1>29. ASSUME NEW c \in Callers, flush(c) PROVE Goal
  BY <1>29, <1>1, LoopAssumption DEF flush, TypedPC, StepsOK, HandlerPCs
<1>30. ASSUME NEW c \in Callers, run_once(c) PROVE Goal
  BY <1>30, <1>1, LoopAssumption DEF run_once, TypedPC, StepsOK, HandlerPCs
<1>31. ASSUME NEW c \in Callers, Woken(c) PROVE Goal
  BY <1>31, <1>1, LoopAssumption DEF Woken, TypedPC, StepsOK, HandlerPCs
<1>32. ASSUME NEW c \in Callers, add_handler(c) PROVE Goal
  BY <1>32, <1>1, LoopAssumption DEF add_handler, TypedPC, TypedEvents, StepsOK, HandlerPCs
<1>33. ASSUME NEW c \in Callers, remove_handler(c) PROVE Goal
  BY <1>33, <1>1, LoopAssumption DEF remove_handler, TypedPC, TypedEvents, StepsOK, HandlerPCs
<1>34. ASSUME NEW f \in Fds, Arrive(f) PROVE Goal
  BY <1>34, <1>1, LoopAssumption DEF Arrive, TypedPC, StepsOK, HandlerPCs
<1>35. ASSUME NEW f \in OutFds, Drain(f) PROVE Goal
  BY <1>35, <1>1, LoopAssumption DEF Drain, TypedPC, StepsOK, HandlerPCs
<1>36. ASSUME Stopped \/ Stranded PROVE Goal
  BY <1>36, <1>1, LoopAssumption DEF Stopped, Stranded, vars, TypedPC, StepsOK, HandlerPCs
<1>37. QED
  BY <1>2, <1>3, <1>4, <1>5, <1>6, <1>7, <1>8, <1>9, <1>10, <1>11, <1>12, <1>13, <1>14, <1>15,
     <1>16, <1>17, <1>18, <1>19, <1>20, <1>21, <1>22, <1>23, <1>24, <1>25, <1>26, <1>27, <1>28,
     <1>29, <1>30, <1>31, <1>32, <1>33, <1>34, <1>35, <1>36
     DEF Next, TurnStep, HandlerCall, CallerStep

(* A batch holds only what the interest list held. *)
BacklogSeen ==
  \A f \in Fds : InBacklog(f)' # {} => InBacklog(f) # {} \/ m_kernel[f] # "none"

(* A batch holds only what the interest list held. *)
LEMMA BacklogOld ==
  ASSUME LoopInv, Next
  PROVE  BacklogSeen
<1> USE DEF BacklogSeen
<1>1. TypeOK /\ TypedPC /\ TypedEvents /\ BacklogOK /\ OnePoller
  BY Typed DEF LoopInv
<1>2. ASSUME NEW t \in Threads, TakeBacklog(t) PROVE BacklogSeen
  <2>1. \A u \in Threads : pc[u] # "polled" /\ pc'[u] # "polled"
    BY <1>1, <1>2 DEF TakeBacklog, MayTakeEvent, OnePoller, Polling, Process, At, TypedPC
  <2>2. m_off' = m_off + 1 /\ m_num' = m_num /\ m_backlog' = m_backlog /\ m_off \in Nat /\ m_num \in Nat
    BY <1>1, <1>2 DEF TakeBacklog, TypedEvents
  <2>3. QED
    BY <2>1, <2>2 DEF InBacklog
<1>3. ASSUME NEW t \in Threads, PollReturns(t) PROVE BacklogSeen
  <2>1. PICK batch \in Batches(m_kernel, Level, BacklogSize) : m_backlog' = batch
    BY <1>3 DEF PollReturns
  <2>2. \A i \in 1..Len(batch) : m_kernel[batch[i]] = "armed"
    BY <1>1, LoopBatch
  <2>3. pc'[t] = "polled"
    BY <1>1, <1>3 DEF PollReturns, At, TypedPC
  <2>4. \A f \in Fds : InBacklog(f)' = {i \in 1..Len(batch) : batch[i] = f}
    BY <2>1, <2>3 DEF InBacklog
  <2>5. QED
    BY <2>2, <2>4
<1>4. ASSUME NEW t \in Threads, Polled(t) PROVE BacklogSeen
  <2>1. \A u \in Threads : pc'[u] # "polled"
    BY <1>1, <1>4 DEF Polled, OnePoller, Polling, Process, At, TypedPC
  <2>2. m_off' = 1 /\ m_num' = Len(m_backlog) /\ m_backlog' = m_backlog /\ pc[t] = "polled"
    BY <1>4 DEF Polled
  <2>3. Len(m_backlog) \in Nat
    BY <1>1 DEF TypedEvents
  <2>4. QED
    BY <2>1, <2>2, <2>3 DEF InBacklog
<1>5. CASE BacklogSame
  BY <1>5 DEF BacklogSame
<1>6. QED
  BY <1>2, <1>3, <1>4, <1>5, BacklogMoves

(* The more queue holds only events that a handler held. *)
Carries(t, f) == ev[t] = f /\ pc[t] \notin {"write_event", "add_fd"}
MoreSeen ==
  \A f \in Fds : InMore(f)' # {} => InMore(f) # {} \/ \E t \in Threads : Carries(t, f)

(* The more queue holds only events that a handler held. *)
LEMMA MoreOld ==
  ASSUME LoopInv, Next
  PROVE  MoreSeen
<1> USE DEF MoreSeen
<1>1. TypeOK /\ TypedPC /\ TypedEvents
  BY Typed DEF LoopInv
<1>2. ASSUME NEW t \in Threads, TakeMore(t) PROVE MoreSeen
  <2>1. m_more_queue \in Seq(Fds) /\ m_more_queue # <<>> /\ m_more_queue' = Tail(m_more_queue)
    BY <1>1, <1>2 DEF TakeMore, TypedEvents
  <2>2. ASSUME NEW f \in Fds, NEW i \in InMore(f)' PROVE i + 1 \in InMore(f)
    BY <2>1 DEF InMore
  <2>3. QED
    BY <2>2
<1>3. ASSUME NEW t \in Threads, event_more(t) PROVE MoreSeen
  <2>1. m_more_queue \in Seq(Fds) /\ m_more_queue' = Append(m_more_queue, ev[t]) /\ pc[t] = "callback"
    BY <1>1, <1>3 DEF event_more, TypedEvents
  <2>2. ASSUME NEW f \in Fds, NEW i \in InMore(f)' PROVE i \in InMore(f) \/ ev[t] = f
    BY <2>1 DEF InMore
  <2>3. QED
    BY <2>1, <2>2 DEF Carries
<1>4. CASE MoreSame
  BY <1>4 DEF MoreSame
<1>5. QED
  BY <1>2, <1>3, <1>4, MoreMoves

(* A thread is only ever given an event that is already in the loop, or    *)
(* the descriptor of the handler it removes.                               *)
Withdraws(f) == f \in m_state /\ f \in released' /\ Untouched(f)
CarriesSeen ==
  \A t \in Threads : \A f \in Fds : Carries(t, f)' => Seen(f) \/ Withdraws(f)

(* A thread is only ever given an event that is already in the loop. *)
LEMMA CarriesOld ==
  ASSUME LoopInv, Next
  PROVE  CarriesSeen
<1> USE DEF poolVars, mutexVars, coreVars, pollVars, queueVars, lifeVars, fdVars, handlerVars,
            outVars, threadVars, restVars,
            CarriesSeen, Carries, At, Again, Threads
<1>1. TypeOK /\ TypedPC /\ TypedEvents /\ TypedRest /\ StepsOK /\ PoolOK /\ OnePoller /\ BacklogOK
  BY Typed DEF LoopInv
<1>2. \A t \in Threads : \A f \in Fds : Carries(t, f) => Seen(f)
  BY DEF Seen
<1>3. ASSUME NEW t \in Workers, Lock(t) PROVE CarriesSeen
  BY <1>3, <1>1, <1>2, LoopAssumption DEF Lock, TypedPC, TypedEvents, StepsOK, HandlerPCs
<1>4. ASSUME NEW t \in Threads, TakeMore(t) PROVE CarriesSeen
  <2>1. PICK f \in Fds : f = Head(m_more_queue)
    BY <1>4, <1>1 DEF TakeMore, TypedEvents
  <2>2. 1 \in InMore(f)
    BY <1>4, <1>1, <2>1 DEF TakeMore, TypedEvents, InMore
  <2>3. Seen(f)
    BY <2>2 DEF Seen
  <2>4. QED
    BY <1>4, <1>1, <1>2, <2>1, <2>3 DEF TakeMore, Process, TypedPC, TypedEvents
<1>5. ASSUME NEW t \in Threads, do_out(t) PROVE CarriesSeen
  BY <1>5, <1>1, <1>2, LoopAssumption DEF do_out, TypedPC, TypedEvents, StepsOK, HandlerPCs
<1>6. ASSUME NEW t \in Threads, do_task(t) PROVE CarriesSeen
  BY <1>6, <1>1, <1>2, LoopAssumption DEF do_task, TypedPC, TypedEvents, StepsOK, HandlerPCs
<1>7. ASSUME NEW t \in Threads, CondWait(t) PROVE CarriesSeen
  BY <1>7, <1>1, <1>2, LoopAssumption DEF CondWait, TypedPC, TypedEvents, StepsOK, HandlerPCs
<1>8. ASSUME NEW t \in Threads, StartPoll(t) PROVE CarriesSeen
  BY <1>8, <1>1, <1>2, LoopAssumption DEF StartPoll, TypedPC, TypedEvents, StepsOK, HandlerPCs
<1>9. ASSUME NEW t \in Threads, TakeBacklog(t) PROVE CarriesSeen
  <2>1. m_off + 1 \in InBacklog(m_backlog[m_off + 1])
    BY <1>9, <1>1 DEF TakeBacklog, MayTakeEvent, OnePoller, Polling, TypedEvents, InBacklog
  <2>2. Seen(m_backlog[m_off + 1])
    BY <2>1 DEF Seen
  <2>3. QED
    BY <1>9, <1>1, <1>2, <2>2 DEF TakeBacklog, Process, TypedPC, TypedEvents
<1>10. ASSUME NEW t \in Threads, PollReturns(t) PROVE CarriesSeen
  BY <1>10, <1>1, <1>2, LoopAssumption DEF PollReturns, TypedPC, TypedEvents, StepsOK, HandlerPCs
<1>11. ASSUME NEW t \in Threads, PollTimesOut(t) PROVE CarriesSeen
  BY <1>11, <1>1, <1>2, LoopAssumption DEF PollTimesOut, TypedPC, TypedEvents, StepsOK, HandlerPCs
<1>12. ASSUME NEW t \in Threads, Polled(t) PROVE CarriesSeen
  <2>1. 1 \in InBacklog(m_backlog[1])
    BY <1>12, <1>1 DEF Polled, BacklogOK, InBacklog
  <2>2. Seen(m_backlog[1])
    BY <2>1 DEF Seen
  <2>3. QED
    BY <1>12, <1>1, <1>2, <2>2 DEF Polled, Process, TypedPC, TypedEvents
<1>13. ASSUME NEW t \in Threads, ReactivateOut(t) PROVE CarriesSeen
  BY <1>13, <1>1, <1>2, LoopAssumption
     DEF ReactivateOut, TypedPC, TypedEvents, StepsOK, HandlerPCs
<1>14. ASSUME NEW t \in Threads, Dispatch(t) PROVE CarriesSeen
  BY <1>14, <1>1, <1>2, LoopAssumption DEF Dispatch, TypedPC, TypedEvents, StepsOK, HandlerPCs
<1>15. ASSUME NEW t \in Threads, CallbackReturns(t) PROVE CarriesSeen
  BY <1>15, <1>1, <1>2, LoopAssumption
     DEF CallbackReturns, TypedPC, TypedEvents, StepsOK, HandlerPCs
<1>16. ASSUME NEW t \in Threads, Reactivate(t) PROVE CarriesSeen
  BY <1>16, <1>1, <1>2, LoopAssumption DEF Reactivate, TypedPC, TypedEvents, StepsOK, HandlerPCs
<1>17. ASSUME NEW t \in Threads, Remove(t) PROVE CarriesSeen
  BY <1>17, <1>1, <1>2, LoopAssumption DEF Remove, TypedPC, TypedEvents, StepsOK, HandlerPCs
<1>18. ASSUME NEW t \in Threads, reset_handler(t) PROVE CarriesSeen
  BY <1>18, <1>1, <1>2, LoopAssumption
     DEF reset_handler, TypedPC, TypedEvents, StepsOK, HandlerPCs
<1>19. ASSUME NEW t \in Threads, RunTask(t) PROVE CarriesSeen
  BY <1>19, <1>1, <1>2, LoopAssumption DEF RunTask, TypedPC, TypedEvents, StepsOK, HandlerPCs
<1>20. ASSUME NEW t \in Threads, write_event(t) PROVE CarriesSeen
  BY <1>20, <1>1, <1>2, LoopAssumption DEF write_event, TypedPC, TypedEvents, StepsOK, HandlerPCs
<1>21. ASSUME NEW t \in Threads, FlushBroadcast(t) PROVE CarriesSeen
  BY <1>21, <1>1, <1>2, LoopAssumption
     DEF FlushBroadcast, TypedPC, TypedEvents, StepsOK, HandlerPCs
<1>22. ASSUME NEW t \in Threads, event_more(t) PROVE CarriesSeen
  BY <1>22, <1>1, <1>2, LoopAssumption DEF event_more, TypedPC, TypedEvents, StepsOK, HandlerPCs
<1>23. ASSUME NEW t \in Threads, event_next(t) PROVE CarriesSeen
  BY <1>23, <1>1, <1>2, LoopAssumption DEF event_next, TypedPC, TypedEvents, StepsOK, HandlerPCs
<1>24. ASSUME NEW t \in Threads, event_remove(t) PROVE CarriesSeen
  BY <1>24, <1>1, <1>2, LoopAssumption DEF event_remove, TypedPC, TypedEvents, StepsOK, HandlerPCs
<1>25. ASSUME NEW t \in Threads, submit(t) PROVE CarriesSeen
  BY <1>25, <1>1, <1>2, LoopAssumption DEF submit, TypedPC, TypedEvents, StepsOK, HandlerPCs
<1>26. ASSUME NEW t \in Threads, watch(t) PROVE CarriesSeen
  BY <1>26, <1>1, <1>2, LoopAssumption DEF watch, TypedPC, TypedEvents, StepsOK, HandlerPCs
<1>27. ASSUME NEW c \in Callers, start(c) PROVE CarriesSeen
  BY <1>27, <1>1, <1>2, LoopAssumption DEF start, PoolOK, TypedPC
<1>28. ASSUME NEW c \in Callers, end(c) PROVE CarriesSeen
  BY <1>28, <1>1, <1>2, LoopAssumption DEF end, TypedPC, TypedEvents, StepsOK, HandlerPCs
<1>29. ASSUME NEW c \in Callers, join(c) PROVE CarriesSeen
  BY <1>29, <1>1, <1>2, LoopAssumption DEF join, TypedPC, TypedEvents, StepsOK, HandlerPCs
<1>30. ASSUME NEW c \in Callers, flush(c) PROVE CarriesSeen
  BY <1>30, <1>1, <1>2, LoopAssumption DEF flush, TypedPC, TypedEvents, StepsOK, HandlerPCs
<1>31. ASSUME NEW c \in Callers, run_once(c) PROVE CarriesSeen
  BY <1>31, <1>1, <1>2, LoopAssumption DEF run_once, TypedPC, TypedEvents, StepsOK, HandlerPCs
<1>32. ASSUME NEW c \in Callers, Woken(c) PROVE CarriesSeen
  BY <1>32, <1>1, <1>2, LoopAssumption DEF Woken, TypedPC, TypedEvents, StepsOK, HandlerPCs
<1>33. ASSUME NEW c \in Callers, add_handler(c) PROVE CarriesSeen
  BY <1>33, <1>1, <1>2, LoopAssumption DEF add_handler, TypedPC, TypedEvents, StepsOK, HandlerPCs
<1>34. ASSUME NEW c \in Callers, remove_handler(c) PROVE CarriesSeen
  <2>1. \A u \in Threads \ {c} : pc'[u] = pc[u] /\ ev'[u] = ev[u]
    BY <1>34, <1>1 DEF remove_handler, TypedPC, TypedEvents
  <2>2. CASE pc[c] = "remove_fd"
    <3>1. ev'[c] = None
      BY <1>34, <1>1, <2>2 DEF remove_handler, TypedEvents
    <3>2. QED
      BY <1>2, <2>1, <3>1, LoopAssumption
  <2>3. CASE pc[c] = "idle"
    <3>1. PICK f \in m_state : Untouched(f) /\ released' = released \cup {f} /\ ev' = [ev EXCEPT ![c] = f]
      BY <1>34, <2>3 DEF remove_handler
    <3>2. Withdraws(f) /\ ev'[c] = f
      BY <1>1, <3>1 DEF Withdraws, TypedEvents
    <3>3. QED
      BY <1>2, <2>1, <3>2
  <2>4. QED
    BY <1>34, <2>2, <2>3 DEF remove_handler
<1>35. ASSUME NEW f \in Fds, Arrive(f) PROVE CarriesSeen
  BY <1>35, <1>1, <1>2, LoopAssumption DEF Arrive, TypedPC, TypedEvents, StepsOK, HandlerPCs
<1>36. ASSUME NEW f \in OutFds, Drain(f) PROVE CarriesSeen
  BY <1>36, <1>1, <1>2, LoopAssumption DEF Drain, TypedPC, TypedEvents, StepsOK, HandlerPCs
<1>37. ASSUME Stopped \/ Stranded PROVE CarriesSeen
  BY <1>37, <1>1, <1>2, LoopAssumption
     DEF Stopped, Stranded, vars, TypedPC, TypedEvents, StepsOK, HandlerPCs
<1>38. QED
  BY <1>3, <1>4, <1>5, <1>6, <1>7, <1>8, <1>9, <1>10, <1>11, <1>12, <1>13, <1>14, <1>15, <1>16,
     <1>17, <1>18, <1>19, <1>20, <1>21, <1>22, <1>23, <1>24, <1>25, <1>26, <1>27, <1>28, <1>29,
     <1>30, <1>31, <1>32, <1>33, <1>34, <1>35, <1>36, <1>37
     DEF Next, TurnStep, HandlerCall, CallerStep

(* Only reset_handler takes a handler away. *)
StateKept == m_state \subseteq m_state' /\ released \subseteq released'

(* Only reset_handler takes a handler away. *)
LEMMA StateGrows ==
  ASSUME LoopInv, Next
  PROVE  \/ StateKept
         \/ (\E t \in Threads : reset_handler(t)) \/ \E c \in Callers : remove_handler(c)
<1> DEFINE Goal == \/ StateKept
                   \/ (\E t \in Threads : reset_handler(t)) \/ \E c \in Callers : remove_handler(c)
<1> USE DEF poolVars, mutexVars, coreVars, pollVars, queueVars, lifeVars, fdVars, handlerVars,
            outVars, threadVars, restVars, StateKept
<1>1. TRUE
  OBVIOUS
<1>2. ASSUME NEW t \in Workers, Lock(t) PROVE Goal
  BY <1>2 DEF Lock
<1>3. ASSUME NEW t \in Threads, TakeMore(t) PROVE Goal
  BY <1>3 DEF TakeMore
<1>4. ASSUME NEW t \in Threads, do_out(t) PROVE Goal
  BY <1>4 DEF do_out
<1>5. ASSUME NEW t \in Threads, do_task(t) PROVE Goal
  BY <1>5 DEF do_task
<1>6. ASSUME NEW t \in Threads, CondWait(t) PROVE Goal
  BY <1>6 DEF CondWait
<1>7. ASSUME NEW t \in Threads, StartPoll(t) PROVE Goal
  BY <1>7 DEF StartPoll
<1>8. ASSUME NEW t \in Threads, TakeBacklog(t) PROVE Goal
  BY <1>8 DEF TakeBacklog
<1>9. ASSUME NEW t \in Threads, PollReturns(t) PROVE Goal
  BY <1>9 DEF PollReturns
<1>10. ASSUME NEW t \in Threads, PollTimesOut(t) PROVE Goal
  BY <1>10 DEF PollTimesOut
<1>11. ASSUME NEW t \in Threads, Polled(t) PROVE Goal
  BY <1>11 DEF Polled
<1>12. ASSUME NEW t \in Threads, ReactivateOut(t) PROVE Goal
  BY <1>12 DEF ReactivateOut
<1>13. ASSUME NEW t \in Threads, Dispatch(t) PROVE Goal
  BY <1>13 DEF Dispatch
<1>14. ASSUME NEW t \in Threads, CallbackReturns(t) PROVE Goal
  BY <1>14 DEF CallbackReturns
<1>15. ASSUME NEW t \in Threads, Reactivate(t) PROVE Goal
  BY <1>15 DEF Reactivate
<1>16. ASSUME NEW t \in Threads, Remove(t) PROVE Goal
  BY <1>16 DEF Remove
<1>17. ASSUME NEW t \in Threads, reset_handler(t) PROVE Goal
  BY <1>17
<1>18. ASSUME NEW t \in Threads, RunTask(t) PROVE Goal
  BY <1>18 DEF RunTask
<1>19. ASSUME NEW t \in Threads, write_event(t) PROVE Goal
  BY <1>19 DEF write_event
<1>20. ASSUME NEW t \in Threads, FlushBroadcast(t) PROVE Goal
  BY <1>20 DEF FlushBroadcast
<1>21. ASSUME NEW t \in Threads, event_more(t) PROVE Goal
  BY <1>21 DEF event_more
<1>22. ASSUME NEW t \in Threads, event_next(t) PROVE Goal
  BY <1>22 DEF event_next
<1>23. ASSUME NEW t \in Threads, event_remove(t) PROVE Goal
  BY <1>23 DEF event_remove
<1>24. ASSUME NEW t \in Threads, submit(t) PROVE Goal
  BY <1>24 DEF submit
<1>25. ASSUME NEW t \in Threads, watch(t) PROVE Goal
  BY <1>25 DEF watch
<1>26. ASSUME NEW c \in Callers, start(c) PROVE Goal
  BY <1>26 DEF start
<1>27. ASSUME NEW c \in Callers, end(c) PROVE Goal
  BY <1>27 DEF end
<1>28. ASSUME NEW c \in Callers, join(c) PROVE Goal
  BY <1>28 DEF join
<1>29. ASSUME NEW c \in Callers, flush(c) PROVE Goal
  BY <1>29 DEF flush
<1>30. ASSUME NEW c \in Callers, run_once(c) PROVE Goal
  BY <1>30 DEF run_once
<1>31. ASSUME NEW c \in Callers, Woken(c) PROVE Goal
  BY <1>31 DEF Woken
<1>32. ASSUME NEW c \in Callers, add_handler(c) PROVE Goal
  BY <1>32 DEF add_handler
<1>33. ASSUME NEW c \in Callers, remove_handler(c) PROVE Goal
  BY <1>33
<1>34. ASSUME NEW f \in Fds, Arrive(f) PROVE Goal
  BY <1>34 DEF Arrive
<1>35. ASSUME NEW f \in OutFds, Drain(f) PROVE Goal
  BY <1>35 DEF Drain
<1>36. ASSUME Stopped \/ Stranded PROVE Goal
  BY <1>36 DEF Stopped, Stranded, vars
<1>37. QED
  BY <1>2, <1>3, <1>4, <1>5, <1>6, <1>7, <1>8, <1>9, <1>10, <1>11, <1>12, <1>13, <1>14, <1>15,
     <1>16, <1>17, <1>18, <1>19, <1>20, <1>21, <1>22, <1>23, <1>24, <1>25, <1>26, <1>27, <1>28,
     <1>29, <1>30, <1>31, <1>32, <1>33, <1>34, <1>35, <1>36
     DEF Next, TurnStep, HandlerCall, CallerStep


(* What has left a trace has a handler or had one, and stays so. *)
LEMMA GrowsOld ==
  ASSUME LoopInv, Next
  PROVE  m_state \cup released \subseteq m_state' \cup released'
<1> USE DEF poolVars, mutexVars, coreVars, pollVars, queueVars, lifeVars, fdVars, handlerVars,
            outVars, threadVars, restVars
<1>1. StepsOK /\ GoneOK
  BY DEF LoopInv
<1>2. ASSUME NEW t \in Threads, reset_handler(t)
      PROVE  m_state \cup released \subseteq m_state' \cup released'
  <2>1. ev[t] \in released
    BY <1>1, <1>2 DEF reset_handler, StepsOK, GoneOK
  <2>2. QED
    BY <1>2, <2>1 DEF reset_handler
<1>3. ASSUME NEW c \in Callers, remove_handler(c)
      PROVE  m_state \cup released \subseteq m_state' \cup released'
  BY <1>3 DEF remove_handler
<1>4. CASE m_state \subseteq m_state' /\ released \subseteq released'
  BY <1>4
<1>5. QED
  BY <1>2, <1>3, <1>4, StateGrows DEF StateKept

(* Only add_handler chooses a descriptor to register. *)
ChosenSame ==
  \A d \in Threads : pc'[d] = "add_fd" => pc[d] = "add_fd" /\ ev'[d] = ev[d]

(* Only add_handler chooses a descriptor to register. *)
LEMMA Choices ==
  ASSUME LoopInv, Next
  PROVE  ChosenSame \/ \E c \in Callers : add_handler(c)
<1> DEFINE Goal == ChosenSame \/ \E c \in Callers : add_handler(c)
<1> USE DEF poolVars, mutexVars, coreVars, pollVars, queueVars, lifeVars, fdVars, handlerVars,
            outVars, threadVars, restVars,
            ChosenSame, At, Again, Threads
<1>1. TypedPC /\ TypedEvents /\ StepsOK
  BY Typed DEF LoopInv
<1>2. ASSUME NEW t \in Workers, Lock(t) PROVE Goal
  BY <1>2, <1>1, LoopAssumption DEF Lock, TypedPC, TypedEvents
<1>3. ASSUME NEW t \in Threads, TakeMore(t) PROVE Goal
  BY <1>3, <1>1, LoopAssumption DEF TakeMore, Process, TypedPC, TypedEvents
<1>4. ASSUME NEW t \in Threads, do_out(t) PROVE Goal
  BY <1>4, <1>1, LoopAssumption DEF do_out, TypedPC, TypedEvents
<1>5. ASSUME NEW t \in Threads, do_task(t) PROVE Goal
  BY <1>5, <1>1, LoopAssumption DEF do_task, TypedPC, TypedEvents
<1>6. ASSUME NEW t \in Threads, CondWait(t) PROVE Goal
  BY <1>6, <1>1, LoopAssumption DEF CondWait, TypedPC, TypedEvents
<1>7. ASSUME NEW t \in Threads, StartPoll(t) PROVE Goal
  BY <1>7, <1>1, LoopAssumption DEF StartPoll, TypedPC, TypedEvents
<1>8. ASSUME NEW t \in Threads, TakeBacklog(t) PROVE Goal
  BY <1>8, <1>1, LoopAssumption DEF TakeBacklog, Process, TypedPC, TypedEvents
<1>9. ASSUME NEW t \in Threads, PollReturns(t) PROVE Goal
  BY <1>9, <1>1, LoopAssumption DEF PollReturns, TypedPC, TypedEvents
<1>10. ASSUME NEW t \in Threads, PollTimesOut(t) PROVE Goal
  BY <1>10, <1>1, LoopAssumption DEF PollTimesOut, TypedPC, TypedEvents
<1>11. ASSUME NEW t \in Threads, Polled(t) PROVE Goal
  BY <1>11, <1>1, LoopAssumption DEF Polled, Process, TypedPC, TypedEvents
<1>12. ASSUME NEW t \in Threads, ReactivateOut(t) PROVE Goal
  BY <1>12, <1>1, LoopAssumption DEF ReactivateOut, TypedPC, TypedEvents
<1>13. ASSUME NEW t \in Threads, Dispatch(t) PROVE Goal
  BY <1>13, <1>1, LoopAssumption DEF Dispatch, TypedPC, TypedEvents
<1>14. ASSUME NEW t \in Threads, CallbackReturns(t) PROVE Goal
  BY <1>14, <1>1, LoopAssumption DEF CallbackReturns, TypedPC, TypedEvents
<1>15. ASSUME NEW t \in Threads, Reactivate(t) PROVE Goal
  BY <1>15, <1>1, LoopAssumption DEF Reactivate, TypedPC, TypedEvents
<1>16. ASSUME NEW t \in Threads, Remove(t) PROVE Goal
  BY <1>16, <1>1, LoopAssumption DEF Remove, TypedPC, TypedEvents
<1>17. ASSUME NEW t \in Threads, reset_handler(t) PROVE Goal
  BY <1>17, <1>1, LoopAssumption DEF reset_handler, TypedPC, TypedEvents
<1>18. ASSUME NEW t \in Threads, RunTask(t) PROVE Goal
  BY <1>18, <1>1, LoopAssumption DEF RunTask, TypedPC, TypedEvents
<1>19. ASSUME NEW t \in Threads, write_event(t) PROVE Goal
  BY <1>19, <1>1, LoopAssumption DEF write_event, TypedPC, TypedEvents
<1>20. ASSUME NEW t \in Threads, FlushBroadcast(t) PROVE Goal
  BY <1>20, <1>1, LoopAssumption DEF FlushBroadcast, TypedPC, TypedEvents
<1>21. ASSUME NEW t \in Threads, event_more(t) PROVE Goal
  BY <1>21, <1>1, LoopAssumption DEF event_more, TypedPC, TypedEvents
<1>22. ASSUME NEW t \in Threads, event_next(t) PROVE Goal
  BY <1>22, <1>1, LoopAssumption DEF event_next, TypedPC, TypedEvents
<1>23. ASSUME NEW t \in Threads, event_remove(t) PROVE Goal
  BY <1>23, <1>1, LoopAssumption DEF event_remove, TypedPC, TypedEvents
<1>24. ASSUME NEW t \in Threads, submit(t) PROVE Goal
  BY <1>24, <1>1, LoopAssumption DEF submit, TypedPC, TypedEvents
<1>25. ASSUME NEW t \in Threads, watch(t) PROVE Goal
  BY <1>25, <1>1, LoopAssumption DEF watch, TypedPC, TypedEvents
<1>26. ASSUME NEW c \in Callers, start(c) PROVE Goal
  BY <1>26, <1>1, LoopAssumption DEF start, TypedPC, TypedEvents
<1>27. ASSUME NEW c \in Callers, end(c) PROVE Goal
  BY <1>27, <1>1, LoopAssumption DEF end, TypedPC, TypedEvents
<1>28. ASSUME NEW c \in Callers, join(c) PROVE Goal
  BY <1>28, <1>1, LoopAssumption DEF join, TypedPC, TypedEvents
<1>29. ASSUME NEW c \in Callers, flush(c) PROVE Goal
  BY <1>29, <1>1, LoopAssumption DEF flush, TypedPC, TypedEvents
<1>30. ASSUME NEW c \in Callers, run_once(c) PROVE Goal
  BY <1>30, <1>1, LoopAssumption DEF run_once, TypedPC, TypedEvents
<1>31. ASSUME NEW c \in Callers, Woken(c) PROVE Goal
  BY <1>31, <1>1, LoopAssumption DEF Woken, TypedPC, TypedEvents
<1>32. ASSUME NEW c \in Callers, add_handler(c) PROVE Goal
  BY <1>32
<1>33. ASSUME NEW c \in Callers, remove_handler(c) PROVE Goal
  BY <1>33, <1>1, LoopAssumption DEF remove_handler, TypedPC, TypedEvents
<1>34. ASSUME NEW f \in Fds, Arrive(f) PROVE Goal
  BY <1>34, <1>1, LoopAssumption DEF Arrive, TypedPC, TypedEvents
<1>35. ASSUME NEW f \in OutFds, Drain(f) PROVE Goal
  BY <1>35, <1>1, LoopAssumption DEF Drain, TypedPC, TypedEvents
<1>36. ASSUME Stopped \/ Stranded PROVE Goal
  BY <1>36, <1>1, LoopAssumption DEF Stopped, Stranded, vars, TypedPC, TypedEvents
<1>37. QED
  BY <1>2, <1>3, <1>4, <1>5, <1>6, <1>7, <1>8, <1>9, <1>10, <1>11, <1>12, <1>13, <1>14, <1>15,
     <1>16, <1>17, <1>18, <1>19, <1>20, <1>21, <1>22, <1>23, <1>24, <1>25, <1>26, <1>27, <1>28,
     <1>29, <1>30, <1>31, <1>32, <1>33, <1>34, <1>35, <1>36
     DEF Next, TurnStep, HandlerCall, CallerStep

(* A descriptor is given up by the handler of its event, or by             *)
(* remove_handler.                                                         *)
ReleasedOld ==
  \A f \in Fds : f \in released' => f \in released \/ Seen(f) \/ Untouched(f)

(* A descriptor is given up by the handler of its event or by remove_handler. *)
LEMMA GivenUp ==
  ASSUME LoopInv, Next
  PROVE  ReleasedOld
<1> USE DEF poolVars, mutexVars, coreVars, pollVars, queueVars, lifeVars, fdVars, handlerVars,
            outVars, threadVars, restVars, ReleasedOld
<1>1. StepsOK
  BY DEF LoopInv
<1>2. ASSUME NEW t \in Workers, Lock(t) PROVE ReleasedOld
  BY <1>2 DEF Lock
<1>3. ASSUME NEW t \in Threads, TakeMore(t) PROVE ReleasedOld
  BY <1>3 DEF TakeMore
<1>4. ASSUME NEW t \in Threads, do_out(t) PROVE ReleasedOld
  BY <1>4 DEF do_out
<1>5. ASSUME NEW t \in Threads, do_task(t) PROVE ReleasedOld
  BY <1>5 DEF do_task
<1>6. ASSUME NEW t \in Threads, CondWait(t) PROVE ReleasedOld
  BY <1>6 DEF CondWait
<1>7. ASSUME NEW t \in Threads, StartPoll(t) PROVE ReleasedOld
  BY <1>7 DEF StartPoll
<1>8. ASSUME NEW t \in Threads, TakeBacklog(t) PROVE ReleasedOld
  BY <1>8 DEF TakeBacklog
<1>9. ASSUME NEW t \in Threads, PollReturns(t) PROVE ReleasedOld
  BY <1>9 DEF PollReturns
<1>10. ASSUME NEW t \in Threads, PollTimesOut(t) PROVE ReleasedOld
  BY <1>10 DEF PollTimesOut
<1>11. ASSUME NEW t \in Threads, Polled(t) PROVE ReleasedOld
  BY <1>11 DEF Polled
<1>12. ASSUME NEW t \in Threads, ReactivateOut(t) PROVE ReleasedOld
  BY <1>12 DEF ReactivateOut
<1>13. ASSUME NEW t \in Threads, Dispatch(t) PROVE ReleasedOld
  BY <1>13 DEF Dispatch
<1>14. ASSUME NEW t \in Threads, CallbackReturns(t) PROVE ReleasedOld
  BY <1>14, <1>1 DEF CallbackReturns, Seen
<1>15. ASSUME NEW t \in Threads, Reactivate(t) PROVE ReleasedOld
  BY <1>15 DEF Reactivate
<1>16. ASSUME NEW t \in Threads, Remove(t) PROVE ReleasedOld
  BY <1>16 DEF Remove
<1>17. ASSUME NEW t \in Threads, reset_handler(t) PROVE ReleasedOld
  BY <1>17 DEF reset_handler
<1>18. ASSUME NEW t \in Threads, RunTask(t) PROVE ReleasedOld
  BY <1>18 DEF RunTask
<1>19. ASSUME NEW t \in Threads, write_event(t) PROVE ReleasedOld
  BY <1>19 DEF write_event
<1>20. ASSUME NEW t \in Threads, FlushBroadcast(t) PROVE ReleasedOld
  BY <1>20 DEF FlushBroadcast
<1>21. ASSUME NEW t \in Threads, event_more(t) PROVE ReleasedOld
  BY <1>21 DEF event_more
<1>22. ASSUME NEW t \in Threads, event_next(t) PROVE ReleasedOld
  BY <1>22 DEF event_next
<1>23. ASSUME NEW t \in Threads, event_remove(t) PROVE ReleasedOld
  BY <1>23, <1>1 DEF event_remove, Seen
<1>24. ASSUME NEW t \in Threads, submit(t) PROVE ReleasedOld
  BY <1>24 DEF submit
<1>25. ASSUME NEW t \in Threads, watch(t) PROVE ReleasedOld
  BY <1>25 DEF watch
<1>26. ASSUME NEW c \in Callers, start(c) PROVE ReleasedOld
  BY <1>26 DEF start
<1>27. ASSUME NEW c \in Callers, end(c) PROVE ReleasedOld
  BY <1>27 DEF end
<1>28. ASSUME NEW c \in Callers, join(c) PROVE ReleasedOld
  BY <1>28 DEF join
<1>29. ASSUME NEW c \in Callers, flush(c) PROVE ReleasedOld
  BY <1>29 DEF flush
<1>30. ASSUME NEW c \in Callers, run_once(c) PROVE ReleasedOld
  BY <1>30 DEF run_once
<1>31. ASSUME NEW c \in Callers, Woken(c) PROVE ReleasedOld
  BY <1>31 DEF Woken
<1>32. ASSUME NEW c \in Callers, add_handler(c) PROVE ReleasedOld
  BY <1>32 DEF add_handler
<1>33. ASSUME NEW c \in Callers, remove_handler(c) PROVE ReleasedOld
  BY <1>33 DEF remove_handler
<1>34. ASSUME NEW f \in Fds, Arrive(f) PROVE ReleasedOld
  BY <1>34 DEF Arrive
<1>35. ASSUME NEW f \in OutFds, Drain(f) PROVE ReleasedOld
  BY <1>35 DEF Drain
<1>36. ASSUME Stopped \/ Stranded PROVE ReleasedOld
  BY <1>36 DEF Stopped, Stranded, vars
<1>37. QED
  BY <1>2, <1>3, <1>4, <1>5, <1>6, <1>7, <1>8, <1>9, <1>10, <1>11, <1>12, <1>13, <1>14, <1>15,
     <1>16, <1>17, <1>18, <1>19, <1>20, <1>21, <1>22, <1>23, <1>24, <1>25, <1>26, <1>27, <1>28,
     <1>29, <1>30, <1>31, <1>32, <1>33, <1>34, <1>35, <1>36
     DEF Next, TurnStep, HandlerCall, CallerStep

(* A trace that is new comes from add_handler or remove_handler. *)
SeenOld ==
  \A f \in Fds : Seen(f)' => Seen(f) \/ Registers(f) \/ Withdraws(f)

(* A trace that is new comes from add_handler or remove_handler. *)
LEMMA Traces ==
  ASSUME LoopInv, Next
  PROVE  SeenOld
<1>1. SUFFICES ASSUME NEW f \in Fds, Seen(f)' PROVE Seen(f) \/ Registers(f) \/ Withdraws(f)
  BY DEF SeenOld
<1>2. CASE m_kernel'[f] # "none"
  BY <1>2, Additions DEF OnlyAdded, Seen
<1>3. CASE InBacklog(f)' # {}
  BY <1>3, BacklogOld DEF BacklogSeen, Seen
<1>4. CASE InMore(f)' # {}
  BY <1>4, MoreOld DEF MoreSeen, Seen, Carries
<1>5. CASE \E t \in Threads : Carries(t, f)'
  BY <1>5, CarriesOld DEF CarriesSeen
<1>6. QED
  BY <1>1, <1>2, <1>3, <1>4, <1>5 DEF Seen, Carries

(* A descriptor is registered at most once, and without a trace before. *)
LEMMA FreshKept ==
  ASSUME LoopInv, Next
  PROVE  FreshOK'
<1>1. TypeOK /\ TypedPC /\ TypedEvents /\ StepsOK /\ FreshOK
  BY Typed DEF LoopInv
<1>2. ASSUME NEW f \in Fds, Seen(f)' PROVE f \in m_state' \cup released'
  <2>1. CASE Seen(f)
    BY <1>1, <2>1, GrowsOld DEF FreshOK
  <2>2. CASE Registers(f)
    <3>1. f \in m_state
      BY <1>1, <2>2 DEF FreshOK, Registers, Threads
    <3>2. QED
      BY <3>1, GrowsOld
  <2>3. CASE Withdraws(f)
    BY <2>3 DEF Withdraws
  <2>4. QED
    BY <1>2, <2>1, <2>2, <2>3, Traces DEF SeenOld
<1>3. ASSUME NEW c \in Threads, NEW f \in Fds, pc[c] = "add_fd", ev[c] = f, pc'[c] = "add_fd"
      PROVE  /\ f \in m_state' /\ f \notin released' /\ ~ Seen(f)'
             /\ \A d \in Threads : pc[d] = "add_fd" /\ ev[d] = f => d = c
  <2>1. f = ev[c]
    BY <1>3
  <2>2. /\ f \in m_state /\ f \notin released /\ ~ Seen(f)
        /\ \A d \in Threads : pc[d] = "add_fd" /\ ev[d] = f => d = c
    BY <1>1, <1>3, <2>1 DEF FreshOK
  <2>3. ~ Registers(f)
    BY <1>3, <2>2 DEF Registers, Threads
  <2>4. c \in Callers
    BY <1>1, <1>3 DEF TypedPC, WorkerPCs, TurnPCs, Threads
  <2>5. ~ Untouched(f)
    BY <1>3, <2>1, <2>4 DEF Untouched
  <2>6. ~ Seen(f)'
    BY <2>2, <2>3, <2>5, Traces DEF SeenOld, Withdraws
  <2>7. f \notin released'
    BY <1>1, <2>2, <2>5, GivenUp DEF ReleasedOld
  <2>8. f \in m_state'
    BY <2>2, <2>7, GrowsOld
  <2>9. QED
    BY <2>1, <2>2, <2>6, <2>7, <2>8
<1>4. CASE ChosenSame
  BY <1>2, <1>3, <1>4 DEF ChosenSame, FreshOK

<1>5. ASSUME NEW c \in Callers, add_handler(c) PROVE FreshOK'
  <2>1. \A u \in Threads \ {c} : pc'[u] = pc[u] /\ ev'[u] = ev[u]
    BY <1>1, <1>5 DEF add_handler, At, TypedPC, TypedEvents
  <2>2. CASE pc[c] = "add_fd"
    <3>1. pc'[c] = "idle"
      BY <1>1, <1>5, <2>2 DEF add_handler, At, TypedPC, Threads
    <3>2. ChosenSame
      BY <2>1, <3>1 DEF ChosenSame
    <3>3. QED
      BY <1>4, <3>2
  <2>3. CASE pc[c] = "idle"
    <3>1. PICK f \in Fds \ (m_state \cup released) :
            /\ Untouched(f) /\ m_state' = m_state \cup {f} /\ At(c, "add_fd")
            /\ ev' = [ev EXCEPT ![c] = f] /\ released' = released
      BY <1>5, <2>3 DEF add_handler
    <3>2. pc'[c] = "add_fd" /\ ev'[c] = f
      BY <1>1, <3>1 DEF At, TypedPC, TypedEvents, Threads
    <3>3. \A d \in Threads : pc[d] = "add_fd" => ev[d] # f
      BY <1>1, <3>1 DEF Untouched, TypedPC, WorkerPCs, TurnPCs, Threads
    <3>4. ~ Seen(f) /\ ~ Registers(f) /\ ~ Withdraws(f)
      BY <1>1, <3>1, <3>3 DEF FreshOK, Registers, Withdraws, Threads
    <3>5. ~ Seen(f)'
      BY <3>4, Traces DEF SeenOld
    <3>6. ASSUME NEW d \in Threads, NEW g \in Fds, pc'[d] = "add_fd", ev'[d] = g
          PROVE  /\ g \in m_state' /\ g \notin released' /\ ~ Seen(g)'
                 /\ \A e \in Threads : pc'[e] = "add_fd" /\ ev'[e] = g => e = d
      <4>1. CASE d = c
        <5>1. g = f
          BY <3>2, <3>6, <4>1
        <5>2. \A e \in Threads : pc'[e] = "add_fd" /\ ev'[e] = f => e = d
          BY <2>1, <3>3, <4>1
        <5>3. QED
          BY <3>1, <3>5, <5>1, <5>2
      <4>2. CASE d # c
        <5>1. pc[d] = "add_fd" /\ ev[d] = g /\ g # f
          BY <2>1, <3>3, <3>6, <4>2
        <5>2. /\ g \in m_state' /\ g \notin released' /\ ~ Seen(g)'
              /\ \A e \in Threads : pc[e] = "add_fd" /\ ev[e] = g => e = d
          BY <1>3, <3>6, <5>1
        <5>3. \A e \in Threads : pc'[e] = "add_fd" /\ ev'[e] = g => e = d
          BY <2>1, <3>2, <5>1, <5>2
        <5>4. QED
          BY <5>2, <5>3
      <4>3. QED
        BY <4>1, <4>2
    <3>7. QED
      BY <1>2, <3>6 DEF FreshOK
  <2>4. QED
    BY <1>5, <2>2, <2>3 DEF add_handler
<1>6. QED
  BY <1>4, <1>5, Choices

-----------------------------------------------------------------------------
(* What the kinds of steps do to the places of one descriptor.             *)

(* The threads other than t hold what they held. *)
OthersHold(t, f) == \A u \in Threads \ {t} : Holds(u, f)' <=> Holds(u, f)
QueuesSame(f) == InBacklog(f)' = InBacklog(f) /\ InMore(f)' = InMore(f)

(* Handling is the set of the threads that hold the event. *)
LEMMA HoldingSet ==
  ASSUME NEW f
  PROVE  /\ \A t : t \in Handling(f) <=> t \in Threads /\ Holds(t, f)
         /\ \A t : t \in Handling(f)' <=> t \in Threads /\ Holds(t, f)'
BY DEF Handling, Holds

(* If no thread takes or leaves the event, the set is the same. *)
LEMMA SameHolders ==
  ASSUME NEW f, \A t \in Threads : Holds(t, f)' <=> Holds(t, f)
  PROVE  Handling(f)' = Handling(f)
BY HoldingSet

(* Nothing moves, and the registration stays, goes, or appears where the   *)
(* event is nowhere.                                                       *)
LEMMA PlaceStays ==
  ASSUME NEW f, PlaceOK(f), QueuesSame(f), \A t \in Threads : Holds(t, f)' <=> Holds(t, f),
         \/ m_kernel'[f] = m_kernel[f] \/ m_kernel'[f] = "none"
         \/ m_kernel'[f] = "armed" /\ Nowhere(f)
  PROVE  PlaceOK(f)'
<1>1. Handling(f)' = Handling(f)
  BY HoldingSet
<1>2. QED
  BY <1>1 DEF PlaceOK, AtMostOnePlace, Nowhere, QueuesSame

(* The entry in the more queue moves up. *)
LEMMA PlaceShifted ==
  ASSUME NEW f, PlaceOK(f), InBacklog(f)' = InBacklog(f), m_kernel'[f] = m_kernel[f],
         \A t \in Threads : Holds(t, f)' <=> Holds(t, f),
         InMore(f) \subseteq Nat, InMore(f)' \subseteq Nat,
         \A i \in Nat : i \in InMore(f)' <=> i + 1 \in InMore(f), 1 \notin InMore(f), 0 \notin InMore(f)
  PROVE  PlaceOK(f)'
<1>1. Handling(f)' = Handling(f)
  BY SameHolders
<1>2. \A i, j \in InMore(f) : i = j
  BY DEF PlaceOK, AtMostOnePlace
<1>3. \A i, j \in InMore(f)' : i = j
  <2>1. SUFFICES ASSUME NEW i \in InMore(f)', NEW j \in InMore(f)' PROVE i = j
    OBVIOUS
  <2>2. i + 1 \in InMore(f) /\ j + 1 \in InMore(f) /\ i \in Nat /\ j \in Nat
    OBVIOUS
  <2>3. i + 1 = j + 1
    BY <1>2, <2>2
  <2>4. QED
    BY <2>2, <2>3
<1>4. InMore(f)' = {} <=> InMore(f) = {}
  <2>1. ASSUME NEW i \in InMore(f) PROVE i - 1 \in InMore(f)'
    <3>1. i \in Nat /\ i # 0 /\ i - 1 \in Nat /\ (i - 1) + 1 = i
      BY <2>1
    <3>2. QED
      BY <2>1, <3>1
  <2>2. QED
    BY <2>1
<1>5. QED
  BY <1>1, <1>3, <1>4 DEF PlaceOK, AtMostOnePlace, Nowhere

(* A thread takes the event from the batch or from the more queue. *)
LEMMA PlaceTaken ==
  ASSUME NEW f, PlaceOK(f), NEW t \in Threads, OthersHold(t, f), Holds(t, f)',
         InBacklog(f) # {} \/ InMore(f) # {}, InBacklog(f)' = {}, InMore(f)' = {},
         m_kernel'[f] = m_kernel[f]
  PROVE  PlaceOK(f)'
<1>1. Handling(f) = {}
  BY DEF PlaceOK, AtMostOnePlace
<1>2. \A u \in Threads : Holds(u, f)' => u = t
  BY <1>1, HoldingSet DEF OthersHold
<1>3. Handling(f)' = {t}
  BY <1>2, HoldingSet
<1>4. QED
  BY <1>3 DEF PlaceOK, AtMostOnePlace, Nowhere

(* A thread lets the event go, and the registration is armed or gone. *)
LEMMA PlaceLeft ==
  ASSUME NEW f, PlaceOK(f), NEW t \in Threads, OthersHold(t, f), Holds(t, f), ~ Holds(t, f)',
         QueuesSame(f), m_kernel'[f] # "fired"
  PROVE  PlaceOK(f)'
<1>1. t \in Handling(f)
  BY HoldingSet
<1>2. \A u \in Handling(f) : u = t
  BY <1>1 DEF PlaceOK, AtMostOnePlace
<1>3. \A u \in Threads : ~ Holds(u, f)'
  BY <1>2, HoldingSet DEF OthersHold
<1>4. Handling(f)' = {}
  BY <1>3, HoldingSet
<1>5. InBacklog(f)' = {} /\ InMore(f)' = {}
  BY <1>1 DEF PlaceOK, AtMostOnePlace, QueuesSame
<1>6. QED
  BY <1>4, <1>5 DEF PlaceOK, AtMostOnePlace, Nowhere

(* A handler puts its event into the more queue. *)
LEMMA PlaceQueued ==
  ASSUME NEW f, PlaceOK(f), NEW t \in Threads, OthersHold(t, f), Holds(t, f), ~ Holds(t, f)',
         InBacklog(f)' = InBacklog(f), NEW k, InMore(f)' = InMore(f) \cup {k},
         m_kernel'[f] = m_kernel[f]
  PROVE  PlaceOK(f)'
<1>1. t \in Handling(f)
  BY HoldingSet
<1>2. \A u \in Handling(f) : u = t
  BY <1>1 DEF PlaceOK, AtMostOnePlace
<1>3. \A u \in Threads : ~ Holds(u, f)'
  BY <1>2, HoldingSet DEF OthersHold
<1>4. Handling(f)' = {}
  BY <1>3, HoldingSet
<1>5. InBacklog(f)' = {} /\ InMore(f)' = {k}
  BY <1>1 DEF PlaceOK, AtMostOnePlace
<1>6. m_kernel[f] # "armed"
  BY <1>1 DEF PlaceOK, Nowhere
<1>7. QED
  BY <1>4, <1>5, <1>6 DEF PlaceOK, AtMostOnePlace, Nowhere

(* epoll_wait reports the event. *)
LEMMA PlaceReported ==
  ASSUME NEW f, PlaceOK(f), m_kernel[f] = "armed", m_kernel'[f] = "fired",
         \A t \in Threads : Holds(t, f)' <=> Holds(t, f),
         InMore(f)' = InMore(f), NEW k, InBacklog(f)' = {k}
  PROVE  PlaceOK(f)'
<1>1. InMore(f)' = {} /\ Handling(f) = {}
  BY DEF PlaceOK, Nowhere
<1>2. Handling(f)' = {}
  BY <1>1, HoldingSet
<1>3. QED
  BY <1>1, <1>2 DEF PlaceOK, AtMostOnePlace, Nowhere

(* process_handler puts the event, and no other, in the thread's hands. *)
LEMMA ProcessHolds ==
  ASSUME LoopInv, NEW t \in Threads, NEW id \in Fds \cup {OutIdent}, Process(t, id),
         pc[t] \in {"locked", "polled"}
  PROVE  /\ \A g \in Fds \cup {OutIdent} : OthersHold(t, g)
         /\ Holds(t, id)'
         /\ \A g \in Fds \cup {OutIdent} : g # id => \A u \in Threads : Holds(u, g)' <=> Holds(u, g)
<1>1. TypedPC /\ TypedEvents /\ StepsOK
  BY Typed DEF LoopInv
<1>2. ev[t] = None /\ None \notin Fds \cup {OutIdent}
  BY <1>1, LoopAssumption DEF StepsOK, HandlerPCs
<1>3. \A u \in Threads \ {t} : pc'[u] = pc[u] /\ ev'[u] = ev[u] /\ flags'[u] = flags[u]
  BY <1>1 DEF Process, At, TypedPC, TypedEvents
<1>4. ev'[t] = id /\ flags'[t] = {} /\ pc'[t] \in {"reactivate_out", "dispatch"}
  BY <1>1 DEF Process, At, TypedPC, TypedEvents
<1>5. QED
  BY <1>2, <1>3, <1>4 DEF OthersHold, Holds

(* TakeMore: the head of the more queue is the only entry of its           *)
(* descriptor.                                                             *)
LEMMA PlacesTakeMore ==
  ASSUME LoopInv, NEW t \in Threads, TakeMore(t), BacklogSame
  PROVE  PlacesOK'
<1>1. TypedEvents /\ PlacesOK
  BY Typed DEF LoopInv
<1>2. /\ m_more_queue \in Seq(Fds) /\ m_more_queue # <<>> /\ m_more_queue' = Tail(m_more_queue)
      /\ pc[t] = "locked" /\ m_kernel' = m_kernel /\ Process(t, Head(m_more_queue))
  BY <1>1 DEF TakeMore, TypedEvents, fdVars
<1>3. PICK f \in Fds \cup {OutIdent} : f = Head(m_more_queue)
  BY <1>2
<1>4. /\ OthersHold(t, f) /\ Holds(t, f)'
      /\ \A g \in Fds \cup {OutIdent} : g # f => \A u \in Threads : Holds(u, g)' <=> Holds(u, g)
  BY <1>2, <1>3, ProcessHolds
<1>5. PlaceOK(f)'
  <2>1. 1 \in InMore(f)
    BY <1>2, <1>3 DEF InMore
  <2>2. \A i \in InMore(f) : i = 1
    BY <1>1, <2>1 DEF PlacesOK, PlaceOK, AtMostOnePlace
  <2>3. \A i \in InMore(f)' : i + 1 \in InMore(f) /\ i + 1 # 1
    BY <1>2 DEF InMore
  <2>4. InMore(f)' = {}
    BY <2>2, <2>3
  <2>5. InBacklog(f)' = {}
    BY <1>1, <2>1 DEF PlacesOK, PlaceOK, AtMostOnePlace, BacklogSame
  <2>6. PlaceOK(f) /\ InMore(f) # {} /\ m_kernel'[f] = m_kernel[f]
    BY <1>1, <1>2, <2>1 DEF PlacesOK
  <2>7. QED
    BY <1>4, <2>4, <2>5, <2>6, PlaceTaken
<1>6. ASSUME NEW g \in Fds \cup {OutIdent}, g # f PROVE PlaceOK(g)'
  <2>1. PlaceOK(g) /\ InBacklog(g)' = InBacklog(g) /\ m_kernel'[g] = m_kernel[g]
    BY <1>1, <1>2 DEF PlacesOK, BacklogSame
  <2>2. InMore(g) \subseteq Nat /\ InMore(g)' \subseteq Nat
    BY <1>2 DEF InMore
  <2>3. 1 \notin InMore(g) /\ 0 \notin InMore(g)
    BY <1>2, <1>3, <1>6 DEF InMore
  <2>4. \A i \in Nat : i \in InMore(g)' <=> i + 1 \in InMore(g)
    <3>1. SUFFICES ASSUME NEW i \in Nat PROVE i \in InMore(g)' <=> i + 1 \in InMore(g)
      OBVIOUS
    <3>2. Len(m_more_queue') = Len(m_more_queue) - 1 /\ Len(m_more_queue) \in Nat
      BY <1>2
    <3>3. i \in 1..Len(m_more_queue') => m_more_queue'[i] = m_more_queue[i + 1]
      BY <1>2
    <3>4. i + 1 \in 2..Len(m_more_queue) <=> i \in 1..Len(m_more_queue')
      BY <3>2
    <3>5. i + 1 \in InMore(g) => i + 1 # 1
      BY <2>3
    <3>6. QED
      BY <3>2, <3>3, <3>4, <3>5 DEF InMore
  <2>5. QED
    BY <1>4, <1>6, <2>1, <2>2, <2>3, <2>4, PlaceShifted
<1>7. QED
  BY <1>5, <1>6 DEF PlacesOK

(* A thread takes the event at index k of the batch. *)
LEMMA PlacesTaken ==
  ASSUME LoopInv, NEW t \in Threads, NEW f \in Fds \cup {OutIdent}, Process(t, f),
         pc[t] \in {"locked", "polled"}, m_kernel' = m_kernel, MoreSame, NEW k,
         k \in InBacklog(f),
         \A g \in Fds \cup {OutIdent} : InBacklog(g)' = InBacklog(g) \ {k}
  PROVE  PlacesOK'
<1>1. PlacesOK
  BY DEF LoopInv
<1>2. /\ OthersHold(t, f) /\ Holds(t, f)'
      /\ \A g \in Fds \cup {OutIdent} : g # f => \A u \in Threads : Holds(u, g)' <=> Holds(u, g)
  BY ProcessHolds
<1>3. PlaceOK(f)'
  <2>1. PlaceOK(f) /\ InBacklog(f) # {} /\ m_kernel'[f] = m_kernel[f]
    BY <1>1 DEF PlacesOK
  <2>2. InBacklog(f)' = {}
    BY <2>1 DEF PlaceOK, AtMostOnePlace
  <2>3. InMore(f)' = {}
    BY <2>1 DEF PlaceOK, AtMostOnePlace, MoreSame
  <2>4. QED
    BY <1>2, <2>1, <2>2, <2>3, PlaceTaken
<1>4. ASSUME NEW g \in Fds \cup {OutIdent}, g # f PROVE PlaceOK(g)'
  <2>1. k \notin InBacklog(g)
    BY <1>4 DEF InBacklog
  <2>2. QueuesSame(g) /\ PlaceOK(g) /\ m_kernel'[g] = m_kernel[g]
    BY <1>1, <2>1 DEF PlacesOK, QueuesSame, MoreSame
  <2>3. QED
    BY <1>2, <1>4, <2>2, PlaceStays
<1>5. QED
  BY <1>3, <1>4 DEF PlacesOK

(* TakeBacklog. *)
LEMMA PlacesTakeBacklog ==
  ASSUME LoopInv, NEW t \in Threads, TakeBacklog(t), MoreSame
  PROVE  PlacesOK'
<1>1. TypedEvents /\ TypedPC /\ OnePoller /\ BacklogOK
  BY Typed DEF LoopInv
<1>2. \A u \in Threads : pc[u] # "polled" /\ pc'[u] # "polled"
  BY <1>1 DEF TakeBacklog, MayTakeEvent, OnePoller, Polling, Process, At, TypedPC
<1>3. /\ m_off' = m_off + 1 /\ m_num' = m_num /\ m_backlog' = m_backlog /\ m_kernel' = m_kernel
      /\ m_off \in Nat /\ m_num \in Nat /\ m_off < m_num /\ pc[t] = "locked"
      /\ Process(t, m_backlog[m_off + 1])
  BY <1>1 DEF TakeBacklog, TypedEvents, fdVars
<1>4. PICK f \in Fds \cup {OutIdent} : f = m_backlog[m_off + 1]
  BY <1>1, <1>2, <1>3 DEF BacklogOK, TypedEvents
<1>5. PICK k : k = m_off + 1
  OBVIOUS
<1>6. k \in InBacklog(f)
  BY <1>2, <1>3, <1>4, <1>5 DEF InBacklog
<1>7. \A g \in Fds \cup {OutIdent} : InBacklog(g)' = InBacklog(g) \ {k}
  BY <1>2, <1>3, <1>5 DEF InBacklog
<1>8. QED
  BY <1>3, <1>4, <1>6, <1>7, PlacesTaken

(* Polled. *)
LEMMA PlacesPolled ==
  ASSUME LoopInv, NEW t \in Threads, Polled(t), MoreSame
  PROVE  PlacesOK'
<1>1. TypedEvents /\ TypedPC /\ OnePoller /\ BacklogOK
  BY Typed DEF LoopInv
<1>2. pc[t] = "polled" /\ \A u \in Threads : pc'[u] # "polled"
  BY <1>1 DEF Polled, OnePoller, Polling, Process, At, TypedPC
<1>3. /\ m_off' = 1 /\ m_num' = Len(m_backlog) /\ m_backlog' = m_backlog /\ m_kernel' = m_kernel
      /\ Len(m_backlog) \in Nat /\ 1 <= Len(m_backlog)
      /\ Process(t, m_backlog[1])
  BY <1>1, <1>2 DEF Polled, TypedEvents, fdVars, BacklogOK
<1>4. PICK f \in Fds \cup {OutIdent} : f = m_backlog[1]
  BY <1>1, <1>3 DEF TypedEvents
<1>5. 1 \in InBacklog(f)
  BY <1>2, <1>3, <1>4 DEF InBacklog
<1>6. \A g \in Fds \cup {OutIdent} : InBacklog(g)' = InBacklog(g) \ {1}
  BY <1>2, <1>3 DEF InBacklog
<1>7. QED
  BY <1>2, <1>3, <1>4, <1>5, <1>6, PlacesTaken

(* PollReturns: what is reported was armed, so it was nowhere. *)
LEMMA PlacesPollReturns ==
  ASSUME LoopInv, NEW t \in Threads, PollReturns(t), MoreSame, HoldsSame
  PROVE  PlacesOK'
<1>1. TypeOK /\ TypedEvents /\ TypedPC /\ OnePoller /\ BacklogOK /\ PlacesOK
  BY Typed DEF LoopInv
<1>2. PICK batch \in Batches(m_kernel, Level, BacklogSize) :
        m_kernel' = wait(m_kernel, batch) /\ m_backlog' = batch
  BY DEF PollReturns
<1>3. /\ batch \in Seq(Fds \cup {OutIdent}) /\ Len(batch) \in 1..BacklogSize
      /\ \A i \in 1..Len(batch) : m_kernel[batch[i]] = "armed"
      /\ \A i, j \in 1..Len(batch) : batch[i] = batch[j] => i = j
  BY <1>1, LoopBatch
<1>4. pc[t] = "poll" /\ pc'[t] = "polled"
  BY <1>1 DEF PollReturns, At, TypedPC
<1>5. \A g : InBacklog(g)' = {i \in 1..Len(batch) : batch[i] = g}
  BY <1>2, <1>4 DEF InBacklog
<1>6. m_off = m_num /\ m_num \in Nat /\ \A u \in Threads : pc[u] # "polled"
  BY <1>1, <1>4 DEF OnePoller, Polling, TypedEvents
<1>7. \A g : InBacklog(g) = {}
  BY <1>6 DEF InBacklog
<1>8. ASSUME NEW g \in Fds \cup {OutIdent} PROVE PlaceOK(g)'
  <2>1. PlaceOK(g) /\ InMore(g)' = InMore(g) /\ \A u \in Threads : Holds(u, g)' <=> Holds(u, g)
    BY <1>1 DEF PlacesOK, MoreSame, HoldsSame
  <2>2. CASE \E i \in 1..Len(batch) : batch[i] = g
    <3>1. PICK k \in 1..Len(batch) : batch[k] = g
      BY <2>2
    <3>2. InBacklog(g)' = {k}
      BY <1>3, <1>5, <3>1
    <3>3. m_kernel[g] = "armed"
      BY <1>3, <3>1
    <3>4. m_kernel'[g] = "fired"
      BY <1>1, <1>2, <1>3, <2>2, WaitFacts DEF TypedEvents
    <3>5. QED
      BY <2>1, <3>2, <3>3, <3>4, PlaceReported
  <2>3. CASE ~ \E i \in 1..Len(batch) : batch[i] = g
    <3>1. QueuesSame(g)
      BY <1>5, <1>7, <2>1, <2>3 DEF QueuesSame
    <3>2. wait(m_kernel, batch)[g] = m_kernel[g]
      <4>1. m_kernel \in [Fds \cup {OutIdent} -> Interest] /\ DOMAIN batch = 1..Len(batch)
        BY <1>1, <1>3 DEF TypedEvents
      <4>2. QED
        BY <2>3, <4>1 DEF wait
    <3>3. QED
      BY <1>2, <2>1, <3>1, <3>2, PlaceStays
  <2>4. QED
    BY <2>2, <2>3
<1>9. QED
  BY <1>8 DEF PlacesOK

(* A step in which only t's own event f is let go: armed again, or gone    *)
(* from the interest list.                                                 *)
LEMMA PlacesLeft ==
  ASSUME LoopInv, NEW t \in Threads, NEW f \in Fds \cup {OutIdent}, Holds(t, f), ~ Holds(t, f)',
         \A g \in Fds \cup {OutIdent} : OthersHold(t, g),
         \A g \in Fds \cup {OutIdent} : g # f => (Holds(t, g)' <=> Holds(t, g)),
         MoreSame, BacklogSame, m_kernel'[f] # "fired",
         \A g \in Fds \cup {OutIdent} : g # f => m_kernel'[g] = m_kernel[g]
  PROVE  PlacesOK'
<1>1. ASSUME NEW g \in Fds \cup {OutIdent} PROVE PlaceOK(g)'
  <2>1. PlaceOK(g) /\ QueuesSame(g)
    BY DEF LoopInv, PlacesOK, QueuesSame, MoreSame, BacklogSame
  <2>2. CASE g = f
    BY <2>1, <2>2, PlaceLeft
  <2>3. CASE g # f
    <3>1. \A u \in Threads : Holds(u, g)' <=> Holds(u, g)
      BY <2>3 DEF OthersHold
    <3>2. QED
      BY <2>1, <2>3, <3>1, PlaceStays
  <2>4. QED
    BY <2>2, <2>3
<1>2. QED
  BY <1>1 DEF PlacesOK

(* reactivate on an event in hand. *)
LEMMA PlacesRearmed ==
  ASSUME LoopInv, NEW t \in Threads, NEW f \in Fds \cup {OutIdent}, Holds(t, f), ~ Holds(t, f)',
         \A g \in Fds \cup {OutIdent} : OthersHold(t, g),
         \A g \in Fds \cup {OutIdent} : g # f => (Holds(t, g)' <=> Holds(t, g)),
         MoreSame, BacklogSame, m_kernel' = reactivate(m_kernel, f)
  PROVE  PlacesOK'
<1>1. m_kernel \in [Fds \cup {OutIdent} -> Interest]
  BY DEF LoopInv, TypeOK
<1>2. m_kernel'[f] # "fired"
  BY <1>1, KernelCalls
<1>3. \A g \in Fds \cup {OutIdent} : g # f => m_kernel'[g] = m_kernel[g]
  BY <1>1, KernelCalls
<1>4. QED
  BY <1>2, <1>3, PlacesLeft

(* The other threads, in a step of t alone. *)
Alone(t) == \A u \in Threads \ {t} : pc'[u] = pc[u] /\ ev'[u] = ev[u] /\ flags'[u] = flags[u]

(* In such a step the others hold what they held. *)
LEMMA AloneHolds ==
  ASSUME NEW t \in Threads, Alone(t), NEW g
  PROVE  OthersHold(t, g)
BY DEF Alone, OthersHold, Holds

(* Reactivate, ReactivateOut: the turn ends. *)
LEMMA PlacesReactivate ==
  ASSUME LoopInv, NEW t \in Threads, Reactivate(t) \/ ReactivateOut(t), MoreSame, BacklogSame
  PROVE  PlacesOK'
<1>1. TypedPC /\ TypedEvents /\ StepsOK
  BY Typed DEF LoopInv
<1>2. PICK f \in Fds \cup {OutIdent} : f = ev[t] /\ m_kernel' = reactivate(m_kernel, f)
  BY <1>1 DEF Reactivate, ReactivateOut, StepsOK, HandlerPCs
<1>3. Alone(t) /\ ev'[t] = None
  BY <1>1 DEF Alone, Reactivate, ReactivateOut, Again, At, TypedPC, TypedEvents
<1>4. Holds(t, f)
  BY <1>1, <1>2 DEF Reactivate, ReactivateOut, StepsOK, Holds
<1>5. \A g \in Fds \cup {OutIdent} : ~ Holds(t, g)' /\ (g # f => ~ Holds(t, g))
  BY <1>2, <1>3, LoopAssumption DEF Holds
<1>6. \A g \in Fds \cup {OutIdent} : OthersHold(t, g)
  BY <1>3, AloneHolds
<1>7. QED
  BY <1>2, <1>4, <1>5, <1>6, PlacesRearmed

(* event::next: the handler goes on without its event. *)
LEMMA PlacesNext ==
  ASSUME LoopInv, NEW t \in Threads, event_next(t), MoreSame, BacklogSame
  PROVE  PlacesOK'
<1>1. TypedPC /\ TypedEvents /\ StepsOK
  BY Typed DEF LoopInv
<1>2. PICK f \in Fds \cup {OutIdent} : f = ev[t] /\ m_kernel' = reactivate(m_kernel, f)
  BY <1>1 DEF event_next, StepsOK, HandlerPCs
<1>3. Alone(t) /\ ev'[t] = f /\ "reactivated" \in flags'[t] /\ pc[t] = "callback"
      /\ "reactivated" \notin flags[t]
  BY <1>1, <1>2 DEF Alone, event_next, SetFlag, TypedPC, TypedEvents
<1>4. Holds(t, f)
  BY <1>2, <1>3 DEF Holds
<1>5. \A g \in Fds \cup {OutIdent} : ~ Holds(t, g)' /\ (g # f => ~ Holds(t, g))
  BY <1>2, <1>3 DEF Holds
<1>6. \A g \in Fds \cup {OutIdent} : OthersHold(t, g)
  BY <1>3, AloneHolds
<1>7. QED
  BY <1>2, <1>4, <1>5, <1>6, PlacesRearmed

(* event::more. *)
LEMMA PlacesMore ==
  ASSUME LoopInv, NEW t \in Threads, event_more(t), BacklogSame
  PROVE  PlacesOK'
<1>1. TypedPC /\ TypedEvents /\ StepsOK /\ PlacesOK
  BY Typed DEF LoopInv
<1>2. PICK f \in Fds : f = ev[t]
  BY <1>1 DEF event_more, StepsOK, HandlerPCs
<1>3. Alone(t) /\ ev'[t] = f /\ "reactivated" \in flags'[t] /\ pc[t] = "callback"
      /\ "reactivated" \notin flags[t]
  BY <1>1, <1>2 DEF Alone, event_more, SetFlag, TypedPC, TypedEvents
<1>4. Holds(t, f)
  BY <1>2, <1>3 DEF Holds
<1>5. \A g \in Fds \cup {OutIdent} : ~ Holds(t, g)' /\ (g # f => ~ Holds(t, g))
  BY <1>2, <1>3 DEF Holds
<1>6. \A g \in Fds \cup {OutIdent} : OthersHold(t, g)
  BY <1>3, AloneHolds
<1>7. /\ m_more_queue \in Seq(Fds) /\ m_more_queue' = Append(m_more_queue, f)
      /\ m_kernel' = m_kernel
  BY <1>1, <1>2 DEF event_more, TypedEvents, fdVars
<1>8. PICK k : k = Len(m_more_queue) + 1
  OBVIOUS
<1>9. InMore(f)' = InMore(f) \cup {k}
  BY <1>7, <1>8 DEF InMore
<1>10. \A g : g # f => InMore(g)' = InMore(g)
  BY <1>7 DEF InMore
<1>11. ASSUME NEW g \in Fds \cup {OutIdent} PROVE PlaceOK(g)'
  <2>1. PlaceOK(g) /\ InBacklog(g)' = InBacklog(g) /\ m_kernel'[g] = m_kernel[g]
    BY <1>1, <1>7 DEF PlacesOK, BacklogSame
  <2>2. CASE g = f
    BY <1>4, <1>5, <1>6, <1>9, <2>1, <2>2, PlaceQueued
  <2>3. CASE g # f
    <3>1. \A u \in Threads : Holds(u, g)' <=> Holds(u, g)
      BY <1>5, <1>6, <2>3 DEF OthersHold
    <3>2. QueuesSame(g)
      BY <1>10, <2>1, <2>3 DEF QueuesSame
    <3>3. QED
      BY <2>1, <3>1, <3>2, PlaceStays
  <2>4. QED
    BY <2>2, <2>3
<1>12. QED
  BY <1>11 DEF PlacesOK

(* The registrations in every other step: as they were, gone, or new where *)
(* the event is nowhere.                                                   *)
KernelMild ==
  \A g \in Fds \cup {OutIdent} :
    m_kernel'[g] = m_kernel[g] \/ m_kernel'[g] = "none" \/ (m_kernel'[g] = "armed" /\ Nowhere(g))

(* The registrations in every other step. *)
LEMMA MildKernel ==
  ASSUME LoopInv, Next
  PROVE  \/ KernelMild
         \/ \E t \in Threads :
             \/ TakeMore(t) \/ TakeBacklog(t) \/ PollReturns(t) \/ Polled(t)
             \/ ReactivateOut(t) \/ event_more(t) \/ event_next(t) \/ CallbackReturns(t)
             \/ Reactivate(t) \/ reset_handler(t)
<1> DEFINE Goal == \/ KernelMild
                   \/ \E t \in Threads :
                       \/ TakeMore(t) \/ TakeBacklog(t) \/ PollReturns(t) \/ Polled(t)
                       \/ ReactivateOut(t) \/ event_more(t) \/ event_next(t) \/ CallbackReturns(t)
                       \/ Reactivate(t) \/ reset_handler(t)
<1> USE DEF poolVars, mutexVars, coreVars, pollVars, queueVars, lifeVars, fdVars, handlerVars,
            outVars, threadVars, restVars,
            KernelMild
<1>1. TypedPC /\ TypedEvents /\ StepsOK /\ FreshOK
  BY Typed DEF LoopInv
<1>2. ASSUME NEW t \in Workers, Lock(t) PROVE Goal
  BY <1>2 DEF Lock
<1>3. ASSUME NEW t \in Threads, TakeMore(t) PROVE Goal
  BY <1>3
<1>4. ASSUME NEW t \in Threads, do_out(t) PROVE Goal
  BY <1>4 DEF do_out
<1>5. ASSUME NEW t \in Threads, do_task(t) PROVE Goal
  BY <1>5 DEF do_task
<1>6. ASSUME NEW t \in Threads, CondWait(t) PROVE Goal
  BY <1>6 DEF CondWait
<1>7. ASSUME NEW t \in Threads, StartPoll(t) PROVE Goal
  BY <1>7 DEF StartPoll
<1>8. ASSUME NEW t \in Threads, TakeBacklog(t) PROVE Goal
  BY <1>8
<1>9. ASSUME NEW t \in Threads, PollReturns(t) PROVE Goal
  BY <1>9
<1>10. ASSUME NEW t \in Threads, PollTimesOut(t) PROVE Goal
  BY <1>10 DEF PollTimesOut
<1>11. ASSUME NEW t \in Threads, Polled(t) PROVE Goal
  BY <1>11
<1>12. ASSUME NEW t \in Threads, ReactivateOut(t) PROVE Goal
  BY <1>12
<1>13. ASSUME NEW t \in Threads, Dispatch(t) PROVE Goal
  BY <1>13 DEF Dispatch
<1>14. ASSUME NEW t \in Threads, CallbackReturns(t) PROVE Goal
  BY <1>14
<1>15. ASSUME NEW t \in Threads, Reactivate(t) PROVE Goal
  BY <1>15
<1>16. ASSUME NEW t \in Threads, Remove(t) PROVE Goal
  <2>1. PICK f \in Fds \cup {OutIdent} : f = ev[t] /\ m_kernel' = remove(m_kernel, f)
    BY <1>16, <1>1 DEF Remove, StepsOK, HandlerPCs
  <2>2. \A g \in Fds \cup {OutIdent} : m_kernel'[g] = IF g = f THEN "none" ELSE m_kernel[g]
    BY <1>1, <2>1, RemoveFacts DEF TypedEvents
  <2>3. QED
    BY <2>2
<1>17. ASSUME NEW t \in Threads, reset_handler(t) PROVE Goal
  BY <1>17
<1>18. ASSUME NEW t \in Threads, RunTask(t) PROVE Goal
  BY <1>18 DEF RunTask
<1>19. ASSUME NEW t \in Threads, write_event(t) PROVE Goal
  BY <1>19 DEF write_event
<1>20. ASSUME NEW t \in Threads, FlushBroadcast(t) PROVE Goal
  BY <1>20 DEF FlushBroadcast
<1>21. ASSUME NEW t \in Threads, event_more(t) PROVE Goal
  BY <1>21
<1>22. ASSUME NEW t \in Threads, event_next(t) PROVE Goal
  BY <1>22
<1>23. ASSUME NEW t \in Threads, event_remove(t) PROVE Goal
  <2>1. PICK f \in Fds \cup {OutIdent} : f = ev[t] /\ m_kernel' = remove(m_kernel, f)
    BY <1>23, <1>1 DEF event_remove, StepsOK, HandlerPCs
  <2>2. \A g \in Fds \cup {OutIdent} : m_kernel'[g] = IF g = f THEN "none" ELSE m_kernel[g]
    BY <1>1, <2>1, RemoveFacts DEF TypedEvents
  <2>3. QED
    BY <2>2
<1>24. ASSUME NEW t \in Threads, submit(t) PROVE Goal
  BY <1>24 DEF submit
<1>25. ASSUME NEW t \in Threads, watch(t) PROVE Goal
  BY <1>25 DEF watch
<1>26. ASSUME NEW c \in Callers, start(c) PROVE Goal
  BY <1>26 DEF start
<1>27. ASSUME NEW c \in Callers, end(c) PROVE Goal
  BY <1>27 DEF end
<1>28. ASSUME NEW c \in Callers, join(c) PROVE Goal
  BY <1>28 DEF join
<1>29. ASSUME NEW c \in Callers, flush(c) PROVE Goal
  BY <1>29 DEF flush
<1>30. ASSUME NEW c \in Callers, run_once(c) PROVE Goal
  BY <1>30 DEF run_once
<1>31. ASSUME NEW c \in Callers, Woken(c) PROVE Goal
  BY <1>31 DEF Woken
<1>32. ASSUME NEW c \in Callers, add_handler(c) PROVE Goal
  <2>1. CASE m_kernel' = m_kernel
    BY <2>1
  <2>2. CASE pc[c] = "add_fd" /\ m_kernel' = add_fd(m_kernel, ev[c])
    <3>1. PICK f \in Fds : f = ev[c]
      BY <2>2, <1>1 DEF StepsOK, Threads
    <3>2. ~ Seen(f)
      BY <1>1, <2>2, <3>1 DEF FreshOK, Threads
    <3>3. Nowhere(f)
      BY <3>2 DEF Nowhere, Seen, Handling
    <3>4. m_kernel'[f] = "armed" /\ \A g \in Fds \cup {OutIdent} : g # f => m_kernel'[g] = m_kernel[g]
      BY <1>1, <2>2, <3>1, <3>2 DEF Seen, add_fd, TypedEvents
    <3>5. QED
      BY <3>3, <3>4
  <2>3. QED
    BY <1>32, <2>1, <2>2 DEF add_handler
<1>33. ASSUME NEW c \in Callers, remove_handler(c) PROVE Goal
  <2>1. CASE m_kernel' = m_kernel
    BY <2>1
  <2>2. CASE pc[c] = "remove_fd" /\ m_kernel' = remove(m_kernel, ev[c])
    <3>1. PICK f \in Fds \cup {OutIdent} : f = ev[c]
      BY <2>2, <1>1 DEF StepsOK, Threads
    <3>2. m_kernel' = remove(m_kernel, f)
      BY <2>2, <3>1
    <3>3. \A g \in Fds \cup {OutIdent} : m_kernel'[g] = IF g = f THEN "none" ELSE m_kernel[g]
      BY <1>1, <3>2 DEF TypedEvents, remove
    <3>4. QED
      BY <3>3
  <2>3. QED
    BY <1>33, <2>1, <2>2 DEF remove_handler
<1>34. ASSUME NEW f \in Fds, Arrive(f) PROVE Goal
  BY <1>34 DEF Arrive
<1>35. ASSUME NEW f \in OutFds, Drain(f) PROVE Goal
  BY <1>35 DEF Drain
<1>36. ASSUME Stopped \/ Stranded PROVE Goal
  BY <1>36 DEF Stopped, Stranded, vars
<1>37. QED
  BY <1>2, <1>3, <1>4, <1>5, <1>6, <1>7, <1>8, <1>9, <1>10, <1>11, <1>12, <1>13, <1>14, <1>15,
     <1>16, <1>17, <1>18, <1>19, <1>20, <1>21, <1>22, <1>23, <1>24, <1>25, <1>26, <1>27, <1>28,
     <1>29, <1>30, <1>31, <1>32, <1>33, <1>34, <1>35, <1>36
     DEF Next, TurnStep, HandlerCall, CallerStep

(* CallbackReturns: a handler that returns without having armed its event  *)
(* again has removed it.                                                   *)
LEMMA PlacesReturn ==
  ASSUME LoopInv, NEW t \in Threads, CallbackReturns(t), MoreSame, BacklogSame
  PROVE  PlacesOK'
<1>1. TypedPC /\ TypedEvents /\ StepsOK /\ PlacesOK /\ GoneOK
  BY Typed DEF LoopInv
<1>2. PICK f \in Fds \cup {OutIdent} : f = ev[t]
  BY <1>1 DEF CallbackReturns, StepsOK, HandlerPCs
<1>3. Alone(t) /\ pc[t] = "callback" /\ m_kernel' = m_kernel
  BY <1>1 DEF Alone, CallbackReturns, Again, At, TypedPC, TypedEvents
<1>4. \A g \in Fds \cup {OutIdent} : OthersHold(t, g)
  BY <1>3, AloneHolds
<1>5. CASE \A g \in Fds \cup {OutIdent} : Holds(t, g)' <=> Holds(t, g)
  <2>1. ASSUME NEW g \in Fds \cup {OutIdent} PROVE PlaceOK(g)'
    <3>1. \A u \in Threads : Holds(u, g)' <=> Holds(u, g)
      BY <1>4, <1>5 DEF OthersHold
    <3>2. QueuesSame(g) /\ PlaceOK(g) /\ m_kernel'[g] = m_kernel[g]
      BY <1>1, <1>3 DEF QueuesSame, MoreSame, BacklogSame, PlacesOK
    <3>3. QED
      BY <3>1, <3>2, PlaceStays
  <2>2. QED
    BY <2>1 DEF PlacesOK
<1>6. CASE flags[t] = {}
  <2>1. ev'[t] = ev[t] /\ flags'[t] = flags[t] /\ pc'[t] \in {"reactivate", "remove"}
    BY <1>1, <1>6 DEF CallbackReturns, At, TypedPC, TypedEvents
  <2>2. QED
    BY <1>3, <1>5, <2>1 DEF Holds
<1>7. CASE flags[t] # {}
  <2>1. ev'[t] = None
    BY <1>1, <1>7 DEF CallbackReturns, TypedEvents
  <2>2. \A g \in Fds \cup {OutIdent} : ~ Holds(t, g)' /\ (g # f => ~ Holds(t, g))
    BY <1>2, <2>1, LoopAssumption DEF Holds
  <2>3. CASE ~ Holds(t, f)
    BY <1>5, <2>2, <2>3
  <2>4. CASE Holds(t, f)
    <3>1. "removed" \in flags[t]
      BY <1>1, <1>7, <2>4 DEF Holds, TypedEvents
    <3>2. m_kernel'[f] # "fired"
      BY <1>1, <1>2, <1>3, <3>1 DEF GoneOK
    <3>3. QED
      BY <1>3, <1>4, <2>2, <2>4, <3>2, PlacesLeft
  <2>5. QED
    BY <2>3, <2>4
<1>8. QED
  BY <1>6, <1>7

(* reset_handler: the event ends with the turn; it is out of the interest  *)
(* list.                                                                   *)
LEMMA PlacesReset ==
  ASSUME LoopInv, NEW t \in Threads, reset_handler(t), MoreSame, BacklogSame
  PROVE  PlacesOK'
<1>1. TypedPC /\ TypedEvents /\ StepsOK /\ PlacesOK /\ GoneOK
  BY Typed DEF LoopInv
<1>2. PICK f \in Fds \cup {OutIdent} : f = ev[t]
  BY <1>1 DEF reset_handler, StepsOK, HandlerPCs
<1>3. Alone(t) /\ m_kernel' = m_kernel /\ flags' = flags
  BY <1>1 DEF Alone, reset_handler, Again, At, TypedPC, TypedEvents
<1>4. \A g \in Fds \cup {OutIdent} : OthersHold(t, g)
  BY <1>3, AloneHolds
<1>5. CASE \A g \in Fds \cup {OutIdent} : Holds(t, g)' <=> Holds(t, g)
  <2>1. ASSUME NEW g \in Fds \cup {OutIdent} PROVE PlaceOK(g)'
    <3>1. \A u \in Threads : Holds(u, g)' <=> Holds(u, g)
      BY <1>4, <1>5 DEF OthersHold
    <3>2. QueuesSame(g) /\ PlaceOK(g) /\ m_kernel'[g] = m_kernel[g]
      BY <1>1, <1>3 DEF QueuesSame, MoreSame, BacklogSame, PlacesOK
    <3>3. QED
      BY <3>1, <3>2, PlaceStays
  <2>2. QED
    BY <2>1 DEF PlacesOK
<1>6. CASE pc[t] = "event_reset"
  <2>1. ev'[t] = ev[t] /\ pc'[t] = "callback"
    BY <1>1, <1>6 DEF reset_handler, At, TypedPC, TypedEvents
  <2>2. QED
    BY <1>3, <1>5, <1>6, <2>1 DEF Holds
<1>7. CASE pc[t] = "reset"
  <2>1. ev'[t] = None /\ flags[t] = {}
    BY <1>1, <1>7 DEF reset_handler, StepsOK, TypedEvents
  <2>2. \A g \in Fds \cup {OutIdent} : ~ Holds(t, g)' /\ (g # f => ~ Holds(t, g))
    BY <1>2, <2>1, LoopAssumption DEF Holds
  <2>3. Holds(t, f)
    BY <1>2, <1>7, <2>1 DEF Holds
  <2>4. m_kernel'[f] # "fired"
    BY <1>1, <1>2, <1>3, <1>7 DEF GoneOK
  <2>5. QED
    BY <1>3, <1>4, <2>2, <2>3, <2>4, PlacesLeft
<1>8. QED
  BY <1>6, <1>7 DEF reset_handler

(* What the steps that move an event leave alone. *)
LEMMA SpecialFrames ==
  ASSUME LoopInv, NEW t \in Threads
  PROVE  /\ \/ TakeMore(t) \/ Reactivate(t) \/ ReactivateOut(t) \/ event_more(t) \/ event_next(t)
            \/ CallbackReturns(t) \/ reset_handler(t)
            => BacklogSame
         /\ \/ TakeBacklog(t) \/ PollReturns(t) \/ Polled(t) \/ Reactivate(t) \/ ReactivateOut(t)
            \/ event_next(t) \/ CallbackReturns(t) \/ reset_handler(t)
            => MoreSame
         /\ PollReturns(t) => HoldsSame
<1> USE DEF poolVars, mutexVars, coreVars, pollVars, queueVars, lifeVars, fdVars, handlerVars,
            outVars, threadVars, restVars
<1>1. TypedPC
  BY Typed DEF LoopInv
<1>2. TakeMore(t) => BacklogSame
  BY <1>1 DEF TakeMore, Process, At, BacklogSame, InBacklog, TypedPC
<1>3. Reactivate(t) \/ ReactivateOut(t) => BacklogSame
  BY <1>1 DEF Reactivate, ReactivateOut, Again, At, BacklogSame, InBacklog, TypedPC
<1>4. event_more(t) \/ event_next(t) => BacklogSame
  BY DEF event_more, event_next, BacklogSame, InBacklog
<1>5. CallbackReturns(t) \/ reset_handler(t) => BacklogSame
  BY <1>1 DEF CallbackReturns, reset_handler, Again, At, BacklogSame, InBacklog, TypedPC
<1>6. \/ TakeBacklog(t) \/ PollReturns(t) \/ Polled(t) \/ Reactivate(t) \/ ReactivateOut(t)
      \/ event_next(t) \/ CallbackReturns(t) \/ reset_handler(t)
      => MoreSame
  BY DEF TakeBacklog, PollReturns, Polled, Reactivate, ReactivateOut, event_next, CallbackReturns,
       reset_handler, MoreSame, InMore
<1>7. PollReturns(t) => HoldsSame
  BY <1>1 DEF PollReturns, At, TypedPC, HoldsSame, Holds
<1>8. QED
  BY <1>2, <1>3, <1>4, <1>5, <1>6, <1>7

(* Every step keeps the places of every event. *)
LEMMA PlacesKept ==
  ASSUME LoopInv, Next
  PROVE  PlacesOK'
<1>1. PlacesOK /\ TypedEvents
  BY Typed DEF LoopInv

<1>2. CASE BacklogSame /\ MoreSame /\ HoldsSame /\ KernelMild
  <2>1. ASSUME NEW g \in Fds \cup {OutIdent} PROVE PlaceOK(g)'
    <3>1. QueuesSame(g) /\ PlaceOK(g) /\ \A u \in Threads : Holds(u, g)' <=> Holds(u, g)
      BY <1>1, <1>2 DEF QueuesSame, MoreSame, BacklogSame, HoldsSame, PlacesOK
    <3>2. \/ m_kernel'[g] = m_kernel[g] \/ m_kernel'[g] = "none"
          \/ m_kernel'[g] = "armed" /\ Nowhere(g)
      BY <1>2 DEF KernelMild
    <3>3. QED
      BY <3>1, <3>2, PlaceStays
  <2>2. QED
    BY <2>1 DEF PlacesOK
<1>3. ASSUME NEW t \in Threads, TakeMore(t) PROVE PlacesOK'
  BY <1>3, PlacesTakeMore, SpecialFrames
<1>4. ASSUME NEW t \in Threads, TakeBacklog(t) PROVE PlacesOK'
  BY <1>4, PlacesTakeBacklog, SpecialFrames
<1>5. ASSUME NEW t \in Threads, PollReturns(t) PROVE PlacesOK'
  BY <1>5, PlacesPollReturns, SpecialFrames
<1>6. ASSUME NEW t \in Threads, Polled(t) PROVE PlacesOK'
  BY <1>6, PlacesPolled, SpecialFrames
<1>7. ASSUME NEW t \in Threads, Reactivate(t) \/ ReactivateOut(t) PROVE PlacesOK'
  BY <1>7, PlacesReactivate, SpecialFrames
<1>8. ASSUME NEW t \in Threads, event_more(t) PROVE PlacesOK'
  BY <1>8, PlacesMore, SpecialFrames
<1>9. ASSUME NEW t \in Threads, event_next(t) PROVE PlacesOK'
  BY <1>9, PlacesNext, SpecialFrames
<1>10. ASSUME NEW t \in Threads, CallbackReturns(t) PROVE PlacesOK'
  BY <1>10, PlacesReturn, SpecialFrames
<1>11. ASSUME NEW t \in Threads, reset_handler(t) PROVE PlacesOK'
  BY <1>11, PlacesReset, SpecialFrames
<1>12. QED
  BY <1>2, <1>3, <1>4, <1>5, <1>6, <1>7, <1>8, <1>9, <1>10, <1>11,
     BacklogMoves, MoreMoves, HoldMoves, MildKernel

-----------------------------------------------------------------------------
(* The theorems.                                                           *)

(* The loop starts in LoopInv. *)
LEMMA LoopInit == Init => LoopInv
<1> SUFFICES ASSUME Init PROVE LoopInv
  OBVIOUS
<1>1. TypeOK
  <2>1. TypedPC
    BY LoopAssumption DEF Init, TypedPC, Threads, WorkerPCs, CallerPCs, TurnPCs
  <2>2. TypedRest
    <3>1. mixed \in BOOLEAN
      BY LoopAssumption DEF Init
    <3>2. work \in 0..MaxWork /\ m_task_queue \in Nat /\ m_watching \in Int
      BY LoopAssumption DEF Init
    <3>3. m_pollable \in BOOLEAN /\ m_end_flag \in BOOLEAN /\ last \in [Threads -> BOOLEAN]
      BY DEF Init
    <3>4. QED
      BY <3>1, <3>2, <3>3 DEF Init, TypedRest
  <2>3. TypedEvents
    BY LoopAssumption DEF Init, TypedEvents, Interest
  <2>4. QED
    BY <2>1, <2>2, <2>3, Typed
<1>2. StepsOK /\ PoolOK /\ OnePoller /\ BacklogOK /\ GoneOK /\ KernelHasHandler
  BY LoopAssumption DEF Init, StepsOK, HandlerPCs, PoolOK, OnePoller, Polling, BacklogOK, GoneOK,
       KernelHasHandler, Threads
<1>3. \A f \in Fds \cup {OutIdent} : InBacklog(f) = {} /\ InMore(f) = {} /\ Handling(f) = {}
  BY LoopAssumption DEF Init, InBacklog, InMore, Handling
<1>4. FreshOK
  BY <1>3, LoopAssumption DEF Init, FreshOK, Seen, Threads
<1>5. PlacesOK
  BY <1>3 DEF Init, PlacesOK, PlaceOK, AtMostOnePlace, Nowhere
<1>6. QED
  BY <1>1, <1>2, <1>4, <1>5 DEF LoopInv

(* LoopInv is an invariant of the loop: types, the thread steps, the one   *)
(* poller, the batch, and the places of every event.                       *)
THEOREM LoopCorrect == Spec => []LoopInv
<1>1. Init => LoopInv
  BY LoopInit
<1>2. LoopInv /\ [Next]_vars => LoopInv'
  <2>1. ASSUME LoopInv, Next PROVE LoopInv'
    <3>1. TypeOK'
      BY <2>1, PcTyped, RestTyped, EventsTyped DEF TypeOK, TypedPC, TypedRest, TypedEvents
    <3>2. QED
      BY <2>1, <3>1, StepsKept, PoolKept, PollerKept, BacklogKept, FreshKept, GoneKept,
         HandlerKept, PlacesKept DEF LoopInv
  <2>2. ASSUME LoopInv, UNCHANGED vars PROVE LoopInv'
    <3> USE DEF vars, poolVars, mutexVars, coreVars, pollVars, queueVars, lifeVars,
          fdVars, handlerVars, outVars, threadVars, restVars
    <3>1. TypeOK'
      BY <2>2 DEF LoopInv, TypeOK
    <3>2. StepsOK' /\ PoolOK' /\ OnePoller' /\ BacklogOK' /\ GoneOK' /\ KernelHasHandler'
      BY <2>2
         DEF LoopInv, StepsOK, PoolOK, OnePoller, Polling, BacklogOK, GoneOK, KernelHasHandler
    <3>3. \A f : InBacklog(f)' = InBacklog(f) /\ InMore(f)' = InMore(f) /\ Handling(f)' = Handling(f)
      BY <2>2 DEF InBacklog, InMore, Handling
    <3>4. \A f : Seen(f)' <=> Seen(f)
      BY <2>2, <3>3 DEF Seen
    <3>5. FreshOK'
      BY <2>2, <3>4 DEF LoopInv, FreshOK
    <3>6. PlacesOK'
      BY <2>2, <3>3 DEF LoopInv, PlacesOK, PlaceOK, AtMostOnePlace, Nowhere
    <3>7. QED
      BY <3>1, <3>2, <3>5, <3>6 DEF LoopInv
  <2>3. QED
    BY <2>1, <2>2
<1>3. QED
  BY <1>1, <1>2, PTL DEF Spec

(* At most one thread is in epoll_wait, m_pollable says so, and the batch  *)
(* it overwrites has been consumed.                                        *)
THEOREM OnePollerAlways == Spec => []OnePoller
<1>1. LoopInv => OnePoller
  BY DEF LoopInv
<1>2. QED
  BY <1>1, LoopCorrect, PTL

(* An armed descriptor has a handler, or remove_handler is about to remove *)
(* it.                                                                     *)
THEOREM ArmedAlwaysHasHandler == Spec => []ArmedHasHandler
<1>1. LoopInv => ArmedHasHandler
  BY DEF LoopInv, KernelHasHandler, ArmedHasHandler
<1>2. QED
  BY <1>1, LoopCorrect, PTL

(* A set whose members are all equal has at most one member. *)
LEMMA CountOfOne ==
  ASSUME NEW S, \A x, y \in S : x = y
  PROVE  /\ Cardinality(S) \in {0, 1}
         /\ Cardinality(S) = 0 <=> S = {}
<1>1. CASE S = {}
  BY <1>1, FS_EmptySet
<1>2. CASE S # {}
  <2>1. PICK x \in S : S = {x}
    BY <1>2
  <2>2. Cardinality({x}) = 1
    BY FS_Singleton
  <2>3. QED
    BY <1>2, <2>1, <2>2
<1>3. QED
  BY <1>1, <1>2

(* One-shot events are handled exactly once: a descriptor that has fired   *)
(* is in exactly one of the batch, the more queue and the handlers' hands, *)
(* an armed one in none, a removed one in one at most.                     *)
THEOREM OneShotAlwaysOnce == Spec => []OneShotOnce
<1>1. LoopInv => OneShotOnce
  <2>1. SUFFICES ASSUME LoopInv, NEW f \in Fds \cup {OutIdent}
                 PROVE  /\ m_kernel[f] = "fired" => Tokens(f) = 1
                        /\ m_kernel[f] = "armed" => Tokens(f) = 0
                        /\ m_kernel[f] = "none" => Tokens(f) <= 1
    BY DEF OneShotOnce
  <2>2. PlaceOK(f)
    BY <2>1 DEF LoopInv, PlacesOK
  <2>3. /\ Cardinality(InBacklog(f)) \in {0, 1}
        /\ Cardinality(InBacklog(f)) = 0 <=> InBacklog(f) = {}
    BY <2>2, CountOfOne DEF PlaceOK, AtMostOnePlace
  <2>4. /\ Cardinality(InMore(f)) \in {0, 1}
        /\ Cardinality(InMore(f)) = 0 <=> InMore(f) = {}
    BY <2>2, CountOfOne DEF PlaceOK, AtMostOnePlace
  <2>5. /\ Cardinality(Handling(f)) \in {0, 1}
        /\ Cardinality(Handling(f)) = 0 <=> Handling(f) = {}
    BY <2>2, CountOfOne DEF PlaceOK, AtMostOnePlace
  <2>6. QED
    BY <2>2, <2>3, <2>4, <2>5 DEF PlaceOK, AtMostOnePlace, Nowhere, Tokens
<1>2. QED
  BY <1>1, LoopCorrect, PTL

-----------------------------------------------------------------------------
(* No wake-up is lost.                                                     *)

(* pthread_cond_signal wakes one of the sleepers, if there is one. *)
LEMMA SignalFacts ==
  ASSUME NEW cond, NEW left \in Signal(cond)
  PROVE  left \subseteq cond /\ (cond # {} => \E t \in cond : t \notin left)
BY DEF Signal

(* Whoever sleeps on m_cond is inside the wait. *)
LEMMA SleepKept ==
  ASSUME AwakeInv, Next
  PROVE  SleepOK'
<1> USE DEF poolVars, mutexVars, coreVars, pollVars, queueVars, lifeVars, fdVars, handlerVars,
            outVars, threadVars, restVars, At, Again, Threads
<1>1. TypedPC /\ PoolOK /\ SleepOK /\ m_cond \subseteq Threads
  BY Typed DEF AwakeInv, LoopInv, TypedRest
<1>2. ASSUME NEW t \in Workers, Lock(t) PROVE SleepOK'
  BY <1>2, <1>1, LoopAssumption DEF Lock, TypedPC, SleepOK
<1>3. ASSUME NEW t \in Threads, TakeMore(t) PROVE SleepOK'
  BY <1>3, <1>1, LoopAssumption DEF TakeMore, Process, TypedPC, SleepOK
<1>4. ASSUME NEW t \in Threads, do_out(t) PROVE SleepOK'
  BY <1>4, <1>1, LoopAssumption DEF do_out, TypedPC, SleepOK
<1>5. ASSUME NEW t \in Threads, do_task(t) PROVE SleepOK'
  <2>1. m_cond' \subseteq m_cond
    BY <1>1, <1>5, SignalFacts DEF do_task
  <2>2. QED
    BY <1>1, <1>5, <2>1, LoopAssumption DEF do_task, TypedPC, SleepOK
<1>6. ASSUME NEW t \in Threads, CondWait(t) PROVE SleepOK'
  BY <1>6, <1>1, LoopAssumption DEF CondWait, TypedPC, SleepOK
<1>7. ASSUME NEW t \in Threads, StartPoll(t) PROVE SleepOK'
  BY <1>7, <1>1, LoopAssumption DEF StartPoll, TypedPC, SleepOK
<1>8. ASSUME NEW t \in Threads, TakeBacklog(t) PROVE SleepOK'
  BY <1>8, <1>1, LoopAssumption DEF TakeBacklog, Process, TypedPC, SleepOK
<1>9. ASSUME NEW t \in Threads, PollReturns(t) PROVE SleepOK'
  BY <1>9, <1>1, LoopAssumption DEF PollReturns, TypedPC, SleepOK
<1>10. ASSUME NEW t \in Threads, PollTimesOut(t) PROVE SleepOK'
  BY <1>10, <1>1, LoopAssumption DEF PollTimesOut, TypedPC, SleepOK
<1>11. ASSUME NEW t \in Threads, Polled(t) PROVE SleepOK'
  <2>1. m_cond' \subseteq m_cond
    BY <1>1, <1>11, SignalFacts DEF Polled
  <2>2. QED
    BY <1>1, <1>11, <2>1, LoopAssumption DEF Polled, Process, TypedPC, SleepOK
<1>12. ASSUME NEW t \in Threads, ReactivateOut(t) PROVE SleepOK'
  BY <1>12, <1>1, LoopAssumption DEF ReactivateOut, TypedPC, SleepOK
<1>13. ASSUME NEW t \in Threads, Dispatch(t) PROVE SleepOK'
  BY <1>13, <1>1, LoopAssumption DEF Dispatch, TypedPC, SleepOK
<1>14. ASSUME NEW t \in Threads, CallbackReturns(t) PROVE SleepOK'
  BY <1>14, <1>1, LoopAssumption DEF CallbackReturns, TypedPC, SleepOK
<1>15. ASSUME NEW t \in Threads, Reactivate(t) PROVE SleepOK'
  BY <1>15, <1>1, LoopAssumption DEF Reactivate, TypedPC, SleepOK
<1>16. ASSUME NEW t \in Threads, Remove(t) PROVE SleepOK'
  BY <1>16, <1>1, LoopAssumption DEF Remove, TypedPC, SleepOK
<1>17. ASSUME NEW t \in Threads, reset_handler(t) PROVE SleepOK'
  BY <1>17, <1>1, LoopAssumption DEF reset_handler, TypedPC, SleepOK
<1>18. ASSUME NEW t \in Threads, RunTask(t) PROVE SleepOK'
  BY <1>18, <1>1, LoopAssumption DEF RunTask, TypedPC, SleepOK
<1>19. ASSUME NEW t \in Threads, write_event(t) PROVE SleepOK'
  BY <1>19, <1>1, LoopAssumption DEF write_event, TypedPC, SleepOK
<1>20. ASSUME NEW t \in Threads, FlushBroadcast(t) PROVE SleepOK'
  BY <1>20, <1>1, LoopAssumption DEF FlushBroadcast, TypedPC, SleepOK
<1>21. ASSUME NEW t \in Threads, event_more(t) PROVE SleepOK'
  <2>1. m_cond' \subseteq m_cond
    BY <1>1, <1>21, SignalFacts DEF event_more
  <2>2. QED
    BY <1>1, <1>21, <2>1, LoopAssumption DEF event_more, TypedPC, SleepOK
<1>22. ASSUME NEW t \in Threads, event_next(t) PROVE SleepOK'
  BY <1>22, <1>1, LoopAssumption DEF event_next, TypedPC, SleepOK
<1>23. ASSUME NEW t \in Threads, event_remove(t) PROVE SleepOK'
  BY <1>23, <1>1, LoopAssumption DEF event_remove, TypedPC, SleepOK
<1>24. ASSUME NEW t \in Threads, submit(t) PROVE SleepOK'
  <2>1. m_cond' \subseteq m_cond
    BY <1>1, <1>24, SignalFacts DEF submit
  <2>2. QED
    BY <1>1, <1>24, <2>1, LoopAssumption DEF submit, TypedPC, SleepOK
<1>25. ASSUME NEW t \in Threads, watch(t) PROVE SleepOK'
  BY <1>25, <1>1, LoopAssumption DEF watch, TypedPC, SleepOK
<1>26. ASSUME NEW c \in Callers, start(c) PROVE SleepOK'
  BY <1>26, <1>1, LoopAssumption DEF start, PoolOK, TypedPC, SleepOK
<1>27. ASSUME NEW c \in Callers, end(c) PROVE SleepOK'
  BY <1>27, <1>1, LoopAssumption DEF end, Broadcast, TypedPC, SleepOK
<1>28. ASSUME NEW c \in Callers, join(c) PROVE SleepOK'
  BY <1>28, <1>1, LoopAssumption DEF join, TypedPC, SleepOK
<1>29. ASSUME NEW c \in Callers, flush(c) PROVE SleepOK'
  BY <1>29, <1>1, LoopAssumption DEF flush, TypedPC, SleepOK
<1>30. ASSUME NEW c \in Callers, run_once(c) PROVE SleepOK'
  BY <1>30, <1>1, LoopAssumption DEF run_once, TypedPC, SleepOK
<1>31. ASSUME NEW c \in Callers, Woken(c) PROVE SleepOK'
  BY <1>31, <1>1, LoopAssumption DEF Woken, TypedPC, SleepOK
<1>32. ASSUME NEW c \in Callers, add_handler(c) PROVE SleepOK'
  BY <1>32, <1>1, LoopAssumption DEF add_handler, TypedPC, SleepOK
<1>33. ASSUME NEW c \in Callers, remove_handler(c) PROVE SleepOK'
  BY <1>33, <1>1, LoopAssumption DEF remove_handler, TypedPC, SleepOK
<1>34. ASSUME NEW f \in Fds, Arrive(f) PROVE SleepOK'
  BY <1>34, <1>1, LoopAssumption DEF Arrive, TypedPC, SleepOK
<1>35. ASSUME NEW f \in OutFds, Drain(f) PROVE SleepOK'
  BY <1>35, <1>1, LoopAssumption DEF Drain, TypedPC, SleepOK
<1>36. ASSUME Stopped \/ Stranded PROVE SleepOK'
  BY <1>36, <1>1, LoopAssumption DEF Stopped, Stranded, vars, TypedPC, SleepOK
<1>37. QED
  BY <1>2, <1>3, <1>4, <1>5, <1>6, <1>7, <1>8, <1>9, <1>10, <1>11, <1>12, <1>13, <1>14,
     <1>15, <1>16, <1>17, <1>18, <1>19, <1>20, <1>21, <1>22, <1>23, <1>24, <1>25, <1>26,
     <1>27, <1>28, <1>29, <1>30, <1>31, <1>32, <1>33, <1>34, <1>35, <1>36
     DEF Next, TurnStep, HandlerCall, CallerStep

(* Two workers are awake while nobody polls, one while the queues are not empty. *)
LEMMA AwakeKept ==
  ASSUME \E t, u \in Workers : t # u, AwakeInv, Next
  PROVE  AwakeOK'
<1> USE DEF poolVars, mutexVars, coreVars, pollVars, queueVars, lifeVars, fdVars, handlerVars,
            outVars, threadVars, restVars, At, Again, Threads, Busy, Queued, Polling, OnePoller
<1>1. TypedPC /\ TypedEvents /\ TypedRest /\ PoolOK /\ OnePoller /\ SleepOK /\ AwakeOK
  BY Typed DEF AwakeInv, LoopInv
<1>2. ASSUME NEW t \in Workers, Lock(t) PROVE AwakeOK'
  BY <1>2, <1>1, LoopAssumption DEF Lock, TypedPC, AwakeOK, SleepOK
<1>3. ASSUME NEW t \in Threads, TakeMore(t) PROVE AwakeOK'
  <2>1. \E s \in {"reactivate_out", "dispatch"} : pc' = [pc EXCEPT ![t] = s]
    BY <1>3 DEF TakeMore, Process
  <2>2. UNCHANGED <<m_cond, m_pollable, m_workers, m_end_flag, mixed>> /\ pc[t] = "locked"
    BY <1>3 DEF TakeMore
  <2>3. SUFFICES ASSUME m_workers # {}, ~m_end_flag, ~mixed PROVE AwakeOK'
    BY <2>2 DEF AwakeOK
  <2>4. t \in Workers /\ t \notin m_cond
    BY <1>1, <2>2, <2>3 DEF AwakeOK, SleepOK
  <2>5. Busy(t)' /\ ~Polling(t)' /\ \A u \in Workers : Busy(u) => Busy(u)'
    BY <1>1, <2>1, <2>2, <2>4 DEF TypedPC
  <2>6. \A u \in Workers : pc'[u] \notin {"new", "exited"}
    BY <1>1, <2>1, <2>2, <2>3 DEF TypedPC, AwakeOK
  <2>7. \A c \in Callers : pc'[c] = pc[c]
    BY <1>1, <2>1, <2>4, LoopAssumption DEF TypedPC
  <2>8. QED
    BY <1>1, <2>2, <2>3, <2>4, <2>5, <2>6, <2>7 DEF AwakeOK
<1>4. ASSUME NEW t \in Threads, do_out(t) PROVE AwakeOK'
  BY <1>4, <1>1, LoopAssumption DEF do_out, TypedPC, AwakeOK, SleepOK, MayDoOut
<1>5. ASSUME NEW t \in Threads, do_task(t) PROVE AwakeOK'
  <2>1. m_cond' \subseteq m_cond
    BY <1>1, <1>5, SignalFacts DEF do_task
  <2>2. QED
    BY <1>1, <1>5, <2>1, LoopAssumption DEF do_task, MayDoTask, TypedPC, AwakeOK, SleepOK
<1>6. ASSUME NEW t \in Threads, CondWait(t) PROVE AwakeOK'
  BY <1>6, <1>1, LoopAssumption DEF CondWait, TypedPC, AwakeOK, SleepOK, MaySleep
<1>7. ASSUME NEW t \in Threads, StartPoll(t) PROVE AwakeOK'
  BY <1>7, <1>1, LoopAssumption DEF StartPoll, TypedPC, AwakeOK, SleepOK, MayTakeEvent
<1>8. ASSUME NEW t \in Threads, TakeBacklog(t) PROVE AwakeOK'
  BY <1>8, <1>1, LoopAssumption DEF TakeBacklog, TypedPC, AwakeOK, SleepOK, Process, MayTakeEvent
<1>9. ASSUME NEW t \in Threads, PollReturns(t) PROVE AwakeOK'
  BY <1>9, <1>1, LoopAssumption DEF PollReturns, TypedPC, AwakeOK, SleepOK
<1>10. ASSUME NEW t \in Threads, PollTimesOut(t) PROVE AwakeOK'
  BY <1>10, <1>1, LoopAssumption DEF PollTimesOut, TypedPC, AwakeOK, SleepOK
<1>11. ASSUME NEW t \in Threads, Polled(t) PROVE AwakeOK'
  <2>1. m_cond' \subseteq m_cond /\ (m_cond # {} => \E s \in m_cond : s \notin m_cond')
    BY <1>1, <1>11, SignalFacts DEF Polled
  <2>2. \E s \in {"reactivate_out", "dispatch"} : pc' = [pc EXCEPT ![t] = s]
    BY <1>11 DEF Polled, Process
  <2>3. UNCHANGED <<m_workers, m_end_flag, mixed>> /\ m_pollable' /\ pc[t] = "polled"
    BY <1>11 DEF Polled
  <2>4. SUFFICES ASSUME m_workers # {}, ~m_end_flag, ~mixed PROVE AwakeOK'
    BY <2>3 DEF AwakeOK
  <2>5. t \in Workers /\ t \notin m_cond
    BY <1>1, <2>3, <2>4 DEF AwakeOK, SleepOK
  <2>6. PICK u \in Workers : u # t /\ u \notin m_cond' /\ pc[u] # "poll"
    <3>1. CASE m_cond = {}
      <4>1. PICK u \in Workers : u # t
        OBVIOUS
      <4>2. pc[u] # "poll"
        BY <1>1, <2>3, <4>1
      <4>3. QED
        BY <2>1, <3>1, <4>1, <4>2
    <3>2. CASE m_cond # {}
      <4>1. PICK s \in m_cond : s \notin m_cond'
        BY <2>1, <3>2
      <4>2. s \in Workers /\ pc[s] = "retry"
        BY <1>1, <2>4, <4>1 DEF AwakeOK, SleepOK, TypedRest
      <4>3. QED
        BY <2>3, <4>1, <4>2
    <3>3. QED
      BY <3>1, <3>2
  <2>7. Busy(t)' /\ Busy(u)'
    BY <1>1, <2>1, <2>2, <2>4, <2>5, <2>6 DEF TypedPC, AwakeOK
  <2>8. \A v \in Workers : pc'[v] \notin {"new", "exited"}
    BY <1>1, <2>2, <2>4 DEF TypedPC, AwakeOK
  <2>9. \A c \in Callers : pc'[c] = pc[c]
    BY <1>1, <2>2, <2>5, LoopAssumption DEF TypedPC
  <2>10. QED
    BY <1>1, <2>3, <2>4, <2>5, <2>6, <2>7, <2>8, <2>9 DEF AwakeOK
<1>12. ASSUME NEW t \in Threads, ReactivateOut(t) PROVE AwakeOK'
  BY <1>12, <1>1, LoopAssumption DEF ReactivateOut, TypedPC, AwakeOK, SleepOK
<1>13. ASSUME NEW t \in Threads, Dispatch(t) PROVE AwakeOK'
  BY <1>13, <1>1, LoopAssumption DEF Dispatch, TypedPC, AwakeOK, SleepOK
<1>14. ASSUME NEW t \in Threads, CallbackReturns(t) PROVE AwakeOK'
  BY <1>14, <1>1, LoopAssumption DEF CallbackReturns, TypedPC, AwakeOK, SleepOK
<1>15. ASSUME NEW t \in Threads, Reactivate(t) PROVE AwakeOK'
  BY <1>15, <1>1, LoopAssumption DEF Reactivate, TypedPC, AwakeOK, SleepOK
<1>16. ASSUME NEW t \in Threads, Remove(t) PROVE AwakeOK'
  BY <1>16, <1>1, LoopAssumption DEF Remove, TypedPC, AwakeOK, SleepOK
<1>17. ASSUME NEW t \in Threads, reset_handler(t) PROVE AwakeOK'
  BY <1>17, <1>1, LoopAssumption DEF reset_handler, TypedPC, AwakeOK, SleepOK
<1>18. ASSUME NEW t \in Threads, RunTask(t) PROVE AwakeOK'
  BY <1>18, <1>1, LoopAssumption DEF RunTask, TypedPC, AwakeOK, SleepOK
<1>19. ASSUME NEW t \in Threads, write_event(t) PROVE AwakeOK'
  BY <1>19, <1>1, LoopAssumption DEF write_event, TypedPC, AwakeOK, SleepOK, Spend
<1>20. ASSUME NEW t \in Threads, FlushBroadcast(t) PROVE AwakeOK'
  BY <1>20, <1>1, LoopAssumption DEF FlushBroadcast, TypedPC, AwakeOK, SleepOK
<1>21. ASSUME NEW t \in Threads, event_more(t) PROVE AwakeOK'
  <2>1. m_cond' \subseteq m_cond /\ (m_cond # {} => \E s \in m_cond : s \notin m_cond')
    BY <1>1, <1>21, SignalFacts DEF event_more
  <2>2. QED
    BY <1>1, <1>21, <2>1, LoopAssumption DEF event_more, Spend, TypedPC, AwakeOK, SleepOK
<1>22. ASSUME NEW t \in Threads, event_next(t) PROVE AwakeOK'
  BY <1>22, <1>1, LoopAssumption DEF event_next, TypedPC, AwakeOK, SleepOK
<1>23. ASSUME NEW t \in Threads, event_remove(t) PROVE AwakeOK'
  BY <1>23, <1>1, LoopAssumption DEF event_remove, TypedPC, AwakeOK, SleepOK
<1>24. ASSUME NEW t \in Threads, submit(t) PROVE AwakeOK'
  <2>1. m_cond' \subseteq m_cond /\ (m_cond # {} => \E s \in m_cond : s \notin m_cond')
    BY <1>1, <1>24, SignalFacts DEF submit
  <2>2. UNCHANGED <<m_workers, m_end_flag, mixed, m_pollable, pc>>
    BY <1>24 DEF submit, Spend
  <2>3. SUFFICES ASSUME m_workers # {}, ~m_end_flag, ~mixed PROVE AwakeOK'
    BY <2>2 DEF AwakeOK
  <2>4. \A u \in Workers : Busy(u) => Busy(u)'
    BY <2>1, <2>2
  <2>5. ASSUME ~m_pollable PROVE \E u \in Workers : Busy(u)' /\ ~Polling(u)
    <3>1. PICK p \in Threads : Polling(p)
      BY <1>1, <2>5
    <3>2. CASE m_cond = {}
      <4>1. PICK u \in Workers : u # p
        OBVIOUS
      <4>2. ~Polling(u)
        BY <1>1, <3>1, <4>1
      <4>3. QED
        BY <1>1, <2>1, <2>2, <2>3, <3>2, <4>2 DEF AwakeOK
    <3>3. CASE m_cond # {}
      <4>1. PICK s \in m_cond : s \notin m_cond'
        BY <2>1, <3>3
      <4>2. s \in Workers /\ pc[s] = "retry"
        BY <1>1, <2>3, <4>1 DEF AwakeOK, SleepOK, TypedRest
      <4>3. QED
        BY <2>2, <4>1, <4>2
    <3>4. QED
      BY <3>2, <3>3
  <2>6. QED
    BY <1>1, <2>2, <2>3, <2>4, <2>5 DEF AwakeOK
<1>25. ASSUME NEW t \in Threads, watch(t) PROVE AwakeOK'
  BY <1>25, <1>1, LoopAssumption DEF watch, TypedPC, AwakeOK, SleepOK, Spend, Free
<1>26. ASSUME NEW c \in Callers, start(c) PROVE AwakeOK'
  BY <1>26, <1>1, LoopAssumption DEF start, TypedPC, AwakeOK, SleepOK, PoolOK
<1>27. ASSUME NEW c \in Callers, end(c) PROVE AwakeOK'
  BY <1>27, <1>1, LoopAssumption DEF end, TypedPC, AwakeOK, SleepOK, Broadcast
<1>28. ASSUME NEW c \in Callers, join(c) PROVE AwakeOK'
  BY <1>28, <1>1, LoopAssumption DEF join, TypedPC, AwakeOK, SleepOK
<1>29. ASSUME NEW c \in Callers, flush(c) PROVE AwakeOK'
  BY <1>29, <1>1, LoopAssumption DEF flush, TypedPC, AwakeOK, SleepOK, MayDrive
<1>30. ASSUME NEW c \in Callers, run_once(c) PROVE AwakeOK'
  BY <1>30, <1>1, LoopAssumption DEF run_once, TypedPC, AwakeOK, SleepOK, MayDrive
<1>31. ASSUME NEW c \in Callers, Woken(c) PROVE AwakeOK'
  BY <1>31, <1>1, LoopAssumption DEF Woken, TypedPC, AwakeOK, SleepOK
<1>32. ASSUME NEW c \in Callers, add_handler(c) PROVE AwakeOK'
  BY <1>32, <1>1, LoopAssumption DEF add_handler, TypedPC, AwakeOK, SleepOK
<1>33. ASSUME NEW c \in Callers, remove_handler(c) PROVE AwakeOK'
  BY <1>33, <1>1, LoopAssumption DEF remove_handler, TypedPC, AwakeOK, SleepOK
<1>34. ASSUME NEW f \in Fds, Arrive(f) PROVE AwakeOK'
  BY <1>34, <1>1, LoopAssumption DEF Arrive, TypedPC, AwakeOK, SleepOK, Spend
<1>35. ASSUME NEW f \in OutFds, Drain(f) PROVE AwakeOK'
  BY <1>35, <1>1, LoopAssumption DEF Drain, TypedPC, AwakeOK, SleepOK
<1>36. ASSUME Stopped \/ Stranded PROVE AwakeOK'
  BY <1>36, <1>1, LoopAssumption DEF Stopped, TypedPC, AwakeOK, SleepOK, Stranded, vars
<1>37. QED
  BY <1>2, <1>3, <1>4, <1>5, <1>6, <1>7, <1>8, <1>9, <1>10, <1>11, <1>12, <1>13, <1>14,
     <1>15, <1>16, <1>17, <1>18, <1>19, <1>20, <1>21, <1>22, <1>23, <1>24, <1>25, <1>26,
     <1>27, <1>28, <1>29, <1>30, <1>31, <1>32, <1>33, <1>34, <1>35, <1>36
     DEF Next, TurnStep, HandlerCall, CallerStep

(* For a pool of at least two workers: as long as it runs, somebody polls  *)
(* or is awake, and queued work never waits for an event, whichever order  *)
(* submit, event::more, the poller and the sleepers take the mutex in.     *)
THEOREM NobodyAsleep ==
  ASSUME \E t, u \in Workers : t # u
  PROVE  Spec => []NoWorkAsleep
<1>1. Init => SleepOK /\ AwakeOK
  BY DEF Init, SleepOK, AwakeOK
<1>2. AwakeInv /\ LoopInv' /\ [Next]_vars => AwakeInv'
  <2>1. SUFFICES ASSUME AwakeInv, LoopInv', [Next]_vars PROVE SleepOK' /\ AwakeOK'
    BY DEF AwakeInv
  <2>2. CASE Next
    BY <2>1, <2>2, SleepKept, AwakeKept
  <2>3. CASE UNCHANGED vars
    BY <2>1, <2>3
       DEF AwakeInv, SleepOK, AwakeOK, Busy, Queued, Polling, vars, poolVars, mutexVars, coreVars,
           pollVars, queueVars, lifeVars, outVars, restVars
  <2>4. QED
    BY <2>1, <2>2, <2>3
<1>3. AwakeInv => NoWorkAsleep
  <2>1. SUFFICES ASSUME AwakeInv, m_workers # {}, ~m_end_flag, ~mixed
                 PROVE  ~ (Workers \subseteq m_cond) /\ (Queued => \E t \in Workers : Busy(t))
    BY DEF NoWorkAsleep
  <2>2. TypedRest /\ OnePoller /\ SleepOK /\ AwakeOK
    BY <2>1, Typed DEF AwakeInv, LoopInv
  <2>3. CASE m_pollable
    BY <2>1, <2>2, <2>3 DEF AwakeOK, Busy
  <2>4. CASE ~m_pollable
    <3>1. PICK t \in Threads : Polling(t)
      BY <2>2, <2>4 DEF OnePoller
    <3>2. t \in Workers
      BY <2>1, <2>2, <3>1 DEF AwakeOK, Polling, Threads
    <3>3. t \notin m_cond
      BY <2>2, <3>1, <3>2 DEF SleepOK, Polling
    <3>4. QED
      BY <2>1, <2>2, <2>4, <3>2, <3>3 DEF AwakeOK
  <2>5. QED
    BY <2>3, <2>4
<1>4. AwakeInv <=> LoopInv /\ SleepOK /\ AwakeOK
  BY DEF AwakeInv
<1>5. QED
  BY <1>1, <1>2, <1>3, <1>4, LoopCorrect, PTL DEF Spec

=============================================================================
