-------------------------- MODULE WavySignalProofs --------------------------
(***************************************************************************)
(* No signal that has a handler is discarded or terminates the process,    *)
(* for any number of workers, handlers and signals, if every handler has a *)
(* signal of its own (OwnSignal): SignalInv (WavySignal) is an inductive   *)
(* invariant.                                                              *)
(*                                                                         *)
(* The destructor unblocks in one thread and then gives the signal its old *)
(* disposition back.  It is alone with its handler (AloneOK), which is no  *)
(* longer set, so nothing is owed to it but what was pending; unblocking   *)
(* discards that while the signal is still ignored (OwedOK).               *)
(***************************************************************************)
EXTENDS WavySignal, TLAPS

(* The order of ~signal_handler. *)
LEMMA DestructorSteps ==
  /\ Destructor[1] = "unblock" /\ After("unblock") = "restore"
  /\ After("restore") = "close" /\ After("close") = "idle"
<1>1. Destructor[1] = "unblock" /\ Destructor[2] = "restore" /\ Destructor[3] = "close"
  BY DEF Destructor
<1>2. \A i \in 1..3 : (Destructor[i] = "unblock" <=> i = 1) /\ (Destructor[i] = "restore" <=> i = 2)
                      /\ (Destructor[i] = "close" <=> i = 3)
  BY <1>1
<1>3. (CHOOSE j \in 1..3 : Destructor[j] = "unblock") = 1
  BY <1>2
<1>4. (CHOOSE j \in 1..3 : Destructor[j] = "restore") = 2
  BY <1>2
<1>5. (CHOOSE j \in 1..3 : Destructor[j] = "close") = 3
  BY <1>2
<1>6. QED
  BY <1>1, <1>3, <1>4, <1>5 DEF After

(* Types. *)
LEMMA TypesKept ==
  ASSUME OwnSignal, SignalInv, Next
  PROVE  TypeOK'
<1> USE SignalAssumption
        DEF maskVars, sigVars, loopVars, callVars, Threads, At, Constructing, Destroying,
            TypeOK, CallsOK
<1>1. TypeOK /\ CallsOK /\ AloneOK /\ SetOK /\ OwedOK /\ HandledNotLost /\ OwedNeverKills
  BY DEF SignalInv
<1>2. ASSUME Quiescent PROVE TypeOK'
  BY <1>2, <1>1 DEF Quiescent, vars
<1>3. ASSUME scoped_signal PROVE TypeOK'
  BY <1>3, <1>1 DEF scoped_signal
<1>4. ASSUME scoped_sigprocmask PROVE TypeOK'
  BY <1>4, <1>1 DEF scoped_sigprocmask, Blocked
<1>5. ASSUME set_handler PROVE TypeOK'
  BY <1>5, <1>1 DEF set_handler
<1>6. ASSUME RemoveReset PROVE TypeOK'
  BY <1>6, <1>1 DEF RemoveReset
<1>7. ASSUME start PROVE TypeOK'
  BY <1>7, <1>1 DEF start
<1>8. ASSUME NEW hd \in Handlers, add_signal(hd) PROVE TypeOK'
  BY <1>8, <1>1 DEF add_signal, add_fd, Interest
<1>9. ASSUME NEW hd \in Handlers, remove_signal(hd) PROVE TypeOK'
  BY <1>9, <1>1 DEF remove_signal, remove, Interest
<1>10. ASSUME NEW hd \in Handlers, Report(hd) PROVE TypeOK'
  BY <1>10, <1>1 DEF Report, wait, Interest
<1>11. ASSUME NEW w \in Workers, Dispatch(w) PROVE TypeOK'
  BY <1>11, <1>1 DEF Dispatch, remove, Interest
<1>12. ASSUME NEW w \in Workers, Callback(w) PROVE TypeOK'
  BY <1>12, <1>1 DEF Callback
<1>13. ASSUME NEW w \in Workers, Reactivate(w) PROVE TypeOK'
  BY <1>13, <1>1 DEF Reactivate, reactivate, Interest
<1>14. ASSUME NEW w \in Workers, Remove(w) PROVE TypeOK'
  BY <1>14, <1>1 DEF Remove, remove, Interest
<1>15. ASSUME NEW w \in Workers, reset_handler(w) PROVE TypeOK'
  BY <1>15, <1>1 DEF reset_handler
<1>16. ASSUME NEW t \in Threads, Drop(t) PROVE TypeOK'
  BY <1>16, <1>1, DestructorSteps DEF Drop
<1>17. ASSUME NEW t \in Threads, Unblock(t) PROVE TypeOK'
  BY <1>17, <1>1, DestructorSteps DEF Unblock, TakeEffect
<1>18. ASSUME NEW t \in Threads, Restore(t) PROVE TypeOK'
  BY <1>18, <1>1, DestructorSteps DEF Restore
<1>19. ASSUME NEW t \in Threads, CloseFd(t) PROVE TypeOK'
  BY <1>19, <1>1, DestructorSteps DEF CloseFd, remove, Interest
<1>20. ASSUME NEW s \in Signos, Kill(s) PROVE TypeOK'
  BY <1>20, <1>1 DEF Kill
<1>21. ASSUME NEW s \in Signos, NEW t \in Threads, Deliver(t, s) PROVE TypeOK'
  BY <1>21, <1>1 DEF Deliver, TakeEffect
<1>22. QED
  BY <1>2, <1>3, <1>4, <1>5, <1>6, <1>7, <1>8, <1>9, <1>10, <1>11, <1>12, <1>13, <1>14,
     <1>15, <1>16, <1>17, <1>18, <1>19, <1>20, <1>21
     DEF Next, Step, MainGoesOn, WorkerStep, Dispose, Threads
(* Who has which handler. *)
LEMMA CallsKept ==
  ASSUME OwnSignal, SignalInv, Next
  PROVE  CallsOK'
<1> USE SignalAssumption
        DEF maskVars, sigVars, loopVars, callVars, Threads, At, Constructing, Destroying,
            TypeOK, CallsOK
<1>1. TypeOK /\ CallsOK /\ AloneOK /\ SetOK /\ OwedOK /\ HandledNotLost /\ OwedNeverKills
  BY DEF SignalInv
<1>2. ASSUME Quiescent PROVE CallsOK'
  BY <1>2, <1>1 DEF Quiescent, vars
<1>3. ASSUME scoped_signal PROVE CallsOK'
  BY <1>3, <1>1 DEF scoped_signal
<1>4. ASSUME scoped_sigprocmask PROVE CallsOK'
  BY <1>4, <1>1 DEF scoped_sigprocmask
<1>5. ASSUME set_handler PROVE CallsOK'
  BY <1>5, <1>1 DEF set_handler
<1>6. ASSUME RemoveReset PROVE CallsOK'
  BY <1>6, <1>1 DEF RemoveReset
<1>7. ASSUME start PROVE CallsOK'
  BY <1>7, <1>1 DEF start
<1>8. ASSUME NEW hd \in Handlers, add_signal(hd) PROVE CallsOK'
  BY <1>8, <1>1 DEF add_signal
<1>9. ASSUME NEW hd \in Handlers, remove_signal(hd) PROVE CallsOK'
  BY <1>9, <1>1 DEF remove_signal
<1>10. ASSUME NEW hd \in Handlers, Report(hd) PROVE CallsOK'
  BY <1>10, <1>1 DEF Report
<1>11. ASSUME NEW w \in Workers, Dispatch(w) PROVE CallsOK'
  BY <1>11, <1>1 DEF Dispatch
<1>12. ASSUME NEW w \in Workers, Callback(w) PROVE CallsOK'
  BY <1>12, <1>1 DEF Callback
<1>13. ASSUME NEW w \in Workers, Reactivate(w) PROVE CallsOK'
  BY <1>13, <1>1 DEF Reactivate
<1>14. ASSUME NEW w \in Workers, Remove(w) PROVE CallsOK'
  BY <1>14, <1>1 DEF Remove
<1>15. ASSUME NEW w \in Workers, reset_handler(w) PROVE CallsOK'
  BY <1>15, <1>1 DEF reset_handler
<1>16. ASSUME NEW t \in Threads, Drop(t) PROVE CallsOK'
  BY <1>16, <1>1, DestructorSteps DEF Drop
<1>17. ASSUME NEW t \in Threads, Unblock(t) PROVE CallsOK'
  BY <1>17, <1>1, DestructorSteps DEF Unblock
<1>18. ASSUME NEW t \in Threads, Restore(t) PROVE CallsOK'
  BY <1>18, <1>1, DestructorSteps DEF Restore
<1>19. ASSUME NEW t \in Threads, CloseFd(t) PROVE CallsOK'
  BY <1>19, <1>1, DestructorSteps DEF CloseFd
<1>20. ASSUME NEW s \in Signos, Kill(s) PROVE CallsOK'
  BY <1>20, <1>1 DEF Kill
<1>21. ASSUME NEW s \in Signos, NEW t \in Threads, Deliver(t, s) PROVE CallsOK'
  BY <1>21, <1>1 DEF Deliver
<1>22. QED
  BY <1>2, <1>3, <1>4, <1>5, <1>6, <1>7, <1>8, <1>9, <1>10, <1>11, <1>12, <1>13, <1>14,
     <1>15, <1>16, <1>17, <1>18, <1>19, <1>20, <1>21
     DEF Next, Step, MainGoesOn, WorkerStep, Dispose, Threads
(* The thread that destroys a handler stays alone with it. *)
LEMMA AloneKept ==
  ASSUME OwnSignal, SignalInv, Next
  PROVE  AloneOK'
<1> USE SignalAssumption
        DEF maskVars, sigVars, loopVars, callVars, Threads, At, Constructing, Destroying,
            TypeOK, CallsOK, AloneOK
<1>1. TypeOK /\ CallsOK /\ AloneOK /\ SetOK /\ OwedOK /\ HandledNotLost /\ OwedNeverKills
  BY DEF SignalInv
<1>2. ASSUME Quiescent PROVE AloneOK'
  BY <1>2, <1>1 DEF Quiescent, vars
<1>3. ASSUME scoped_signal PROVE AloneOK'
  BY <1>3, <1>1 DEF scoped_signal
<1>4. ASSUME scoped_sigprocmask PROVE AloneOK'
  BY <1>4, <1>1 DEF scoped_sigprocmask
<1>5. ASSUME set_handler PROVE AloneOK'
  BY <1>5, <1>1 DEF set_handler
<1>6. ASSUME RemoveReset PROVE AloneOK'
  BY <1>6, <1>1 DEF RemoveReset
<1>7. ASSUME start PROVE AloneOK'
  BY <1>7, <1>1 DEF start
<1>8. ASSUME NEW hd \in Handlers, add_signal(hd) PROVE AloneOK'
  BY <1>8, <1>1 DEF add_signal
<1>9. ASSUME NEW hd \in Handlers, remove_signal(hd) PROVE AloneOK'
  BY <1>9, <1>1 DEF remove_signal
<1>10. ASSUME NEW hd \in Handlers, Report(hd) PROVE AloneOK'
  BY <1>10, <1>1 DEF Report
<1>11. ASSUME NEW w \in Workers, Dispatch(w) PROVE AloneOK'
  BY <1>11, <1>1 DEF Dispatch
<1>12. ASSUME NEW w \in Workers, Callback(w) PROVE AloneOK'
  BY <1>12, <1>1 DEF Callback
<1>13. ASSUME NEW w \in Workers, Reactivate(w) PROVE AloneOK'
  BY <1>13, <1>1 DEF Reactivate
<1>14. ASSUME NEW w \in Workers, Remove(w) PROVE AloneOK'
  BY <1>14, <1>1 DEF Remove
<1>15. ASSUME NEW w \in Workers, reset_handler(w) PROVE AloneOK'
  BY <1>15, <1>1 DEF reset_handler
<1>16. ASSUME NEW t \in Threads, Drop(t) PROVE AloneOK'
  BY <1>16, <1>1, DestructorSteps DEF Drop
<1>17. ASSUME NEW t \in Threads, Unblock(t) PROVE AloneOK'
  BY <1>17, <1>1, DestructorSteps DEF Unblock
<1>18. ASSUME NEW t \in Threads, Restore(t) PROVE AloneOK'
  BY <1>18, <1>1, DestructorSteps DEF Restore
<1>19. ASSUME NEW t \in Threads, CloseFd(t) PROVE AloneOK'
  BY <1>19, <1>1, DestructorSteps DEF CloseFd
<1>20. ASSUME NEW s \in Signos, Kill(s) PROVE AloneOK'
  BY <1>20, <1>1 DEF Kill
<1>21. ASSUME NEW s \in Signos, NEW t \in Threads, Deliver(t, s) PROVE AloneOK'
  BY <1>21, <1>1 DEF Deliver
<1>22. QED
  BY <1>2, <1>3, <1>4, <1>5, <1>6, <1>7, <1>8, <1>9, <1>10, <1>11, <1>12, <1>13, <1>14,
     <1>15, <1>16, <1>17, <1>18, <1>19, <1>20, <1>21
     DEF Next, Step, MainGoesOn, WorkerStep, Dispose, Threads
(* A handled signal stays ignored and blocked. *)
LEMMA SetKept ==
  ASSUME OwnSignal, SignalInv, Next
  PROVE  SetOK'
<1> USE SignalAssumption
        DEF maskVars, sigVars, loopVars, callVars, Threads, At, Constructing, Destroying,
            TypeOK, CallsOK, SetOK, AloneOK, Started, OwnSignal
<1>1. TypeOK /\ CallsOK /\ AloneOK /\ SetOK /\ OwedOK /\ HandledNotLost /\ OwedNeverKills
  BY DEF SignalInv
<1>2. ASSUME Quiescent PROVE SetOK'
  BY <1>2, <1>1 DEF Quiescent, vars
<1>3. ASSUME scoped_signal PROVE SetOK'
  BY <1>3, <1>1 DEF scoped_signal
<1>4. ASSUME scoped_sigprocmask PROVE SetOK'
  BY <1>4, <1>1 DEF scoped_sigprocmask, Blocked
<1>5. ASSUME set_handler PROVE SetOK'
  BY <1>5, <1>1 DEF set_handler
<1>6. ASSUME RemoveReset PROVE SetOK'
  BY <1>6, <1>1 DEF RemoveReset
<1>7. ASSUME start PROVE SetOK'
  BY <1>7, <1>1 DEF start
<1>8. ASSUME NEW hd \in Handlers, add_signal(hd) PROVE SetOK'
  BY <1>8, <1>1 DEF add_signal
<1>9. ASSUME NEW hd \in Handlers, remove_signal(hd) PROVE SetOK'
  BY <1>9, <1>1 DEF remove_signal
<1>10. ASSUME NEW hd \in Handlers, Report(hd) PROVE SetOK'
  BY <1>10, <1>1 DEF Report
<1>11. ASSUME NEW w \in Workers, Dispatch(w) PROVE SetOK'
  BY <1>11, <1>1 DEF Dispatch
<1>12. ASSUME NEW w \in Workers, Callback(w) PROVE SetOK'
  BY <1>12, <1>1 DEF Callback
<1>13. ASSUME NEW w \in Workers, Reactivate(w) PROVE SetOK'
  BY <1>13, <1>1 DEF Reactivate
<1>14. ASSUME NEW w \in Workers, Remove(w) PROVE SetOK'
  BY <1>14, <1>1 DEF Remove
<1>15. ASSUME NEW w \in Workers, reset_handler(w) PROVE SetOK'
  BY <1>15, <1>1 DEF reset_handler
<1>16. ASSUME NEW t \in Threads, Drop(t) PROVE SetOK'
  BY <1>16, <1>1, DestructorSteps DEF Drop
<1>17. ASSUME NEW t \in Threads, Unblock(t) PROVE SetOK'
  BY <1>17, <1>1, DestructorSteps DEF Unblock
<1>18. ASSUME NEW t \in Threads, Restore(t) PROVE SetOK'
  BY <1>18, <1>1, DestructorSteps DEF Restore
<1>19. ASSUME NEW t \in Threads, CloseFd(t) PROVE SetOK'
  BY <1>19, <1>1, DestructorSteps DEF CloseFd
<1>20. ASSUME NEW s \in Signos, Kill(s) PROVE SetOK'
  BY <1>20, <1>1 DEF Kill
<1>21. ASSUME NEW s \in Signos, NEW t \in Threads, Deliver(t, s) PROVE SetOK'
  BY <1>21, <1>1 DEF Deliver
<1>22. QED
  BY <1>2, <1>3, <1>4, <1>5, <1>6, <1>7, <1>8, <1>9, <1>10, <1>11, <1>12, <1>13, <1>14,
     <1>15, <1>16, <1>17, <1>18, <1>19, <1>20, <1>21
     DEF Next, Step, MainGoesOn, WorkerStep, Dispose, Threads
(* What is owed stays pending and ignored. *)
LEMMA OwedKept ==
  ASSUME OwnSignal, SignalInv, Next
  PROVE  OwedOK'
<1> USE SignalAssumption
        DEF maskVars, sigVars, loopVars, callVars, Threads, At, Constructing, Destroying,
            TypeOK, CallsOK, AloneOK, OwedOK, OwnSignal
<1>1. TypeOK /\ CallsOK /\ AloneOK /\ SetOK /\ OwedOK /\ HandledNotLost /\ OwedNeverKills
  BY DEF SignalInv
<1>2. ASSUME Quiescent PROVE OwedOK'
  BY <1>2, <1>1 DEF Quiescent, vars
<1>3. ASSUME scoped_signal PROVE OwedOK'
  BY <1>3, <1>1 DEF scoped_signal
<1>4. ASSUME scoped_sigprocmask PROVE OwedOK'
  BY <1>4, <1>1 DEF scoped_sigprocmask
<1>5. ASSUME set_handler PROVE OwedOK'
  BY <1>5, <1>1 DEF set_handler
<1>6. ASSUME RemoveReset PROVE OwedOK'
  BY <1>6, <1>1 DEF RemoveReset
<1>7. ASSUME start PROVE OwedOK'
  BY <1>7, <1>1 DEF start
<1>8. ASSUME NEW hd \in Handlers, add_signal(hd) PROVE OwedOK'
  BY <1>8, <1>1 DEF add_signal
<1>9. ASSUME NEW hd \in Handlers, remove_signal(hd) PROVE OwedOK'
  BY <1>9, <1>1 DEF remove_signal
<1>10. ASSUME NEW hd \in Handlers, Report(hd) PROVE OwedOK'
  BY <1>10, <1>1 DEF Report
<1>11. ASSUME NEW w \in Workers, Dispatch(w) PROVE OwedOK'
  BY <1>11, <1>1 DEF Dispatch
<1>12. ASSUME NEW w \in Workers, Callback(w) PROVE OwedOK'
  BY <1>12, <1>1 DEF Callback
<1>13. ASSUME NEW w \in Workers, Reactivate(w) PROVE OwedOK'
  BY <1>13, <1>1 DEF Reactivate
<1>14. ASSUME NEW w \in Workers, Remove(w) PROVE OwedOK'
  BY <1>14, <1>1 DEF Remove
<1>15. ASSUME NEW w \in Workers, reset_handler(w) PROVE OwedOK'
  BY <1>15, <1>1 DEF reset_handler
<1>16. ASSUME NEW t \in Threads, Drop(t) PROVE OwedOK'
  BY <1>16, <1>1, DestructorSteps DEF Drop
<1>17. ASSUME NEW t \in Threads, Unblock(t) PROVE OwedOK'
  BY <1>17, <1>1, DestructorSteps DEF Unblock, TakeEffect
<1>18. ASSUME NEW t \in Threads, Restore(t) PROVE OwedOK'
  BY <1>18, <1>1, DestructorSteps DEF Restore
<1>19. ASSUME NEW t \in Threads, CloseFd(t) PROVE OwedOK'
  BY <1>19, <1>1, DestructorSteps DEF CloseFd
<1>20. ASSUME NEW s \in Signos, Kill(s) PROVE OwedOK'
  BY <1>20, <1>1 DEF Kill, IsSet, SetOK
<1>21. ASSUME NEW s \in Signos, NEW t \in Threads, Deliver(t, s) PROVE OwedOK'
  BY <1>21, <1>1 DEF Deliver, TakeEffect
<1>22. QED
  BY <1>2, <1>3, <1>4, <1>5, <1>6, <1>7, <1>8, <1>9, <1>10, <1>11, <1>12, <1>13, <1>14,
     <1>15, <1>16, <1>17, <1>18, <1>19, <1>20, <1>21
     DEF Next, Step, MainGoesOn, WorkerStep, Dispose, Threads
(* Nothing that is handled is lost, and nothing that is owed terminates. *)
LEMMA NotLostKept ==
  ASSUME OwnSignal, SignalInv, Next
  PROVE  HandledNotLost' /\ OwedNeverKills'
<1> USE SignalAssumption
        DEF maskVars, sigVars, loopVars, callVars, Threads, At, Constructing, Destroying,
            TypeOK, HandledNotLost, OwedNeverKills
<1>1. TypeOK /\ CallsOK /\ AloneOK /\ SetOK /\ OwedOK /\ HandledNotLost /\ OwedNeverKills
  BY DEF SignalInv
<1>2. ASSUME Quiescent PROVE HandledNotLost' /\ OwedNeverKills'
  BY <1>2, <1>1 DEF Quiescent, vars
<1>3. ASSUME scoped_signal PROVE HandledNotLost' /\ OwedNeverKills'
  BY <1>3, <1>1 DEF scoped_signal
<1>4. ASSUME scoped_sigprocmask PROVE HandledNotLost' /\ OwedNeverKills'
  BY <1>4, <1>1 DEF scoped_sigprocmask
<1>5. ASSUME set_handler PROVE HandledNotLost' /\ OwedNeverKills'
  BY <1>5, <1>1 DEF set_handler
<1>6. ASSUME RemoveReset PROVE HandledNotLost' /\ OwedNeverKills'
  BY <1>6, <1>1 DEF RemoveReset
<1>7. ASSUME start PROVE HandledNotLost' /\ OwedNeverKills'
  BY <1>7, <1>1 DEF start
<1>8. ASSUME NEW hd \in Handlers, add_signal(hd) PROVE HandledNotLost' /\ OwedNeverKills'
  BY <1>8, <1>1 DEF add_signal
<1>9. ASSUME NEW hd \in Handlers, remove_signal(hd) PROVE HandledNotLost' /\ OwedNeverKills'
  BY <1>9, <1>1 DEF remove_signal
<1>10. ASSUME NEW hd \in Handlers, Report(hd) PROVE HandledNotLost' /\ OwedNeverKills'
  BY <1>10, <1>1 DEF Report
<1>11. ASSUME NEW w \in Workers, Dispatch(w) PROVE HandledNotLost' /\ OwedNeverKills'
  BY <1>11, <1>1 DEF Dispatch
<1>12. ASSUME NEW w \in Workers, Callback(w) PROVE HandledNotLost' /\ OwedNeverKills'
  BY <1>12, <1>1 DEF Callback
<1>13. ASSUME NEW w \in Workers, Reactivate(w) PROVE HandledNotLost' /\ OwedNeverKills'
  BY <1>13, <1>1 DEF Reactivate
<1>14. ASSUME NEW w \in Workers, Remove(w) PROVE HandledNotLost' /\ OwedNeverKills'
  BY <1>14, <1>1 DEF Remove
<1>15. ASSUME NEW w \in Workers, reset_handler(w) PROVE HandledNotLost' /\ OwedNeverKills'
  BY <1>15, <1>1 DEF reset_handler
<1>16. ASSUME NEW t \in Threads, Drop(t) PROVE HandledNotLost' /\ OwedNeverKills'
  BY <1>16, <1>1, DestructorSteps DEF Drop
<1>17. ASSUME NEW t \in Threads, Unblock(t) PROVE HandledNotLost' /\ OwedNeverKills'
  BY <1>17, <1>1, DestructorSteps
     DEF Unblock, TakeEffect, IsSet, AloneOK, OwedOK, OwnSignal, CallsOK
<1>18. ASSUME NEW t \in Threads, Restore(t) PROVE HandledNotLost' /\ OwedNeverKills'
  BY <1>18, <1>1, DestructorSteps DEF Restore
<1>19. ASSUME NEW t \in Threads, CloseFd(t) PROVE HandledNotLost' /\ OwedNeverKills'
  BY <1>19, <1>1, DestructorSteps DEF CloseFd
<1>20. ASSUME NEW s \in Signos, Kill(s) PROVE HandledNotLost' /\ OwedNeverKills'
  BY <1>20, <1>1 DEF Kill, IsSet, SetOK, Started
<1>21. ASSUME NEW s \in Signos, NEW t \in Threads, Deliver(t, s)
       PROVE  HandledNotLost' /\ OwedNeverKills'
  BY <1>21, <1>1 DEF Deliver, TakeEffect, IsSet, SetOK, OwedOK
<1>22. QED
  BY <1>2, <1>3, <1>4, <1>5, <1>6, <1>7, <1>8, <1>9, <1>10, <1>11, <1>12, <1>13, <1>14,
     <1>15, <1>16, <1>17, <1>18, <1>19, <1>20, <1>21
     DEF Next, Step, MainGoesOn, WorkerStep, Dispose, Threads

(* The initial state satisfies the invariant. *)
LEMMA SignalInit ==
  ASSUME Init
  PROVE  SignalInv
<1> USE SignalAssumption DEF Init, Threads, Constructing, Destroying
<1>1. /\ mask \in [Threads -> SUBSET Signos]
      /\ disp \in [Signos -> {"default", "ignore"}] /\ m_save \in [Handlers -> {"default", "ignore"}]
      /\ pc \in [Threads -> {"idle", "call", "reactivate", "remove", "reset_handler", "drop"}
                              \cup Constructing \cup Destroying]
      /\ h \in [Threads -> Handlers \cup {None}] /\ m_kernel \in [Handlers -> Interest]
  BY DEF Interest
<1>2. TypeOK
  BY <1>1 DEF TypeOK
<1>3. CallsOK /\ AloneOK
  BY DEF CallsOK, AloneOK
<1>4. SetOK /\ OwedOK
  BY DEF SetOK, OwedOK
<1>5. HandledNotLost /\ OwedNeverKills
  BY DEF HandledNotLost, OwedNeverKills
<1>6. QED
  BY <1>2, <1>3, <1>4, <1>5 DEF SignalInv

(* The inductive invariant holds, for any workers, handlers and signals. *)
THEOREM SignalCorrect ==
  ASSUME OwnSignal
  PROVE  Spec => []SignalInv
<1>1. Init => SignalInv
  BY SignalInit
<1>2. SignalInv /\ [Next]_vars => SignalInv'
  <2>1. ASSUME SignalInv, Next PROVE SignalInv'
    BY <2>1, TypesKept, CallsKept, AloneKept, SetKept, OwedKept, NotLostKept DEF SignalInv
  <2>2. ASSUME SignalInv, UNCHANGED vars PROVE SignalInv'
    <3> USE <2>2 DEF vars, maskVars, sigVars, loopVars, callVars, SignalInv
    <3>1. TypeOK' /\ CallsOK'
      BY DEF TypeOK, CallsOK
    <3>2. AloneOK' /\ SetOK' /\ OwedOK'
      BY DEF AloneOK, SetOK, OwedOK, Started
    <3>3. HandledNotLost' /\ OwedNeverKills'
      BY DEF HandledNotLost, OwedNeverKills
    <3>4. QED
      BY <3>1, <3>2, <3>3
  <2>3. QED
    BY <2>1, <2>2
<1>3. QED
  BY <1>1, <1>2, PTL DEF Spec

(* If every handler has a signal of its own and the handlers are added     *)
(* before the threads start, no signal that has a handler is discarded.    *)
THEOREM HandledNeverLost ==
  ASSUME OwnSignal
  PROVE  Spec => []HandledNotLost
<1>1. SignalInv => HandledNotLost
  BY DEF SignalInv
<1>2. Spec => []SignalInv
  BY SignalCorrect
<1>3. QED
  BY <1>1, <1>2, PTL

(* Under the same condition, a signal that was raised while it had a       *)
(* handler never terminates the process, not even when the handler is      *)
(* destroyed before it could read it.                                      *)
THEOREM OwedAlwaysHarmless ==
  ASSUME OwnSignal
  PROVE  Spec => []OwedNeverKills
<1>1. SignalInv => OwedNeverKills
  BY DEF SignalInv
<1>2. Spec => []SignalInv
  BY SignalCorrect
<1>3. QED
  BY <1>1, <1>2, PTL

=============================================================================
