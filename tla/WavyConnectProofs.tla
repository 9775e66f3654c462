------------------------- MODULE WavyConnectProofs --------------------------
(***************************************************************************)
(* loop::connect answers truly and once, and loop::listen leaks no         *)
(* connection, for any number of calls, workers and timeouts: ConnectInv   *)
(* (WavyConnect) is an inductive invariant.                                *)
(*                                                                         *)
(* The socket of a call is touched by one thread at a time, the one that   *)
(* runs its task; what that thread knows of it at each step survives what  *)
(* the network, the listener and the other workers do meanwhile.           *)
(***************************************************************************)
EXTENDS WavyConnect, TLAPS

(* The three answers differ, and the first one ends the call. *)
LEMMA AnswersDiffer ==
  /\ <<"fd">> # <<>> /\ <<"err">> # <<>> /\ <<"fd">> # <<"err">>
  /\ Append(<<>>, "fd") = <<"fd">> /\ Append(<<>>, "err") = <<"err">>
  /\ \A a \in Answers : Len(a) <= 1
<1>1. Len(<<"fd">>) = 1 /\ Len(<<"err">>) = 1 /\ Len(<<>>) = 0
  OBVIOUS
<1>2. <<"fd">>[1] = "fd" /\ <<"err">>[1] = "err"
  OBVIOUS
<1>3. <<"fd">> # <<>> /\ <<"err">> # <<>> /\ <<"fd">> # <<"err">>
  BY <1>1, <1>2
<1>4. \A a \in Answers : Len(a) <= 1
  BY <1>1 DEF Answers
<1>5. Append(<<>>, "fd") = <<"fd">> /\ Append(<<>>, "err") = <<"err">>
  OBVIOUS
<1>6. QED
  BY <1>3, <1>4, <1>5

(* Types. *)
LEMMA TypesKept ==
  ASSUME ConnectInv, Next
  PROVE  TypeOK'
<1> USE ConnectAssumption DEF connVars, listenVars, TypeOK, Set, At, TaskPCs, HandlerPCs
<1>1. TypeOK /\ OneRun /\ StepsOK
  BY DEF ConnectInv
<1>2. ASSUME NEW c \in Conns, connect(c) PROVE TypeOK'
  BY <1>2, <1>1 DEF connect, TimeoutMsec
<1>3. ASSUME NEW c \in Conns, Establish(c) PROVE TypeOK'
  BY <1>3, <1>1 DEF Establish
<1>4. ASSUME NEW w \in Workers, Socket(w) PROVE TypeOK'
  BY <1>4, <1>1 DEF Socket
<1>5. ASSUME NEW w \in Workers, Connect(w) PROVE TypeOK'
  BY <1>5, <1>1 DEF Connect, StepsOK
<1>6. ASSUME NEW w \in Workers, PollReturns(w) PROVE TypeOK'
  BY <1>6, <1>1 DEF PollReturns, PollStep
<1>7. ASSUME NEW w \in Workers, PollTimesOut(w) PROVE TypeOK'
  BY <1>7, <1>1 DEF PollTimesOut
<1>8. ASSUME NEW w \in Workers, Error(w) PROVE TypeOK'
  BY <1>8, <1>1 DEF Error, Discard, StepsOK
<1>9. ASSUME NEW w \in Workers, Out(w) PROVE TypeOK'
  <2>1. PICK c \in Conns : c = conn[w]
    BY <1>1, <1>9 DEF Out, TaskPCs, StepsOK
  <2>2. answers[c] = <<>>
    BY <1>1, <1>9, <2>1 DEF Out, OneRun, Runs, TaskPCs
  <2>3. Append(answers[c], "fd") \in Answers /\ Append(answers[c], "err") \in Answers
    BY <2>2, AnswersDiffer DEF Answers
  <2>4. answers' \in [Conns -> Answers]
    BY <1>1, <1>9, <2>1, <2>3 DEF Out
  <2>5. sock' \in [Conns -> {"none", "open", "app", "closed"}]
    BY <1>1, <1>9, <2>1 DEF Out
  <2>6. QED
    BY <1>1, <1>9, <2>4, <2>5 DEF Out
<1>10. ASSUME NEW w \in Workers, Dispatch(w) PROVE TypeOK'
  BY <1>10, <1>1 DEF Dispatch
<1>11. ASSUME NEW w \in Workers, Accept(w) PROVE TypeOK'
  BY <1>11, <1>1 DEF Accept, Waiting
<1>12. ASSUME NEW w \in Workers, AcceptEnds(w) PROVE TypeOK'
  BY <1>12, <1>1 DEF AcceptEnds
<1>13. ASSUME NEW w \in Workers, AcceptFails(w) PROVE TypeOK'
  BY <1>13, <1>1 DEF AcceptFails
<1>14. ASSUME NEW w \in Workers, AcceptCallback(w) PROVE TypeOK'
  BY <1>14, <1>1 DEF AcceptCallback, Refused, StepsOK
<1>15. ASSUME NEW w \in Workers, Reactivate(w) PROVE TypeOK'
  BY <1>15, <1>1 DEF Reactivate, reactivate, Interest
<1>16. ASSUME NEW w \in Workers, Remove(w) PROVE TypeOK'
  BY <1>16, <1>1 DEF Remove, remove, Interest
<1>17. ASSUME listen PROVE TypeOK'
  BY <1>17, <1>1 DEF listen, add_fd, Interest
<1>18. ASSUME Report PROVE TypeOK'
  BY <1>18, <1>1 DEF Report, wait, Interest
<1>19. ASSUME Quiescent PROVE TypeOK'
  BY <1>19, <1>1 DEF Quiescent, vars
<1>20. ASSUME NEW w \in Workers, PollFails(w) PROVE TypeOK'
  BY <1>20, <1>1 DEF PollFails
<1>21. QED
  BY <1>2, <1>3, <1>4, <1>5, <1>6, <1>7, <1>8, <1>9, <1>10, <1>11, <1>12, <1>13, <1>14,
     <1>15, <1>16, <1>17, <1>18, <1>19, <1>20
     DEF Next, TaskStep, HandlerStep

(* An accepted connection has a worker in its callback. *)
LEMMA AcceptedKept ==
  ASSUME ConnectInv, Next
  PROVE  AcceptedOwned'
<1> USE ConnectAssumption
        DEF connVars, listenVars, Set, At, TaskPCs, HandlerPCs, AcceptedOwned, TypeOK
<1>1. TypeOK /\ OneRun /\ StepsOK /\ AnswerTrue /\ AcceptedOwned
  BY DEF ConnectInv
<1>2. TypeOK'
  BY TypesKept
<1>3. ASSUME NEW c \in Conns, connect(c) PROVE AcceptedOwned'
  BY <1>3, <1>1 DEF connect
<1>4. ASSUME NEW c \in Conns, Establish(c) PROVE AcceptedOwned'
  BY <1>4, <1>1 DEF Establish
<1>5. ASSUME NEW w \in Workers, Socket(w) PROVE AcceptedOwned'
  BY <1>5, <1>1 DEF Socket
<1>6. ASSUME NEW w \in Workers, Connect(w) PROVE AcceptedOwned'
  BY <1>6, <1>1 DEF Connect
<1>7. ASSUME NEW w \in Workers, PollReturns(w) PROVE AcceptedOwned'
  BY <1>7, <1>1 DEF PollReturns, PollStep
<1>8. ASSUME NEW w \in Workers, PollTimesOut(w) PROVE AcceptedOwned'
  BY <1>8, <1>1 DEF PollTimesOut
<1>9. ASSUME NEW w \in Workers, Error(w) PROVE AcceptedOwned'
  BY <1>9, <1>1 DEF Error, Discard
<1>10. ASSUME NEW w \in Workers, Out(w) PROVE AcceptedOwned'
  BY <1>10, <1>1 DEF Out
<1>11. ASSUME NEW w \in Workers, Dispatch(w) PROVE AcceptedOwned'
  BY <1>11, <1>1 DEF Dispatch
<1>12. ASSUME NEW w \in Workers, Accept(w) PROVE AcceptedOwned'
  BY <1>12, <1>1 DEF Accept, Waiting
<1>13. ASSUME NEW w \in Workers, AcceptEnds(w) PROVE AcceptedOwned'
  BY <1>13, <1>1 DEF AcceptEnds
<1>14. ASSUME NEW w \in Workers, AcceptFails(w) PROVE AcceptedOwned'
  BY <1>14, <1>1 DEF AcceptFails
<1>15. ASSUME NEW w \in Workers, AcceptCallback(w) PROVE AcceptedOwned'
  BY <1>15, <1>1 DEF AcceptCallback, Refused, StepsOK
<1>16. ASSUME NEW w \in Workers, Reactivate(w) PROVE AcceptedOwned'
  BY <1>16, <1>1 DEF Reactivate
<1>17. ASSUME NEW w \in Workers, Remove(w) PROVE AcceptedOwned'
  BY <1>17, <1>1 DEF Remove
<1>18. ASSUME listen PROVE AcceptedOwned'
  BY <1>18, <1>1 DEF listen
<1>19. ASSUME Report PROVE AcceptedOwned'
  BY <1>19, <1>1 DEF Report
<1>20. ASSUME Quiescent PROVE AcceptedOwned'
  BY <1>20, <1>1 DEF Quiescent, vars
<1>21. ASSUME NEW w \in Workers, PollFails(w) PROVE AcceptedOwned'
  BY <1>21, <1>1 DEF PollFails
<1>22. QED
  BY <1>3, <1>4, <1>5, <1>6, <1>7, <1>8, <1>9, <1>10, <1>11, <1>12, <1>13, <1>14, <1>15,
     <1>16, <1>17, <1>18, <1>19, <1>20, <1>21
     DEF Next, TaskStep, HandlerStep

(* The task of a call runs once. *)
LEMMA OneRunKept ==
  ASSUME ConnectInv, Next
  PROVE  OneRun'
<1> USE ConnectAssumption
        DEF connVars, listenVars, Set, At, TaskPCs, HandlerPCs, TypeOK, Runs, OneRun
<1>1. TypeOK /\ OneRun /\ StepsOK /\ AnswerTrue /\ AcceptedOwned
  BY DEF ConnectInv
<1>2. TypeOK'
  BY TypesKept
<1>3. ASSUME NEW c \in Conns, connect(c) PROVE OneRun'
  BY <1>3, <1>1 DEF connect
<1>4. ASSUME NEW c \in Conns, Establish(c) PROVE OneRun'
  BY <1>4, <1>1 DEF Establish
<1>5. ASSUME NEW w \in Workers, Socket(w) PROVE OneRun'
  BY <1>5, <1>1 DEF Socket
<1>6. ASSUME NEW w \in Workers, Connect(w) PROVE OneRun'
  BY <1>6, <1>1 DEF Connect
<1>7. ASSUME NEW w \in Workers, PollReturns(w) PROVE OneRun'
  BY <1>7, <1>1 DEF PollReturns, PollStep
<1>8. ASSUME NEW w \in Workers, PollTimesOut(w) PROVE OneRun'
  BY <1>8, <1>1 DEF PollTimesOut
<1>9. ASSUME NEW w \in Workers, Error(w) PROVE OneRun'
  BY <1>9, <1>1 DEF Error, Discard, StepsOK
<1>10. ASSUME NEW w \in Workers, Out(w) PROVE OneRun'
  BY <1>10, <1>1 DEF Out
<1>11. ASSUME NEW w \in Workers, Dispatch(w) PROVE OneRun'
  BY <1>11, <1>1 DEF Dispatch
<1>12. ASSUME NEW w \in Workers, Accept(w) PROVE OneRun'
  BY <1>12, <1>1 DEF Accept, Waiting
<1>13. ASSUME NEW w \in Workers, AcceptEnds(w) PROVE OneRun'
  BY <1>13, <1>1 DEF AcceptEnds
<1>14. ASSUME NEW w \in Workers, AcceptFails(w) PROVE OneRun'
  BY <1>14, <1>1 DEF AcceptFails
<1>15. ASSUME NEW w \in Workers, AcceptCallback(w) PROVE OneRun'
  BY <1>15, <1>1 DEF AcceptCallback, Refused
<1>16. ASSUME NEW w \in Workers, Reactivate(w) PROVE OneRun'
  BY <1>16, <1>1 DEF Reactivate
<1>17. ASSUME NEW w \in Workers, Remove(w) PROVE OneRun'
  BY <1>17, <1>1 DEF Remove
<1>18. ASSUME listen PROVE OneRun'
  BY <1>18, <1>1 DEF listen
<1>19. ASSUME Report PROVE OneRun'
  BY <1>19, <1>1 DEF Report
<1>20. ASSUME Quiescent PROVE OneRun'
  BY <1>20, <1>1 DEF Quiescent, vars
<1>21. ASSUME NEW w \in Workers, PollFails(w) PROVE OneRun'
  BY <1>21, <1>1 DEF PollFails
<1>22. QED
  BY <1>3, <1>4, <1>5, <1>6, <1>7, <1>8, <1>9, <1>10, <1>11, <1>12, <1>13, <1>14, <1>15,
     <1>16, <1>17, <1>18, <1>19, <1>20, <1>21
     DEF Next, TaskStep, HandlerStep

(* What the worker that runs a task knows. *)
LEMMA StepsKept ==
  ASSUME ConnectInv, Next
  PROVE  StepsOK'
<1> USE ConnectAssumption
        DEF connVars, listenVars, Set, At, TaskPCs, HandlerPCs, TypeOK, Runs, StepsOK, StepOK
<1>1. TypeOK /\ OneRun /\ StepsOK /\ AnswerTrue /\ AcceptedOwned
  BY DEF ConnectInv
<1>2. TypeOK'
  BY TypesKept
<1>3. ASSUME NEW c \in Conns, connect(c) PROVE StepsOK'
  BY <1>3, <1>1 DEF connect, OneRun
<1>4. ASSUME NEW c \in Conns, Establish(c) PROVE StepsOK'
  BY <1>4, <1>1 DEF Establish, OneRun
<1>5. ASSUME NEW w \in Workers, Socket(w) PROVE StepsOK'
  BY <1>5, <1>1 DEF Socket, OneRun
<1>6. ASSUME NEW w \in Workers, Connect(w) PROVE StepsOK'
  BY <1>6, <1>1 DEF Connect, OneRun
<1>7. ASSUME NEW w \in Workers, PollReturns(w) PROVE StepsOK'
  BY <1>7, <1>1 DEF PollReturns, PollStep
<1>8. ASSUME NEW w \in Workers, PollTimesOut(w) PROVE StepsOK'
  BY <1>8, <1>1 DEF PollTimesOut
<1>9. ASSUME NEW w \in Workers, Error(w) PROVE StepsOK'
  BY <1>9, <1>1 DEF Error, Discard, OneRun
<1>10. ASSUME NEW w \in Workers, Out(w) PROVE StepsOK'
  BY <1>10, <1>1 DEF Out, OneRun
<1>11. ASSUME NEW w \in Workers, Dispatch(w) PROVE StepsOK'
  BY <1>11, <1>1 DEF Dispatch
<1>12. ASSUME NEW w \in Workers, Accept(w) PROVE StepsOK'
  BY <1>12, <1>1 DEF Accept, Waiting
<1>13. ASSUME NEW w \in Workers, AcceptEnds(w) PROVE StepsOK'
  BY <1>13, <1>1 DEF AcceptEnds
<1>14. ASSUME NEW w \in Workers, AcceptFails(w) PROVE StepsOK'
  BY <1>14, <1>1 DEF AcceptFails
<1>15. ASSUME NEW w \in Workers, AcceptCallback(w) PROVE StepsOK'
  BY <1>15, <1>1 DEF AcceptCallback, Refused
<1>16. ASSUME NEW w \in Workers, Reactivate(w) PROVE StepsOK'
  BY <1>16, <1>1 DEF Reactivate
<1>17. ASSUME NEW w \in Workers, Remove(w) PROVE StepsOK'
  BY <1>17, <1>1 DEF Remove
<1>18. ASSUME listen PROVE StepsOK'
  BY <1>18, <1>1 DEF listen
<1>19. ASSUME Report PROVE StepsOK'
  BY <1>19, <1>1 DEF Report
<1>20. ASSUME Quiescent PROVE StepsOK'
  BY <1>20, <1>1 DEF Quiescent, vars
<1>21. ASSUME NEW w \in Workers, PollFails(w) PROVE StepsOK'
  BY <1>21, <1>1 DEF PollFails
<1>22. QED
  BY <1>3, <1>4, <1>5, <1>6, <1>7, <1>8, <1>9, <1>10, <1>11, <1>12, <1>13, <1>14, <1>15,
     <1>16, <1>17, <1>18, <1>19, <1>20, <1>21
     DEF Next, TaskStep, HandlerStep

(* Answers are true. *)
LEMMA AnswersKept ==
  ASSUME ConnectInv, Next
  PROVE  AnswerTrue'
<1> USE ConnectAssumption
        DEF connVars, listenVars, Set, At, TaskPCs, HandlerPCs, TypeOK, Runs, AnswerTrue
<1>1. TypeOK /\ OneRun /\ StepsOK /\ AnswerTrue /\ AcceptedOwned
  BY DEF ConnectInv
<1>2. TypeOK'
  BY TypesKept
<1>3. ASSUME NEW c \in Conns, connect(c) PROVE AnswerTrue'
  BY <1>3, <1>1 DEF connect
<1>4. ASSUME NEW c \in Conns, Establish(c) PROVE AnswerTrue'
  BY <1>4, <1>1 DEF Establish
<1>5. ASSUME NEW w \in Workers, Socket(w) PROVE AnswerTrue'
  <2>1. PICK c \in tasks : sock' = sock \/ sock' = Set(sock, c, "open")
    BY <1>5 DEF Socket
  <2>2. answers[c] = <<>> /\ c \in Conns
    BY <1>1, <2>1 DEF OneRun
  <2>3. QED
    BY <1>1, <1>5, <2>1, <2>2, AnswersDiffer DEF Socket
<1>6. ASSUME NEW w \in Workers, Connect(w) PROVE AnswerTrue'
  <2>1. PICK c \in Conns : c = conn[w] /\ Runs(w, c)
    BY <1>1, <1>6 DEF Connect, StepsOK
  <2>2. answers[c] = <<>>
    BY <1>1, <2>1 DEF OneRun
  <2>3. sock' = sock /\ answers' = answers /\ \A d \in Conns : d # c => net'[d] = net[d]
    BY <1>1, <1>6, <2>1 DEF Connect
  <2>4. QED
    BY <1>1, <2>2, <2>3, AnswersDiffer
<1>7. ASSUME NEW w \in Workers, PollReturns(w) PROVE AnswerTrue'
  BY <1>7, <1>1 DEF PollReturns, PollStep
<1>8. ASSUME NEW w \in Workers, PollTimesOut(w) PROVE AnswerTrue'
  BY <1>8, <1>1 DEF PollTimesOut
<1>9. ASSUME NEW w \in Workers, Error(w) PROVE AnswerTrue'
  <2>1. PICK c \in Conns : c = conn[w] /\ Runs(w, c)
    BY <1>1, <1>9 DEF Error, StepsOK
  <2>2. answers[c] = <<>>
    BY <1>1, <2>1 DEF OneRun
  <2>3. QED
    BY <1>1, <1>9, <2>1, <2>2, AnswersDiffer DEF Error, Discard
<1>10. ASSUME NEW w \in Workers, Out(w) PROVE AnswerTrue'
  <2>1. PICK c \in Conns : c = conn[w] /\ Runs(w, c)
    BY <1>1, <1>10 DEF Out, StepsOK
  <2>2. answers[c] = <<>>
    BY <1>1, <2>1 DEF OneRun
  <2>3. StepOK(w, c)
    BY <1>1, <2>1 DEF StepsOK
  <2>4. net' = net /\ \A d \in Conns : d # c => answers'[d] = answers[d] /\ sock'[d] = sock[d]
    BY <1>1, <1>10, <2>1 DEF Out
  <2>5. CASE pc[w] = "out"
    <3>1. answers'[c] = <<"fd">> /\ sock'[c] = "app" /\ net[c] = "up"
      BY <1>1, <1>10, <2>1, <2>2, <2>3, <2>5, AnswersDiffer DEF Out, StepOK
    <3>2. ASSUME NEW d \in Conns
          PROVE  /\ Len(answers'[d]) <= 1
                 /\ answers'[d] = <<"fd">> => net'[d] = "up" /\ sock'[d] = "app"
                 /\ answers'[d] = <<"err">> => sock'[d] \in {"none", "closed"}
      <4>1. Len(answers'[d]) <= 1
        BY <1>2, AnswersDiffer
      <4>2. CASE d # c
        BY <1>1, <2>4, <4>1, <4>2
      <4>3. CASE d = c
        BY <2>4, <3>1, <4>1, <4>3, AnswersDiffer
      <4>4. QED
        BY <4>2, <4>3
    <3>3. QED
      BY <3>2
  <2>6. CASE pc[w] = "out_error"
    <3>1. answers'[c] = <<"err">> /\ sock'[c] \in {"none", "closed"}
      BY <1>1, <1>10, <2>1, <2>2, <2>3, <2>6, AnswersDiffer DEF Out, StepOK
    <3>2. ASSUME NEW d \in Conns
          PROVE  /\ Len(answers'[d]) <= 1
                 /\ answers'[d] = <<"fd">> => net'[d] = "up" /\ sock'[d] = "app"
                 /\ answers'[d] = <<"err">> => sock'[d] \in {"none", "closed"}
      <4>1. Len(answers'[d]) <= 1
        BY <1>2, AnswersDiffer
      <4>2. CASE d # c
        BY <1>1, <2>4, <4>1, <4>2
      <4>3. CASE d = c
        BY <2>4, <3>1, <4>1, <4>3, AnswersDiffer
      <4>4. QED
        BY <4>2, <4>3
    <3>3. QED
      BY <3>2
  <2>7. QED
    BY <1>10, <2>5, <2>6 DEF Out
<1>11. ASSUME NEW w \in Workers, Dispatch(w) PROVE AnswerTrue'
  BY <1>11, <1>1 DEF Dispatch
<1>12. ASSUME NEW w \in Workers, Accept(w) PROVE AnswerTrue'
  BY <1>12, <1>1 DEF Accept
<1>13. ASSUME NEW w \in Workers, AcceptEnds(w) PROVE AnswerTrue'
  BY <1>13, <1>1 DEF AcceptEnds
<1>14. ASSUME NEW w \in Workers, AcceptFails(w) PROVE AnswerTrue'
  BY <1>14, <1>1 DEF AcceptFails
<1>15. ASSUME NEW w \in Workers, AcceptCallback(w) PROVE AnswerTrue'
  BY <1>15, <1>1 DEF AcceptCallback
<1>16. ASSUME NEW w \in Workers, Reactivate(w) PROVE AnswerTrue'
  BY <1>16, <1>1 DEF Reactivate
<1>17. ASSUME NEW w \in Workers, Remove(w) PROVE AnswerTrue'
  BY <1>17, <1>1 DEF Remove
<1>18. ASSUME listen PROVE AnswerTrue'
  BY <1>18, <1>1 DEF listen
<1>19. ASSUME Report PROVE AnswerTrue'
  BY <1>19, <1>1 DEF Report
<1>20. ASSUME Quiescent PROVE AnswerTrue'
  BY <1>20, <1>1 DEF Quiescent, vars
<1>21. ASSUME NEW w \in Workers, PollFails(w) PROVE AnswerTrue'
  BY <1>21, <1>1 DEF PollFails
<1>22. QED
  BY <1>3, <1>4, <1>5, <1>6, <1>7, <1>8, <1>9, <1>10, <1>11, <1>12, <1>13, <1>14, <1>15,
     <1>16, <1>17, <1>18, <1>19, <1>20, <1>21
     DEF Next, TaskStep, HandlerStep

(* The initial state satisfies the invariant. *)
LEMMA ConnectInit ==
  ASSUME Init
  PROVE  ConnectInv
<1>1. TypeOK
  BY ConnectAssumption DEF Init, TypeOK, Answers, Interest
<1>2. OneRun /\ StepsOK
  BY ConnectAssumption DEF Init, OneRun, StepsOK, Runs, TaskPCs
<1>3. AnswerTrue /\ AcceptedOwned
  BY AnswersDiffer DEF Init, AnswerTrue, AcceptedOwned
<1>4. QED
  BY <1>1, <1>2, <1>3 DEF ConnectInv

(* The inductive invariant holds, for any calls, timeouts and workers. *)
THEOREM ConnectCorrect == Spec => []ConnectInv
<1>1. Init => ConnectInv
  BY ConnectInit
<1>2. ConnectInv /\ [Next]_vars => ConnectInv'
  <2>1. ASSUME ConnectInv, Next PROVE ConnectInv'
    BY <2>1, TypesKept, OneRunKept, StepsKept, AnswersKept, AcceptedKept DEF ConnectInv
  <2>2. ASSUME ConnectInv, UNCHANGED vars PROVE ConnectInv'
    BY <2>2 DEF vars, connVars, listenVars, ConnectInv, TypeOK, OneRun, StepsOK, StepOK, Runs,
       AnswerTrue, AcceptedOwned
  <2>3. QED
    BY <2>1, <2>2
<1>3. QED
  BY <1>1, <1>2, PTL DEF Spec

(* A call of connect is answered at most once, with a socket only when the *)
(* connection is up, and with an error only when no socket is left open,   *)
(* whatever the timeout, the network and the listener do.                  *)
THEOREM AnswersAlwaysTrue == Spec => []AnswerTrue
<1>1. ConnectInv => AnswerTrue
  BY DEF ConnectInv
<1>2. QED
  BY <1>1, ConnectCorrect, PTL

(* A connection that listen accepted is with the worker that runs its      *)
(* callback until it is passed on or closed.                               *)
THEOREM AcceptedAlwaysOwned == Spec => []AcceptedOwned
<1>1. ConnectInv => AcceptedOwned
  BY DEF ConnectInv
<1>2. QED
  BY <1>1, ConnectCorrect, PTL

=============================================================================
