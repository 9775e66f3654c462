---------------------------- MODULE WavyConnect -----------------------------
(***************************************************************************)
(* loop::connect (mpsrc/wavy_connect.cc) and loop::listen                  *)
(* (mpsrc/wavy_listen.cc).  connect submits a task that runs in a worker:  *)
(* it makes a socket, connects it without blocking, waits in poll, and     *)
(* calls the callback with the socket or with an error.  listen adds a     *)
(* handler that accepts until there is nothing left to accept and passes   *)
(* each connection to its callback.                                        *)
(*                                                                         *)
(* A connection is named by the call that opens it: sock is its end here,  *)
(* srv its end at the listener, which is modelled when the call connects   *)
(* to it.  The registration of the listener is one entry of the kernel.    *)
(***************************************************************************)
EXTENDS WavyKernel

CONSTANTS
  Conns,        \* calls of connect
  Workers, Lsock, None,
  Sec, Nsec,    \* per call: the timeout; zeros: none was asked for
  IntLimit      \* largest tv_nsec for which timeout_msec does not overflow

ASSUME ConnectAssumption ==
  /\ Sec \in [Conns -> Nat] /\ Nsec \in [Conns -> Nat] /\ IntLimit \in Nat
  /\ None \notin Conns /\ Lsock # None

VARIABLES
  tasks,        \* calls whose task is queued
  sock,         \* per call: "none", "open", "app" (given to the program), "closed"
  net,          \* per call: "none", "wait", "up", "refused"
  timeout_msec, \* per call: "none" or "some", what poll is given
  answers,      \* per call: the sequence of answers, "fd" or "err"
  srv,          \* per call: "none", "queued", "lib", "app", "closed"
  lsock,        \* "none", "open", "closed"
  m_kernel,
  event,        \* a reported event of lsock waits for a worker
  pc, conn      \* per worker: step, connection

connVars == <<tasks, sock, net, timeout_msec, answers>>
listenVars == <<lsock, m_kernel, event>>
vars == <<connVars, srv, listenVars, pc, conn>>

At(w, step) == pc' = [pc EXCEPT ![w] = step]
Set(f, c, v) == [f EXCEPT ![c] = v]
Waiting == {c \in Conns : srv[c] = "queued"}

-----------------------------------------------------------------------------
(* connect.                                                                *)

(* The timeout that poll gets: none unless seconds and nanoseconds are     *)
(* both nonzero.  A sum of tv_sec and tv_nsec * 1e6 that does not fit into *)
(* timeout_msec is undefined; a negative one is none.                      *)
TimeoutMsec(c) ==
  IF Sec[c] # 0 /\ Nsec[c] # 0
  THEN IF Nsec[c] <= IntLimit THEN {"some"} ELSE {"some", "none"}
  ELSE {"none"}

connect(c) ==
  /\ c \notin tasks /\ sock[c] = "none" /\ answers[c] = <<>>
  /\ \A w \in Workers : conn[w] # c
  /\ tasks' = tasks \cup {c}
  /\ \E limit \in TimeoutMsec(c) : timeout_msec' = Set(timeout_msec, c, limit)
  /\ UNCHANGED <<sock, net, answers, srv, listenVars, pc, conn>>

(* The task begins with socket(), which may fail. *)
Socket(w) ==
  /\ pc[w] = "idle"
  /\ \E c \in tasks :
       /\ tasks' = tasks \ {c} /\ conn' = Set(conn, w, c)
       /\ \/ sock' = Set(sock, c, "open") /\ At(w, "connect")
          \/ UNCHANGED sock /\ At(w, "out_error")
  /\ UNCHANGED <<net, timeout_msec, answers, srv, listenVars>>

(* fcntl and connect: connected at once, in progress, or failed. *)
Connect(w) ==
  /\ pc[w] = "connect"
  /\ LET c == conn[w] IN
     \/ lsock = "open" /\ net' = Set(net, c, "up") /\ srv' = Set(srv, c, "queued") /\ At(w, "out")
     \/ net' = Set(net, c, "wait") /\ UNCHANGED srv /\ At(w, "poll")
     \/ UNCHANGED <<net, srv>> /\ At(w, "error")
  /\ UNCHANGED <<tasks, sock, timeout_msec, answers, listenVars, conn>>

(* The network answers a connection that is in progress. *)
Establish(c) ==
  /\ net[c] = "wait" /\ sock[c] = "open"
  /\ IF lsock = "open" THEN net' = Set(net, c, "up") /\ srv' = Set(srv, c, "queued")
     ELSE net' = Set(net, c, "refused") /\ UNCHANGED srv
  /\ UNCHANGED <<tasks, sock, timeout_msec, answers, listenVars, pc, conn>>

(* Mutant of PollStep: SO_ERROR is not looked at. *)
PollStep_trusting(c) == "out"

(* Mutant of PollStep: an error polls again. *)
PollStep_again(c) == IF net[c] = "up" THEN "out" ELSE "poll"

(* poll has returned: getsockopt(SO_ERROR) decides. *)
PollStep(c) == IF net[c] = "up" THEN "out" ELSE "error"

PollReturns(w) ==
  /\ pc[w] = "poll" /\ net[conn[w]] \in {"up", "refused"}
  /\ At(w, PollStep(conn[w]))
  /\ UNCHANGED <<connVars, srv, listenVars, conn>>

PollTimesOut(w) ==
  /\ pc[w] = "poll" /\ net[conn[w]] = "wait" /\ timeout_msec[conn[w]] = "some"
  /\ At(w, "error")
  /\ UNCHANGED <<connVars, srv, listenVars, conn>>

(* poll fails other than with EINTR, or getsockopt fails: also on a        *)
(* connection that is up.                                                  *)
PollFails(w) ==
  /\ pc[w] = "poll" /\ At(w, "error")
  /\ UNCHANGED <<connVars, srv, listenVars, conn>>

(* error: the socket is closed. *)
Discard(c) == Set(sock, c, "closed")

Error(w) ==
  /\ pc[w] = "error"
  /\ sock' = Discard(conn[w])
  /\ At(w, "out_error")
  /\ UNCHANGED <<tasks, net, timeout_msec, answers, srv, listenVars, conn>>

(* out: m_callback(fd, err), and the program owns the socket. *)
Out(w) ==
  /\ LET c == conn[w] IN
     \/ /\ pc[w] = "out" /\ answers' = Set(answers, c, Append(answers[c], "fd"))
        /\ sock' = Set(sock, c, "app")
     \/ /\ pc[w] = "out_error" /\ answers' = Set(answers, c, Append(answers[c], "err"))
        /\ UNCHANGED sock
  /\ At(w, "idle") /\ conn' = Set(conn, w, None)
  /\ UNCHANGED <<tasks, net, timeout_msec, srv, listenVars>>

-----------------------------------------------------------------------------
(* listen.                                                                 *)

(* socket, setsockopt, bind, listen and add_handler; an error before the   *)
(* last of them closes the socket and throws.                              *)
listen ==
  /\ lsock = "none"
  /\ lsock' = "open" /\ m_kernel' = add_fd(m_kernel, Lsock)
  /\ UNCHANGED <<connVars, srv, event, pc, conn>>

Report ==
  /\ m_kernel[Lsock] = "armed" /\ lsock = "open" /\ Waiting # {}
  /\ m_kernel' = wait(m_kernel, <<Lsock>>) /\ event' = TRUE
  /\ UNCHANGED <<connVars, srv, lsock, pc, conn>>

Dispatch(w) ==
  /\ pc[w] = "idle" /\ event
  /\ event' = FALSE /\ At(w, "accept")
  /\ UNCHANGED <<connVars, srv, lsock, m_kernel, conn>>

Accept(w) ==
  /\ pc[w] = "accept"
  /\ \E c \in Waiting : srv' = Set(srv, c, "lib") /\ conn' = Set(conn, w, c)
  /\ At(w, "callback")
  /\ UNCHANGED <<connVars, listenVars>>

(* EAGAIN, or EINTR with connections waiting: on_read returns. *)
AcceptEnds(w) ==
  /\ pc[w] = "accept" /\ At(w, "reactivate")
  /\ UNCHANGED <<connVars, srv, listenVars, conn>>

(* Any other error: the callback is called with it, and on_read throws. *)
AcceptFails(w) ==
  /\ pc[w] = "accept" /\ At(w, "remove")
  /\ UNCHANGED <<connVars, srv, listenVars, conn>>

(* Mutant of Refused: the connection is forgotten. *)
Refused_not(c) == srv

(* catch (...): a connection whose callback throws is closed. *)
Refused(c) == Set(srv, c, "closed")

AcceptCallback(w) ==
  /\ pc[w] = "callback"
  /\ srv' \in {Set(srv, conn[w], "app"), Refused(conn[w])}
  /\ At(w, "accept") /\ conn' = Set(conn, w, None)
  /\ UNCHANGED <<connVars, listenVars>>

Reactivate(w) ==
  /\ pc[w] = "reactivate"
  /\ m_kernel' = reactivate(m_kernel, Lsock)
  /\ At(w, "idle")
  /\ UNCHANGED <<connVars, srv, lsock, event, conn>>

(* remove, reset_handler and ~handler: the listening socket is closed and  *)
(* the connections that nobody accepted are reset.                         *)
Remove(w) ==
  /\ pc[w] = "remove"
  /\ m_kernel' = remove(m_kernel, Lsock) /\ lsock' = "closed"
  /\ srv' = [c \in Conns |-> IF srv[c] = "queued" THEN "closed" ELSE srv[c]]
  /\ At(w, "idle")
  /\ UNCHANGED <<connVars, event, conn>>

-----------------------------------------------------------------------------
Init ==
  /\ tasks = {} /\ sock = [c \in Conns |-> "none"] /\ net = [c \in Conns |-> "none"]
  /\ timeout_msec = [c \in Conns |-> "none"] /\ answers = [c \in Conns |-> <<>>]
  /\ srv = [c \in Conns |-> "none"] /\ lsock = "none"
  /\ m_kernel = [f \in {Lsock} |-> "none"] /\ event = FALSE
  /\ pc = [w \in Workers |-> "idle"] /\ conn = [w \in Workers |-> None]

TaskStep(w) ==
  Socket(w) \/ Connect(w) \/ PollReturns(w) \/ PollTimesOut(w) \/ Error(w) \/ Out(w)

HandlerStep(w) ==
  \/ Dispatch(w) \/ Accept(w) \/ AcceptEnds(w) \/ AcceptFails(w)
  \/ AcceptCallback(w) \/ Reactivate(w) \/ Remove(w)

(* Every call has been answered and nothing is left to accept. *)
Quiescent ==
  /\ tasks = {} /\ ~event /\ \A w \in Workers : pc[w] = "idle"
  /\ lsock # "none" /\ \A c \in Conns : answers[c] # <<>> /\ srv[c] # "queued"
  /\ UNCHANGED vars

Next ==
  \/ \E c \in Conns : connect(c) \/ Establish(c)
  \/ \E w \in Workers : TaskStep(w) \/ PollFails(w) \/ HandlerStep(w)
  \/ listen \/ Report \/ Quiescent

Spec == Init /\ [][Next]_vars

(* Threads run and accept is not interrupted for ever; the network answers *)
(* in the end.  Nothing is owed by a failure of poll.                      *)
LiveSpec ==
  /\ Spec /\ WF_vars(Report)
  /\ \A w \in Workers : WF_vars(TaskStep(w) \/ HandlerStep(w)) /\ SF_vars(Accept(w))
  /\ \A c \in Conns : WF_vars(Establish(c))

-----------------------------------------------------------------------------
(* Properties.                                                             *)

(* The answer of a call is true, and given once: with a socket the         *)
(* connection is up, with an error no socket is left open; a timeout that  *)
(* races with the network does not make it otherwise.                      *)
AnswerTrue ==
  \A c \in Conns :
    /\ Len(answers[c]) <= 1
    /\ answers[c] = <<"fd">> => net[c] = "up" /\ sock[c] = "app"
    /\ answers[c] = <<"err">> => sock[c] \in {"none", "closed"}

(* A connection that was accepted is in the hands of the worker that runs  *)
(* its callback, or was passed on, or closed: none is leaked.              *)
AcceptedOwned ==
  \A c \in Conns : srv[c] = "lib" => \E w \in Workers : pc[w] = "callback" /\ conn[w] = c

(* Every call of connect is answered.                                      *)
ConnectAnswered == \A c \in Conns : c \in tasks ~> answers[c] # <<>>

(* Every connection that reaches the listener is accepted, unless an error *)
(* of accept closes the listener.                                          *)
ConnectionsAccepted == \A c \in Conns : srv[c] = "queued" ~> srv[c] # "queued"

(* "timeout == NULL || (timeout->tv_sec == 0 && timeout->tv_nsec == 0)" is *)
(* when a connection waits without limit, in the handler version of        *)
(* connect (mpsrc/wavy_connect.cc:291-292): any other timeout limits poll. *)
TimeoutApplied ==
  \A w \in Workers : pc[w] = "poll" /\ (Sec[conn[w]] # 0 \/ Nsec[conn[w]] # 0) =>
    timeout_msec[conn[w]] = "some"

-----------------------------------------------------------------------------
(* The inductive invariant behind AnswerTrue and AcceptedOwned.            *)

TaskPCs == {"connect", "poll", "error", "out", "out_error"}
HandlerPCs == {"accept", "callback", "reactivate", "remove"}
Answers == {<<>>, <<"fd">>, <<"err">>}

TypeOK ==
  /\ tasks \subseteq Conns
  /\ sock \in [Conns -> {"none", "open", "app", "closed"}]
  /\ net \in [Conns -> {"none", "wait", "up", "refused"}]
  /\ timeout_msec \in [Conns -> {"none", "some"}] /\ answers \in [Conns -> Answers]
  /\ srv \in [Conns -> {"none", "queued", "lib", "app", "closed"}]
  /\ lsock \in {"none", "open", "closed"} /\ m_kernel \in [{Lsock} -> Interest]
  /\ event \in BOOLEAN
  /\ pc \in [Workers -> {"idle"} \cup TaskPCs \cup HandlerPCs]
  /\ conn \in [Workers -> Conns \cup {None}]

(* The task of a call is queued, or run by one worker, or has answered.    *)
Runs(w, c) == pc[w] \in TaskPCs /\ conn[w] = c
OneRun ==
  \A c \in Conns :
    /\ \A v, w \in Workers : Runs(v, c) /\ Runs(w, c) => v = w
    /\ c \in tasks => answers[c] = <<>> /\ sock[c] = "none"
    /\ c \in tasks \/ answers[c] # <<>> => \A w \in Workers : ~Runs(w, c)

(* What the worker knows of its socket and its connection at each step. *)
StepOK(w, c) ==
  /\ pc[w] \in {"connect", "poll", "error", "out"} => sock[c] = "open"
  /\ pc[w] = "out" => net[c] = "up"
  /\ pc[w] = "out_error" => sock[c] \in {"none", "closed"}
StepsOK ==
  \A w \in Workers :
    /\ pc[w] \in TaskPCs \cup {"callback"} => conn[w] \in Conns
    /\ \A c \in Conns : Runs(w, c) => StepOK(w, c)

ConnectInv == TypeOK /\ OneRun /\ StepsOK /\ AnswerTrue /\ AcceptedOwned

=============================================================================
