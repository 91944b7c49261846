----------------------------- MODULE GenericServer -----------------------------
(***************************************************************************)
(* GenericServer: a worker thread moves what arrives on the socket to the  *)
(* queue, answering pings itself; application threads take messages from   *)
(* the queue with receive(); a controlling thread calls start() and        *)
(* stop().  The socket is the one of DgramSocket, step by step; the queue  *)
(* is the mailbox LinxQueue implements, whose operations are atomic.       *)
(***************************************************************************)
EXTENDS Integers, Sequences, SequencesExt, LinxMessageFilter

CONSTANTS
  Apps,         \* threads that call receive()
  Controllers,  \* threads that call start() and stop()
  Worker,       \* the thread that runs task()
  Datagrams, SocketRoom, FdLoads, NoDatagram,
  Requests, NoRequest,
  QueueSize

IPC_PING_REQ == 1

VARIABLES
  fd, sock, inbox, at, pollFd, avail, ret, got,  \* the socket
  box, closed, phase, asked, answer,             \* the queue
  thread,     \* workerThread: "none", or "joinable"
  task,       \* where the worker is: "none", "receive", "ping", "sending" (blocked in
              \* the answer to a ping), "add", "exited"
  full,       \* the client that pings does not read: its unix socket is full
  ctl,        \* where each controller is
  arrived,    \* history: the datagrams that reached the socket, in order
  replied,    \* history: the pings a response was sent to
  discarded,  \* history: the messages that found the queue full
  delivered   \* history: the messages receive() returned

Sock == INSTANCE DgramSocket WITH Receivers <- {Worker}
Queue == INSTANCE LinxMailbox WITH
  Clients <- Apps, Messages <- Datagrams, MaxSize <- QueueSize,
  NoMessage <- NoDatagram

socketVars == <<fd, sock, inbox, at, pollFd, avail, ret, got>>
queueVars == <<box, closed, phase, asked, answer>>
history == <<arrived, replied, discarded, delivered>>
vars == <<socketVars, queueVars, thread, task, full, ctl, history>>

ASSUME WorkerAssumption == Worker \notin Apps \union Controllers
ASSUME SocketAssumption == SocketRoom \in Nat \ {0} /\ FdLoads \in {"once", "twice"}
ASSUME DatagramAssumption ==
  /\ NoDatagram \notin Datagrams
  /\ \A d \in Datagrams :
       /\ d = [reqId |-> d.reqId, from |-> d.from, n |-> d.n, size |-> d.size]
       /\ d.size \in Nat
ASSUME QueueSizeAssumption == QueueSize \in Int

Init ==
  /\ Sock!SocketInit
  /\ Queue!MailboxInit
  /\ thread = "none"
  /\ task = "none"
  /\ full = FALSE
  /\ ctl = [t \in Controllers |-> "idle"]
  /\ arrived = <<>>
  /\ replied = {}
  /\ discarded = {}
  /\ delivered = {}

-----------------------------------------------------------------------------
(* The clients *)

ClientSend(d) ==
  /\ d \notin ToSet(arrived)
  /\ Sock!Arrive(d)
  /\ arrived' = Append(arrived, d)
  /\ UNCHANGED <<full, queueVars, thread, task, ctl, replied, discarded, delivered>>

\* What a client does not read fills its socket; it may read later, or never.
ClientFillsOrReads ==
  /\ full' = ~full
  /\ UNCHANGED <<socketVars, queueVars, thread, task, ctl, history>>

-----------------------------------------------------------------------------
(* void task(): the worker *)

TaskReceive ==
  /\ task = "receive"
  /\ \/ Sock!ReceiveOnClosed(Worker)
     \/ Sock!ReceiveCheck(Worker)
     \/ Sock!ReceiveStep(Worker)
  /\ UNCHANGED <<full, queueVars, thread, task, ctl, history>>

\* A signal handler ran in the worker.
TaskInterrupted ==
  /\ task = "receive"
  /\ Sock!Interrupted(Worker)
  /\ UNCHANGED <<full, queueVars, thread, task, ctl, history>>

\* ret == 0, or ret < 0: the loop ends, whatever the error was.
TaskExit ==
  /\ task = "receive" /\ at[Worker] = "done" /\ ret[Worker] <= 0
  /\ Sock!ReceiveLeave(Worker)
  /\ task' = "exited"
  /\ UNCHANGED <<full, queueVars, thread, ctl, history>>

TaskDispatch ==
  /\ task = "receive" /\ at[Worker] = "done" /\ ret[Worker] > 0
  /\ task' = IF got[Worker].reqId = IPC_PING_REQ THEN "ping" ELSE "add"
  /\ UNCHANGED <<full, socketVars, queueVars, thread, ctl, history>>

\* Variant: the loop does not continue after a ping was answered.
TaskPingFallsThrough ==
  /\ task = "ping"
  /\ replied' = IF fd # Sock!NoFd /\ sock = "open"
                THEN replied \union {got[Worker]} ELSE replied
  /\ task' = "add"
  /\ UNCHANGED <<full, socketVars, queueVars, thread, ctl, arrived, discarded, delivered>>

\* send(IPC_PING_RSP, from) fails without a socket; the worker ignores that.
TaskPing ==
  /\ task = "ping"
  /\ fd = Sock!NoFd \/ sock # "open" \/ ~full
  /\ replied' = IF fd # Sock!NoFd /\ sock = "open"
                THEN replied \union {got[Worker]} ELSE replied
  /\ Sock!ReceiveLeave(Worker)
  /\ task' = "receive"
  /\ UNCHANGED <<full, queueVars, thread, ctl, arrived, discarded, delivered>>

\* sendto() blocks until there is room at the client, whatever becomes of the
\* socket of the server.
TaskBlock ==
  /\ task = "ping"
  /\ fd # Sock!NoFd /\ sock = "open" /\ full
  /\ task' = "sending"
  /\ UNCHANGED <<full, socketVars, queueVars, thread, ctl, history>>

TaskUnblock ==
  /\ task = "sending" /\ ~full
  /\ replied' = replied \union {got[Worker]}
  /\ Sock!ReceiveLeave(Worker)
  /\ task' = "receive"
  /\ UNCHANGED <<full, queueVars, thread, ctl, arrived, discarded, delivered>>

\* queue->add(), which does not look at "stopped".
TaskAdd ==
  /\ task = "add"
  /\ Queue!Put(got[Worker])
  /\ Sock!ReceiveLeave(Worker)
  /\ task' = "receive"
  /\ UNCHANGED <<full, thread, ctl, history>>

\* Variant: the worker waits for room in the queue.
TaskWaitForRoom ==
  /\ task = "add" /\ ~Queue!HasRoom
  /\ UNCHANGED vars

TaskDiscard ==
  /\ task = "add"
  /\ ~Queue!HasRoom
  /\ discarded' = discarded \union {got[Worker]}
  /\ Sock!ReceiveLeave(Worker)
  /\ task' = "receive"
  /\ UNCHANGED <<full, queueVars, thread, ctl, arrived, replied, delivered>>

Task ==
  \/ TaskReceive \/ TaskExit \/ TaskDispatch
  \/ TaskPing \/ TaskBlock \/ TaskUnblock
  \/ TaskAdd \/ TaskDiscard

-----------------------------------------------------------------------------
(* bool start() *)

Control(t, from, to) == ctl[t] = from /\ ctl' = [ctl EXCEPT ![t] = to]

\* When joinable() holds, even of a worker that has exited, start() does
\* nothing and returns true.
StartCheck(t) ==
  /\ thread = "none"
  /\ Control(t, "idle", "create")
  /\ UNCHANGED <<full, socketVars, queueVars, thread, task, history>>

StartCreate(t) ==
  /\ Control(t, "create", "idle")
  /\ thread = "none"
  /\ thread' = "joinable"
  /\ task' = "receive"
  /\ UNCHANGED <<full, socketVars, queueVars, history>>

-----------------------------------------------------------------------------
(* void stop() *)

\* When nothing was started, stop() does nothing: it leaves the socket open and
\* the queue as it is.
StopCheck(t) ==
  /\ thread = "joinable"
  /\ Control(t, "idle", IF fd # Sock!NoFd THEN "shutdown" ELSE "stopQueue")
  /\ UNCHANGED <<full, socketVars, queueVars, thread, task, history>>

\* Variant: stop() leaves the socket open.
StopWithoutClose(t) ==
  /\ Control(t, "shutdown", "stopQueue")
  /\ UNCHANGED <<full, socketVars, queueVars, thread, task, history>>

StopShutdown(t) ==
  /\ Control(t, "shutdown", "close")
  /\ Sock!Shutdown
  /\ UNCHANGED <<full, queueVars, thread, task, history>>

StopCloseFd(t) ==
  /\ Control(t, "close", "forget")
  /\ Sock!CloseFd
  /\ UNCHANGED <<full, queueVars, thread, task, history>>

StopForgetFd(t) ==
  /\ Control(t, "forget", "stopQueue")
  /\ Sock!ForgetFd
  /\ UNCHANGED <<full, queueVars, thread, task, history>>

StopQueue(t) ==
  /\ Control(t, "stopQueue", "join")
  /\ Queue!CloseBox
  /\ UNCHANGED <<full, socketVars, thread, task, history>>

\* Variant: the thread is detached, not joined.
StopDetach(t) ==
  /\ Control(t, "join", "idle")
  /\ thread' = "none"
  /\ UNCHANGED <<full, socketVars, queueVars, task, history>>

StopJoin(t) ==
  /\ Control(t, "join", "idle")
  /\ task = "exited"
  /\ thread' = "none"
  /\ task' = "none"
  /\ UNCHANGED <<full, socketVars, queueVars, history>>

StopStep(t) ==
  \/ StopShutdown(t) \/ StopCloseFd(t) \/ StopForgetFd(t) \/ StopQueue(t)
  \/ StopJoin(t)

-----------------------------------------------------------------------------
(* receive(timeoutMs, sigsel, from): always the queue's get() *)

ReceiveAsk(a) ==
  /\ \E r \in Requests : Queue!Ask(a, r)
  /\ UNCHANGED <<full, socketVars, thread, task, ctl, history>>

ReceiveReply(a) ==
  /\ Queue!Take(a) \/ Queue!Miss(a)
  /\ UNCHANGED <<full, socketVars, thread, task, ctl, history>>

ReceiveReturn(a) ==
  /\ Queue!Collect(a)
  /\ delivered' = delivered \union ({answer[a]} \ {NoDatagram})
  /\ UNCHANGED <<full, socketVars, thread, task, ctl, arrived, replied, discarded>>

-----------------------------------------------------------------------------

Next ==
  \/ (\E d \in Datagrams : ClientSend(d)) \/ ClientFillsOrReads
  \/ Task \/ TaskInterrupted
  \/ \E t \in Controllers :
       StartCheck(t) \/ StartCreate(t) \/ StopCheck(t) \/ StopStep(t)
  \/ \E a \in Apps : ReceiveAsk(a) \/ ReceiveReply(a) \/ ReceiveReturn(a)

Spec == Init /\ [][Next]_vars

(***************************************************************************)
(* Threads that can run do run.  Nobody is obliged to call start(),        *)
(* stop() or receive(), to send, to read, or to interrupt the worker.      *)
(***************************************************************************)
Fairness ==
  /\ WF_vars(Task)
  /\ \A t \in Controllers : WF_vars(StartCreate(t)) /\ WF_vars(StopStep(t))
  /\ \A a \in Apps : WF_vars(ReceiveReply(a)) /\ WF_vars(ReceiveReturn(a))

FairSpec == Spec /\ Fairness
=============================================================================
