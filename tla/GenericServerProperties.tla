------------------------ MODULE GenericServerProperties ------------------------
(***************************************************************************)
(* What must hold of GenericServer.                                        *)
(***************************************************************************)
EXTENDS GenericServer, FiniteSets

TaskLabels == {"none", "receive", "ping", "sending", "add", "exited"}
StartLabels == {"create"}
StopLabels == {"shutdown", "close", "forget", "stopQueue", "join"}
ReceiveLabels == {"idle", "load", "poll", "polling", "ioctl", "recv", "receiving", "done"}

\* The types of the members of the server, its socket and its queue.
TypeOK ==
  /\ fd \in {Sock!NoFd, Sock!Fd}
  /\ sock \in {"open", "shutdown", "closed"}
  /\ inbox \in Seq(Datagrams) /\ Len(inbox) <= SocketRoom
  /\ at \in [{Worker} -> ReceiveLabels]
  /\ pollFd \in [{Worker} -> {Sock!NoFd, Sock!Fd}]
  /\ avail \in [{Worker} -> Nat]
  /\ ret \in [{Worker} -> Int]
  /\ got \in [{Worker} -> Datagrams \union {NoDatagram}]
  /\ box \in Seq(Datagrams)
  /\ closed \in BOOLEAN
  /\ phase \in [Apps -> {"idle", "asking", "answered"}]
  /\ asked \in [Apps -> Requests \union {NoRequest}]
  /\ answer \in [Apps -> Datagrams \union {NoDatagram}]
  /\ thread \in {"none", "joinable"}
  /\ task \in TaskLabels /\ full \in BOOLEAN
  /\ ctl \in [Controllers -> {"idle"} \union StartLabels \union StopLabels]
  /\ ToSet(arrived) \subseteq Datagrams
  /\ replied \union discarded \union delivered \subseteq Datagrams

InHand == {got[Worker]} \ {NoDatagram}
Answers == {answer[a] : a \in Apps} \ {NoDatagram}

\* As long as nobody stops the server, each datagram that reached the socket
\* and holds a signal number is in exactly one place on its way from the socket
\* to a caller of receive(), or was a ping that was answered, or found the queue
\* full: the worker neither loses nor duplicates one.
NothingLostWhileOpen ==
  LET Copies(s, d) == Cardinality({i \in DOMAIN s : s[i] = d})
      In(S, d) == IF d \in S THEN 1 ELSE 0
  IN  fd = Sock!Fd /\ sock = "open" /\ ~closed =>
        \A d \in ToSet(arrived) : d.size >= Sock!HeaderSize =>
          Copies(inbox, d) + In(InHand, d) + In(replied, d) + In(discarded, d)
            + Copies(box, d) + Cardinality({a \in Apps : answer[a] = d})
            + In(delivered, d)
          = 1

\* A caller of receive() gets the oldest message that passes its filter: none
\* that reached the socket before it is still in the queue, in the worker's
\* hands or in the socket, whatever the worker was doing at the time.
ArrivalOrder ==
  \A a \in Apps : \A j \in DOMAIN arrived :
    answer[a] = arrived[j] =>
      \A i \in 1..(j - 1) :
        Matches(arrived[i], asked[a].filter) =>
          arrived[i] \notin ToSet(inbox) \union InHand \union ToSet(box)

\* When stop() has come back to a server that was running, no thread of it is
\* left that could touch the socket, the queue or the server itself: it may be
\* destroyed.
JoinedAndClosed ==
  closed /\ thread = "none" =>
    fd = Sock!NoFd /\ sock = "closed" /\ task = "none" /\ at[Worker] = "idle"

\* The worker is in a system call of socket->receive that nothing but a datagram, a
\* signal or a close() can end.
HeldInReceive ==
  /\ task = "receive"
  /\ \/ at[Worker] = "polling" /\ ~(pollFd[Worker] = Sock!Fd /\ Sock!Readable)
     \/ at[Worker] = "receiving" /\ ~Sock!Readable

\* The worker is in the sendto() of an answer to a ping, which nothing but the client
\* can end.
HeldInAnswer == task = "sending" /\ full

Held == HeldInReceive \/ HeldInAnswer

\* Of the calls of socket->receive, the worker waits in none but poll(), for a socket that
\* is open and empty; so from the moment stop() has shut the socket down until it joins
\* the worker, wherever in receive() the close finds it, one thing only can hold the
\* worker: an answer to a ping, in sendto() to a client whose unix socket is full.
OnlyAnAnswerHoldsStop ==
  /\ HeldInReceive => at[Worker] = "polling" /\ sock = "open" /\ inbox = <<>>
  /\ \A t \in Controllers :
       ctl[t] \in StopLabels \ {"shutdown"} /\ Held => HeldInAnswer

\* The worker is left with a message that is not a ping.
Holds ==
  \/ task = "add"
  \/ /\ task = "receive" /\ at[Worker] = "done" /\ ret[Worker] > 0
     /\ got[Worker].reqId # IPC_PING_REQ

\* Where LinxServer sees the worker: what receive() will return is decided before
\* it returns, and a ping is part of the wait.
SeenAt ==
  CASE Holds -> "add"
    [] task \in {"none", "exited"} -> task
    [] task = "receive" /\ at[Worker] = "idle" -> "receive"
    [] task = "receive" /\ at[Worker] = "done" /\ ret[Worker] <= 0 -> "exited"
    [] OTHER -> "waiting"

SeenHand == IF Holds THEN got[Worker] ELSE NoDatagram

\* What was not sent yet, and what is in the socket.
SeenComing == (Datagrams \ ToSet(arrived)) \union ToSet(inbox)

Promised == INSTANCE LinxServer WITH
  Clients <- Apps, Messages <- Datagrams, NoMessage <- NoDatagram, MaxSize <- QueueSize,
  open <- fd = Sock!Fd, task <- SeenAt, hand <- SeenHand, coming <- SeenComing

\* With its socket one system call at a time, its pings, malformed datagrams and
\* signals, the server is the one of LinxServer: it queues each message it takes at
\* most once, takes at most one after the socket was closed, and is joined only when
\* it has ended and the queue is closed.
ImplementsServer == Promised!ServerSpec

\* No client that pings over a unix socket stops reading for ever: its full socket
\* would hold the worker, and with it stop(), in sendto().
AnswersGoOut == (task = "sending") ~> (task # "sending")

\* While the worker runs and the socket is open, a datagram does not stay in the
\* socket: it is answered, queued or discarded, whatever the applications do, and
\* however long a client makes the worker wait, if not for ever.
WorkerServes ==
  AnswersGoOut =>
    \A d \in Datagrams :
      (d \in ToSet(inbox) /\ task \notin {"none", "exited"}) ~>
         \/ d \in replied \union discarded \union delivered \union ToSet(box) \union Answers
         \/ task = "exited" \/ sock # "open"

\* stop() comes back: the worker notices that the socket was closed, wherever
\* in receive() or in an answer it is, unless that answer blocks for ever.
StopReturns ==
  AnswersGoOut =>
    \A t \in Controllers : (ctl[t] \in StopLabels) ~> (ctl[t] = "idle")

\* Once stop() has reached the queue, every receive() in progress comes back.
ReceiversReleased ==
  \A a \in Apps : (closed /\ phase[a] = "asking") ~> (phase[a] = "idle")

\* README: "When not started, receive() blocks and reads directly from the
\* socket".
UnstartedServerReceives ==
  \A a \in Apps : \A d \in Datagrams :
    (/\ thread = "none" /\ ~closed
     /\ d \in ToSet(inbox) /\ d.reqId # IPC_PING_REQ
     /\ phase[a] = "asking" /\ Matches(d, asked[a].filter))
    ~> (phase[a] = "answered" \/ thread = "joinable")
=============================================================================
