----------------------------- MODULE GenericClient -----------------------------
(***************************************************************************)
(* GenericClient: a program that sends requests to a server and receives   *)
(* the answers, with one socket of its own.  connect() sends pings until   *)
(* one is answered.  A call that gives up leaves its answer to arrive      *)
(* later, in the same socket.                                              *)
(*                                                                         *)
(* external: the server, its socket and the network.  The server takes its *)
(* messages in order, answers every ping and as many requests as it        *)
(* wants, and may stop and come back.  Over unix sockets a send to a full  *)
(* socket blocks and one to no socket fails; over UDP both lose the        *)
(* message, and any message may be lost.                                   *)
(***************************************************************************)
EXTENDS Integers, Sequences, SequencesExt, LinxMessageFilter, Deadline

CONSTANTS
  User,         \* the thread that calls the client
  Server,       \* the identifier the client sends to
  Stranger,     \* the identifier of somebody else who sends to the client
  Transports,   \* a subset of {"unix", "udp"}
  Calls,        \* records: op, timeoutMs, sigsel
  NoCall,
  SocketRoom,   \* bound: the datagrams the kernel keeps for the client
  ServerRoom,   \* bound: the same for the server
  MaxRequests,  \* bound: the requests sent
  NoDatagram

IPC_PING_REQ == 1
IPC_PING_RSP == 2
RESPONSE == 20     \* the signal number of the server's answers

\* The answer to request n; that to a ping has no number.
Answer(n) ==
  IF n = 0 THEN [reqId |-> IPC_PING_RSP, from |-> Server, n |-> 0, size |-> 4]
           ELSE [reqId |-> RESPONSE, from |-> Server, n |-> n, size |-> 8]
Stray == [reqId |-> RESPONSE, from |-> Stranger, n |-> 0, size |-> 8]

VARIABLES
  fd, sock, inbox, at, pollFd, avail, ret, got,  \* the socket of the client
  transport,
  up,          \* whether the socket of the server exists
  serverBox,   \* the numbers of the requests in it, 0 for a ping
  hand,        \* the request the server is working on, -1 for none
  call,        \* the call in progress
  step,        \* where it is: "idle", "send", "top", "receive", "test", "retry", "return"
  outer,       \* the deadline of connect()
  deadline,    \* the deadline of receive()
  timeout,     \* the timeout given to socket->receive
  result,      \* what receive() returns
  sent,        \* the number of the last request
  answers,     \* history: the numbers of the answers returned, in order
  unanswered,  \* history: the requests whose call ended without their answer
  retried      \* history: an attempt of connect() ended without an answer

Sock == INSTANCE DgramSocket WITH
  Receivers <- {User}, FdLoads <- "once",
  Datagrams <- {Answer(n) : n \in 0..MaxRequests} \union {Stray}

socketVars == <<fd, sock, inbox, at, pollFd, avail, ret, got>>
serverVars == <<transport, up, serverBox, hand>>
history == <<answers, unanswered, retried>>
vars == <<socketVars, serverVars, call, step, outer, deadline, timeout, result,
          sent, history>>

ASSUME ClientAssumption ==
  /\ {SocketRoom, ServerRoom} \subseteq Nat \ {0} /\ MaxRequests \in Nat
  /\ Transports \subseteq {"unix", "udp"}
  /\ Server # AnyFrom /\ ~SameIdentifier(Stranger, Server)
ASSUME CallAssumption ==
  /\ NoCall \notin Calls
  /\ \A c \in Calls : c.op \in {"send", "receive", "sendReceive", "connect"}
ASSUME NoReplyAssumption ==
  NoDatagram \notin {Answer(n) : n \in 0..MaxRequests} \union {Stray}

Init ==
  /\ Sock!SocketInit
  /\ transport \in Transports
  /\ up \in BOOLEAN
  /\ serverBox = <<>> /\ hand = -1
  /\ call = NoCall /\ step = "idle"
  /\ outer = "never" /\ deadline = "never" /\ timeout = "zero"
  /\ result = NoDatagram
  /\ sent = 0
  /\ answers = <<>> /\ unanswered = {} /\ retried = FALSE

-----------------------------------------------------------------------------
(* The server and the strangers *)

ServerTake ==
  /\ up /\ hand = -1 /\ serverBox # <<>>
  /\ hand' = Head(serverBox)
  /\ serverBox' = Tail(serverBox)
  /\ UNCHANGED <<socketVars, transport, up, call, step, outer, deadline, timeout,
                 result, sent, history>>

ServerAnswer ==
  /\ hand # -1
  /\ Sock!Arrive(Answer(hand))
  /\ hand' = -1
  /\ UNCHANGED <<transport, up, serverBox, call, step, outer, deadline, timeout,
                 result, sent, history>>

\* The application does not answer a request, or the network loses the answer.
ServerSilent ==
  /\ hand > 0 \/ (hand = 0 /\ transport = "udp")
  /\ hand' = -1
  /\ UNCHANGED <<socketVars, transport, up, serverBox, call, step, outer, deadline,
                 timeout, result, sent, history>>

ServerStop ==
  /\ up
  /\ up' = FALSE /\ serverBox' = <<>> /\ hand' = -1
  /\ UNCHANGED <<socketVars, transport, call, step, outer, deadline, timeout,
                 result, sent, history>>

ServerStart ==
  /\ ~up
  /\ up' = TRUE
  /\ UNCHANGED <<socketVars, transport, serverBox, hand, call, step, outer,
                 deadline, timeout, result, sent, history>>

StrangerSend ==
  /\ Sock!Arrive(Stray)
  /\ UNCHANGED <<serverVars, call, step, outer, deadline, timeout, result, sent,
                 history>>

-----------------------------------------------------------------------------
(* Calls *)

Sends(c) == c.op # "receive"
IsRequest(c) == c.op \in {"send", "sendReceive"}

Begin(c) ==
  /\ step = "idle"
  /\ IsRequest(c) => sent < MaxRequests
  /\ call' = c
  /\ sent' = IF IsRequest(c) THEN sent + 1 ELSE sent
  /\ step' = IF Sends(c) THEN "send" ELSE "top"
  /\ outer' = IF c.op = "connect" THEN DeadlineOf(c.timeoutMs) ELSE "never"
  /\ deadline' = IF Sends(c) THEN "never" ELSE DeadlineOf(c.timeoutMs)
  /\ UNCHANGED <<socketVars, serverVars, timeout, result, history>>

pingTimeout == 100

\* What follows a send: receive(), whose deadline begins now, unless the send
\* failed or the call was a plain send().
AfterSend(failed) ==
  /\ step' = CASE call.op = "send" -> "return"
               [] call.op = "sendReceive" -> IF failed THEN "return" ELSE "top"
               [] OTHER -> IF failed THEN "retry" ELSE "top"
  /\ deadline' = IF failed \/ call.op = "send" THEN "never"
                 ELSE DeadlineOf(IF call.op = "connect" THEN pingTimeout
                                 ELSE call.timeoutMs)

Number == IF IsRequest(call) THEN sent ELSE 0

\* Variant: the request is sent once more, in case it was lost.
SendTwice ==
  /\ step = "send"
  /\ up /\ Len(serverBox) < ServerRoom
  /\ serverBox' = serverBox \o <<Number, Number>>
  /\ AfterSend(FALSE)
  /\ UNCHANGED <<socketVars, transport, up, hand, call, outer, timeout, result,
                 sent, history>>

\* int send(message): the message reaches the socket of the server.
Send ==
  /\ step = "send"
  /\ up /\ Len(serverBox) < ServerRoom
  /\ serverBox' = Append(serverBox, Number)
  /\ AfterSend(FALSE)
  /\ UNCHANGED <<socketVars, transport, up, hand, call, outer, timeout, result,
                 sent, history>>

\* sendto fails: over unix sockets when no socket has the name, over UDP when the address
\* is none or cannot be reached.
SendFail ==
  /\ step = "send"
  /\ ~up \/ transport = "udp"
  /\ AfterSend(TRUE)
  /\ UNCHANGED <<socketVars, serverVars, call, outer, timeout, result, sent, history>>

\* A datagram that is lost was sent well.
SendLost ==
  /\ step = "send"
  /\ transport = "udp"
  /\ AfterSend(FALSE)
  /\ UNCHANGED <<socketVars, serverVars, call, outer, timeout, result, sent, history>>

-----------------------------------------------------------------------------
(* receive(timeoutMs, sigsel), inside a call *)

sigsel == IF call.op = "connect" THEN {IPC_PING_RSP} ELSE call.sigsel

LoopTop ==
  /\ step = "top"
  /\ Sock!ReceiveCheck(User)
  /\ timeout' = getRemainingTimeMs(deadline)
  /\ step' = "receive"
  /\ UNCHANGED <<serverVars, call, outer, deadline, result, sent, history>>

PollTimeout ==
  /\ step = "receive"
  /\ \/ timeout = "zero"
     \/ timeout = "finite" /\ deadline \in {"near", "past"}
  /\ Sock!PollTimeout(User)
  /\ UNCHANGED <<serverVars, call, step, outer, deadline, timeout, result, sent,
                 history>>

SocketReceive ==
  /\ step = "receive"
  /\ \/ Sock!PollEnter(User) \/ Sock!PollReady(User) \/ Sock!Ioctl(User)
     \/ Sock!RecvEnter(User) \/ Sock!RecvDatagram(User)
  /\ UNCHANGED <<serverVars, call, step, outer, deadline, timeout, result, sent,
                 history>>

Interrupt ==
  /\ step = "receive"
  /\ Sock!Interrupted(User)
  /\ UNCHANGED <<serverVars, call, step, outer, deadline, timeout, result, sent,
                 history>>

\* receive() returns: to connect(), which may try again, or to the caller.
Leave(r) ==
  /\ result' = r
  /\ step' = IF call.op = "connect" /\ r = NoDatagram THEN "retry" ELSE "return"

ReceiveNothing ==
  /\ step = "receive" /\ at[User] = "done" /\ ret[User] <= 0
  /\ Leave(NoDatagram)
  /\ Sock!ReceiveLeave(User)
  /\ UNCHANGED <<serverVars, call, outer, deadline, timeout, sent, history>>

\* Variant: whoever sends the message is taken for the server.
PassesFromAnybody(m) == matchesSignalSelector(m, sigsel)

Passes(m) == Matches(m, [sigsel |-> sigsel, from |-> Server])

ReturnMessage ==
  /\ step = "receive" /\ at[User] = "done" /\ ret[User] > 0
  /\ Passes(got[User])
  /\ Leave(got[User])
  /\ Sock!ReceiveLeave(User)
  /\ UNCHANGED <<serverVars, call, outer, deadline, timeout, sent, history>>

\* Variant: a message that does not pass ends the wait.
SkipAndStop ==
  /\ step = "receive" /\ at[User] = "done" /\ ret[User] > 0
  /\ ~Passes(got[User])
  /\ Leave(NoDatagram)
  /\ Sock!ReceiveLeave(User)
  /\ UNCHANGED <<serverVars, call, outer, deadline, timeout, sent, history>>

SkipMessage ==
  /\ step = "receive" /\ at[User] = "done" /\ ret[User] > 0
  /\ ~Passes(got[User])
  /\ step' = "test"
  /\ Sock!ReceiveLeave(User)
  /\ UNCHANGED <<serverVars, call, outer, deadline, timeout, result, sent, history>>

LoopTest ==
  /\ step = "test"
  /\ IF isExpired(deadline) THEN Leave(NoDatagram)
                            ELSE step' = "top" /\ UNCHANGED result
  /\ UNCHANGED <<socketVars, serverVars, call, outer, deadline, timeout, sent, history>>

-----------------------------------------------------------------------------

\* Variant: each attempt of connect() has a deadline of its own.
RetryAnew ==
  /\ step = "retry"
  /\ step' = "send"
  /\ deadline' = "never"
  /\ retried' = TRUE
  /\ UNCHANGED <<socketVars, serverVars, call, outer, timeout, result, sent, answers,
                 unanswered>>

\* The loop of connect() ends with false, or sends another ping.
Retry ==
  /\ step = "retry"
  /\ step' = IF isExpired(outer) THEN "return" ELSE "send"
  /\ deadline' = "never"
  /\ retried' = TRUE
  /\ UNCHANGED <<socketVars, serverVars, call, outer, timeout, result, sent, answers, unanswered>>

IsAnswer(m) == m # NoDatagram /\ m.reqId = RESPONSE

Return ==
  /\ step = "return"
  /\ answers' = IF IsAnswer(result) THEN Append(answers, result.n) ELSE answers
  /\ unanswered' =
       IF IsRequest(call) /\ ~(IsAnswer(result) /\ result.n = sent)
       THEN unanswered \union {sent} ELSE unanswered
  /\ step' = "idle" /\ call' = NoCall /\ result' = NoDatagram
  /\ outer' = "never" /\ deadline' = "never" /\ timeout' = "zero"
  /\ UNCHANGED <<socketVars, serverVars, sent, retried>>

Elapse ==
  /\ step # "idle"
  /\ \/ deadline # Nearer(deadline) /\ deadline' = Nearer(deadline) /\ UNCHANGED outer
     \/ outer # Nearer(outer) /\ outer' = Nearer(outer) /\ UNCHANGED deadline
  /\ UNCHANGED <<socketVars, serverVars, call, step, timeout, result, sent, history>>

-----------------------------------------------------------------------------

ServerStep == ServerTake \/ ServerAnswer \/ ServerSilent

Step ==
  \/ Send \/ SendFail \/ SendLost
  \/ LoopTop \/ PollTimeout \/ SocketReceive \/ ReceiveNothing \/ ReturnMessage
  \/ SkipMessage \/ LoopTest \/ Retry \/ Return

Next ==
  \/ \E c \in Calls : Begin(c)
  \/ Step \/ Interrupt \/ Elapse
  \/ ServerStep \/ ServerStop \/ ServerStart \/ StrangerSend

Spec == Init /\ [][Next]_vars

(***************************************************************************)
(* The thread inside a call runs and both its deadlines come nearer.       *)
(* Nothing is assumed of the server.                                       *)
(***************************************************************************)
Fairness ==
  /\ WF_vars(Step)
  /\ WF_vars(Elapse /\ deadline' # deadline)
  /\ WF_vars(Elapse /\ outer' # outer)

FairSpec == Spec /\ Fairness
=============================================================================
