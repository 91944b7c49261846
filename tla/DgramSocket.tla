------------------------------ MODULE DgramSocket ------------------------------
(***************************************************************************)
(* A datagram socket as AfUnixSocket and UdpSocket wrap it: receive(), one *)
(* system call at a time, beside close() by another thread.  The member fd *)
(* is an int that neither method guards, so every load of it is a step.    *)
(*                                                                         *)
(* external: the kernel.  It is modelled by what the code relies on: poll  *)
(* ignores a negative descriptor and reports one that is not open as an    *)
(* event (POLLNVAL); shutdown makes the socket readable with nothing to    *)
(* read; a call in progress keeps the socket it began with; FIONREAD gives *)
(* the size of the first datagram; recvfrom takes one datagram, cut to the *)
(* buffer, and blocks when there is none.                                  *)
(***************************************************************************)
EXTENDS Integers, Sequences, SequencesExt

CONSTANTS
  Receivers,   \* threads that call receive()
  Datagrams,   \* records with the fields reqId, from, n and size
  SocketRoom,  \* bound: the datagrams the kernel keeps for the socket
  FdLoads,     \* "once" if the build loads fd once for the test at the start
               \* of receive() and for poll, "twice" if it loads it for each
  NoDatagram

VARIABLES
  fd,       \* the member fd
  sock,     \* the socket that Fd stands for: "open", "shutdown" or "closed"
  inbox,    \* the datagrams in its receive queue
  at,       \* where each receiver is in receive(): "idle" outside, "done" at the end
  pollFd,   \* the descriptor it polls
  avail,    \* bytes_available
  ret,      \* what receive() returns
  got       \* the message it returns

callVars == <<at, pollFd, avail, ret, got>>
socketVars == <<fd, sock, inbox, callVars>>

NoFd == -1
Fd == 3        \* the descriptor, as long as there is one

HeaderSize == 4   \* sizeof(reqId): RawMessage::deserialize refuses less

SocketInit ==
  /\ fd = Fd
  /\ sock = "open"
  /\ inbox = <<>>
  /\ at = [t \in Receivers |-> "idle"]
  /\ pollFd = [t \in Receivers |-> NoFd]
  /\ avail = [t \in Receivers |-> 0]
  /\ ret = [t \in Receivers |-> 0]
  /\ got = [t \in Receivers |-> NoDatagram]

\* A datagram reaches the socket; over UDP even one that is shut down.
Arrive(d) ==
  /\ sock # "closed"
  /\ Len(inbox) < SocketRoom
  /\ inbox' = Append(inbox, d)
  /\ UNCHANGED <<fd, sock, callVars>>

-----------------------------------------------------------------------------
(* int receive(msg, from, timeoutMs) *)

Return(t, r, d) ==
  /\ at' = [at EXCEPT ![t] = "done"]
  /\ ret' = [ret EXCEPT ![t] = r]
  /\ got' = [got EXCEPT ![t] = d]
  /\ pollFd' = [pollFd EXCEPT ![t] = NoFd]
  /\ avail' = [avail EXCEPT ![t] = 0]

Goto(t, label) ==
  /\ at' = [at EXCEPT ![t] = label]
  /\ UNCHANGED <<ret, got>>

\* if (this->fd < 0) return -1
ReceiveOnClosed(t) ==
  /\ at[t] = "idle"
  /\ fd = NoFd
  /\ Return(t, -1, NoDatagram)
  /\ UNCHANGED <<fd, sock, inbox>>

ReceiveCheck(t) ==
  /\ at[t] = "idle"
  /\ fd # NoFd
  /\ IF FdLoads = "once"
     THEN Goto(t, "poll") /\ pollFd' = [pollFd EXCEPT ![t] = fd]
     ELSE Goto(t, "load") /\ UNCHANGED pollFd
  /\ UNCHANGED <<fd, sock, inbox, avail>>

\* fds[0].fd = this->fd, in a build that loads it again.
LoadFd(t) ==
  /\ at[t] = "load"
  /\ pollFd' = [pollFd EXCEPT ![t] = fd]
  /\ Goto(t, "poll")
  /\ UNCHANGED <<fd, sock, inbox, avail>>

\* POLLNVAL counts as one ready descriptor.
PollInvalid(t) ==
  /\ at[t] = "poll"
  /\ pollFd[t] = Fd /\ sock = "closed"
  /\ Goto(t, "ioctl")
  /\ UNCHANGED <<fd, sock, inbox, pollFd, avail>>

PollEnter(t) ==
  /\ at[t] = "poll"
  /\ pollFd[t] = NoFd \/ sock # "closed"
  /\ Goto(t, "polling")
  /\ UNCHANGED <<fd, sock, inbox, pollFd, avail>>

Readable == inbox # <<>> \/ sock # "open"

PollReady(t) ==
  /\ at[t] = "polling"
  /\ pollFd[t] = Fd /\ Readable
  /\ Goto(t, "ioctl")
  /\ UNCHANGED <<fd, sock, inbox, pollFd, avail>>

\* poll or recvfrom fails on a descriptor that is good: a signal, most often (EINTR).
\* What is in the socket stays there.
Interrupted(t) ==
  /\ at[t] \in {"polling", "receiving"}
  /\ Return(t, IF at[t] = "polling" THEN -2 ELSE -4, NoDatagram)
  /\ UNCHANGED <<fd, sock, inbox>>

\* The timeout of poll ends with nothing to read.  When is for the caller to say.
PollTimeout(t) ==
  /\ at[t] = "polling"
  /\ ~(pollFd[t] = Fd /\ Readable)
  /\ Return(t, 0, NoDatagram)
  /\ UNCHANGED <<fd, sock, inbox>>

\* Variant: bytes_available takes the result of a failed ioctl.
IoctlResult(t) ==
  /\ at[t] = "ioctl"
  /\ avail' = [avail EXCEPT ![t] =
                 IF fd = Fd /\ sock # "closed"
                 THEN IF inbox # <<>> THEN Head(inbox).size ELSE 0
                 ELSE -1]
  /\ Goto(t, "recv")
  /\ UNCHANGED <<fd, sock, inbox, pollFd>>

\* ioctl(this->fd, FIONREAD): on a bad descriptor bytes_available stays 0.
Ioctl(t) ==
  /\ at[t] = "ioctl"
  /\ avail' = [avail EXCEPT ![t] =
                 IF fd = Fd /\ sock # "closed" /\ inbox # <<>>
                 THEN Head(inbox).size ELSE 0]
  /\ Goto(t, "recv")
  /\ UNCHANGED <<fd, sock, inbox, pollFd>>

\* recvfrom(this->fd) on a bad descriptor: EBADF, taken for a closed socket.
RecvBadFd(t) ==
  /\ at[t] = "recv"
  /\ fd = NoFd \/ sock = "closed"
  /\ Return(t, 0, NoDatagram)
  /\ UNCHANGED <<fd, sock, inbox>>

RecvEnter(t) ==
  /\ at[t] = "recv"
  /\ fd = Fd /\ sock # "closed"
  /\ Goto(t, "receiving")
  /\ UNCHANGED <<fd, sock, inbox, pollFd, avail>>

\* Variant: deserialize accepts a datagram that holds no signal number.
RecvAnything(t) ==
  /\ at[t] = "receiving"
  /\ inbox # <<>>
  /\ LET d == Head(inbox)
     IN  IF d.size > avail[t] THEN Return(t, -5, NoDatagram) ELSE Return(t, d.size, d)
  /\ inbox' = Tail(inbox)
  /\ UNCHANGED <<fd, sock>>

\* One datagram, cut to the buffer.  A length other than bytes_available is an
\* error, and so is one that does not hold a signal number.
RecvDatagram(t) ==
  /\ at[t] = "receiving"
  /\ inbox # <<>>
  /\ LET d   == Head(inbox)
         len == IF d.size <= avail[t] THEN d.size ELSE avail[t]
     IN  IF len # avail[t]       THEN Return(t, -5, NoDatagram)
         ELSE IF len < HeaderSize THEN Return(t, -6, NoDatagram)
         ELSE Return(t, len, [d EXCEPT !.size = len])
  /\ inbox' = Tail(inbox)
  /\ UNCHANGED <<fd, sock>>

\* A socket that is shut down has nothing more to give: the length is 0.
RecvEnd(t) ==
  /\ at[t] = "receiving"
  /\ inbox = <<>> /\ sock # "open"
  /\ Return(t, IF avail[t] # 0 THEN -5 ELSE -6, NoDatagram)
  /\ UNCHANGED <<fd, sock, inbox>>

ReceiveStep(t) ==
  \/ LoadFd(t) \/ PollInvalid(t) \/ PollEnter(t) \/ PollReady(t) \/ Ioctl(t)
  \/ RecvBadFd(t) \/ RecvEnter(t) \/ RecvDatagram(t) \/ RecvEnd(t)

\* The caller has looked at the result.
ReceiveLeave(t) ==
  /\ at[t] = "done"
  /\ at' = [at EXCEPT ![t] = "idle"]
  /\ ret' = [ret EXCEPT ![t] = 0]
  /\ got' = [got EXCEPT ![t] = NoDatagram]
  /\ UNCHANGED <<fd, sock, inbox, pollFd, avail>>

-----------------------------------------------------------------------------
(* void close() *)

Shutdown ==
  /\ fd # NoFd
  /\ sock' = IF sock = "closed" THEN "closed" ELSE "shutdown"
  /\ UNCHANGED <<fd, inbox, callVars>>

\* A receiver inside a system call still holds the socket, and what is in it.
CloseFd ==
  /\ sock' = "closed"
  /\ inbox' = IF \E t \in Receivers : at[t] = "receiving" THEN inbox ELSE <<>>
  /\ UNCHANGED <<fd, callVars>>

ForgetFd ==
  /\ fd' = NoFd
  /\ UNCHANGED <<sock, inbox, callVars>>
=============================================================================
