-------------------------- MODULE GenericSimpleServer --------------------------
(***************************************************************************)
(* GenericSimpleServer: a server without a thread of its own.  Whoever     *)
(* calls receive() reads the socket, answers the pings found there, throws *)
(* away what does not pass the filter, and goes on until a message passes, *)
(* the deadline is past, or the socket fails.  start() and stop() do       *)
(* nothing, so that the socket stays open.                                 *)
(***************************************************************************)
EXTENDS Integers, Sequences, SequencesExt, LinxMessageFilter, Deadline

CONSTANTS
  Receivers,    \* threads that call receive()
  Datagrams, SocketRoom, NoDatagram,
  Repeatable,   \* the datagrams that may be sent any number of times
  Requests, NoRequest

IPC_PING_REQ == 1

VARIABLES
  fd, sock, inbox, at, pollFd, avail, ret, got,  \* the socket
  loop,      \* where each thread is: "idle", "top", "receive", "sending" (blocked in
             \* the answer to a ping), "test", "return"
  asked,     \* the arguments of its receive()
  deadline,  \* how far its deadline is
  timeout,   \* the timeout it gave to socket->receive
  failed,    \* whether the socket failed it
  result,    \* what its receive() returns
  arrived,   \* history: the datagrams sent once that reached the socket
  replied,   \* history: those that were pings, and answered
  skipped,   \* history: those that were thrown away
  delivered  \* history: those that were returned

Sock == INSTANCE DgramSocket WITH FdLoads <- "once"

socketVars == <<fd, sock, inbox, at, pollFd, avail, ret, got>>
callVars == <<asked, deadline, timeout, failed, result>>
history == <<arrived, replied, skipped, delivered>>
vars == <<socketVars, loop, callVars, history>>

\* NoDatagram is no datagram, nor what a cut leaves of one.
ASSUME SimpleDatagramAssumption ==
  /\ NoDatagram \notin Datagrams /\ Repeatable \subseteq Datagrams
  /\ \A d \in Datagrams :
       /\ d = [reqId |-> d.reqId, from |-> d.from, n |-> d.n, size |-> d.size]
       /\ d.size \in Nat
       /\ \A size \in 0..d.size : [d EXCEPT !.size = size] # NoDatagram
ASSUME SimpleRequestAssumption ==
  NoRequest \notin Requests /\ \A r \in Requests : r.timeoutMs \in Int
ASSUME SimpleSocketAssumption == SocketRoom \in Nat \ {0}

Init ==
  /\ Sock!SocketInit
  /\ loop = [t \in Receivers |-> "idle"]
  /\ asked = [t \in Receivers |-> NoRequest]
  /\ deadline = [t \in Receivers |-> "never"]
  /\ timeout = [t \in Receivers |-> "zero"]
  /\ failed = [t \in Receivers |-> FALSE]
  /\ result = [t \in Receivers |-> NoDatagram]
  /\ arrived = {} /\ replied = {} /\ skipped = {} /\ delivered = {}

Once(d) == {d} \ (Repeatable \union {NoDatagram})

ClientSend(d) ==
  /\ d \notin arrived
  /\ Sock!Arrive(d)
  /\ arrived' = arrived \union Once(d)
  /\ UNCHANGED <<loop, callVars, replied, skipped, delivered>>

-----------------------------------------------------------------------------
(* receive(timeoutMs, sigsel, identifier) *)

Move(t, from, to) == loop[t] = from /\ loop' = [loop EXCEPT ![t] = to]

CallReceive(t, r) ==
  /\ Move(t, "idle", "top")
  /\ asked' = [asked EXCEPT ![t] = r]
  /\ deadline' = [deadline EXCEPT ![t] = DeadlineOf(r.timeoutMs)]
  /\ UNCHANGED <<socketVars, timeout, failed, result, history>>

LoopTop(t) ==
  /\ Move(t, "top", "receive")
  /\ timeout' = [timeout EXCEPT ![t] = getRemainingTimeMs(deadline[t])]
  /\ Sock!ReceiveCheck(t)
  /\ UNCHANGED <<asked, deadline, failed, result, history>>

\* poll has waited for the remaining time, rounded down: the deadline is near.
PollTimeout(t) ==
  /\ loop[t] = "receive"
  /\ \/ timeout[t] = "zero"
     \/ timeout[t] = "finite" /\ deadline[t] \in {"near", "past"}
  /\ Sock!PollTimeout(t)
  /\ UNCHANGED <<loop, callVars, history>>

SocketReceive(t) ==
  /\ loop[t] = "receive"
  /\ \/ Sock!PollEnter(t) \/ Sock!PollReady(t) \/ Sock!Ioctl(t)
     \/ Sock!RecvEnter(t) \/ Sock!RecvDatagram(t)
  /\ UNCHANGED <<loop, callVars, history>>

Interrupt(t) ==
  /\ loop[t] = "receive"
  /\ Sock!Interrupted(t)
  /\ UNCHANGED <<loop, callVars, history>>

\* ret == 0, and ret < 0: nullptr.
ReceiveNothing(t) ==
  /\ at[t] = "done" /\ ret[t] <= 0
  /\ Move(t, "receive", "return")
  /\ failed' = [failed EXCEPT ![t] = ret[t] < 0]
  /\ Sock!ReceiveLeave(t)
  /\ UNCHANGED <<asked, deadline, timeout, result, history>>

IsPing(t) == got[t].reqId = IPC_PING_REQ

\* Variant: the loop does not continue after a ping was answered.
AnswerPingAndLook(t) ==
  /\ at[t] = "done" /\ ret[t] > 0 /\ IsPing(t)
  /\ Move(t, "receive", "return")
  /\ replied' = replied \union Once(got[t])
  /\ result' = [result EXCEPT ![t] = got[t]]
  /\ Sock!ReceiveLeave(t)
  /\ UNCHANGED <<asked, deadline, timeout, failed, arrived, skipped, delivered>>

\* Variant: a ping ends the loop.
AnswerPingAndStop(t) ==
  /\ at[t] = "done" /\ ret[t] > 0 /\ IsPing(t)
  /\ Move(t, "receive", "return")
  /\ replied' = replied \union Once(got[t])
  /\ Sock!ReceiveLeave(t)
  /\ UNCHANGED <<callVars, arrived, skipped, delivered>>

\* send(IPC_PING_RSP, from), whose result is ignored; "continue" goes to the
\* test at the end of the loop.
AnswerPing(t) ==
  /\ at[t] = "done" /\ ret[t] > 0 /\ IsPing(t)
  /\ Move(t, "receive", "test")
  /\ replied' = replied \union Once(got[t])
  /\ Sock!ReceiveLeave(t)
  /\ UNCHANGED <<callVars, arrived, skipped, delivered>>

\* Over unix sockets sendto() waits until there is room at the client, whatever
\* becomes of the deadline.
AnswerBlocks(t) ==
  /\ at[t] = "done" /\ ret[t] > 0 /\ IsPing(t)
  /\ Move(t, "receive", "sending")
  /\ UNCHANGED <<socketVars, callVars, history>>

\* The client reads.
AnswerGoesOut(t) ==
  /\ Move(t, "sending", "test")
  /\ replied' = replied \union Once(got[t])
  /\ Sock!ReceiveLeave(t)
  /\ UNCHANGED <<callVars, arrived, skipped, delivered>>

ReturnMessage(t) ==
  /\ at[t] = "done" /\ ret[t] > 0 /\ ~IsPing(t)
  /\ Matches(got[t], asked[t].filter)
  /\ Move(t, "receive", "return")
  /\ result' = [result EXCEPT ![t] = got[t]]
  /\ Sock!ReceiveLeave(t)
  /\ UNCHANGED <<asked, deadline, timeout, failed, history>>

SkipMessage(t) ==
  /\ at[t] = "done" /\ ret[t] > 0 /\ ~IsPing(t)
  /\ ~Matches(got[t], asked[t].filter)
  /\ Move(t, "receive", "test")
  /\ skipped' = skipped \union Once(got[t])
  /\ Sock!ReceiveLeave(t)
  /\ UNCHANGED <<callVars, arrived, replied, delivered>>

\* while (!deadline.isExpired())
LoopTest(t) ==
  /\ Move(t, "test", IF isExpired(deadline[t]) THEN "return" ELSE "top")
  /\ UNCHANGED <<socketVars, callVars, history>>

Return(t) ==
  /\ Move(t, "return", "idle")
  /\ delivered' = delivered \union Once(result[t])
  /\ asked' = [asked EXCEPT ![t] = NoRequest]
  /\ deadline' = [deadline EXCEPT ![t] = "never"]
  /\ timeout' = [timeout EXCEPT ![t] = "zero"]
  /\ failed' = [failed EXCEPT ![t] = FALSE]
  /\ result' = [result EXCEPT ![t] = NoDatagram]
  /\ UNCHANGED <<socketVars, arrived, replied, skipped>>

Elapse(t) ==
  /\ loop[t] # "idle"
  /\ Nearer(deadline[t]) # deadline[t]
  /\ deadline' = [deadline EXCEPT ![t] = Nearer(deadline[t])]
  /\ UNCHANGED <<socketVars, loop, asked, timeout, failed, result, history>>

-----------------------------------------------------------------------------

Step(t) ==
  \/ LoopTop(t) \/ PollTimeout(t) \/ SocketReceive(t) \/ ReceiveNothing(t)
  \/ AnswerPing(t) \/ AnswerBlocks(t) \/ ReturnMessage(t) \/ SkipMessage(t)
  \/ LoopTest(t) \/ Return(t)

Next ==
  \/ \E d \in Datagrams : ClientSend(d)
  \/ \E t \in Receivers :
       \/ \E r \in Requests : CallReceive(t, r)
       \/ Step(t) \/ AnswerGoesOut(t) \/ Interrupt(t) \/ Elapse(t)

Spec == Init /\ [][Next]_vars

(***************************************************************************)
(* A thread inside receive() runs, and time goes by.  Nobody has to call   *)
(* receive(), anybody may go on sending for ever, and no client has to     *)
(* read what an answer waits to be put into.                               *)
(***************************************************************************)
Fairness == \A t \in Receivers : WF_vars(Step(t)) /\ WF_vars(Elapse(t))

FairSpec == Spec /\ Fairness
=============================================================================
