---------------------------- MODULE SelectiveReceive ----------------------------
(***************************************************************************)
(* What receive() of a server without a worker promises to its callers,    *)
(* without its loop and its system calls: at one instant a datagram leaves *)
(* the socket, the oldest first, and its fate is decided: it is answered,  *)
(* thrown away, refused, or it is what the caller gets.  A caller gets     *)
(* nothing only when its time is up or the socket failed it.               *)
(***************************************************************************)
EXTENDS Integers, Sequences, LinxMessageFilter, Deadline

CONSTANTS Receivers, Datagrams, SocketRoom, NoDatagram, Repeatable, Requests, NoRequest

VARIABLES
  inbox,     \* the datagrams in the socket
  phase,     \* where each receiver is: "idle", "asking" or "answered"
  asked,     \* its request
  deadline,  \* how far its deadline is
  answer,    \* what it gets
  failed,    \* the socket failed it
  arrived,   \* history: the datagrams sent once that reached the socket
  replied,   \* history: those that were pings, and are answered
  skipped    \* history: those that are thrown away

IPC_PING_REQ == 1
HeaderSize == 4

callVars == <<phase, asked, deadline, answer, failed>>
fates == <<replied, skipped>>
vars == <<inbox, callVars, arrived, fates>>

Init ==
  /\ inbox = <<>>
  /\ phase = [t \in Receivers |-> "idle"]
  /\ asked = [t \in Receivers |-> NoRequest]
  /\ deadline = [t \in Receivers |-> "never"]
  /\ answer = [t \in Receivers |-> NoDatagram]
  /\ failed = [t \in Receivers |-> FALSE]
  /\ arrived = {} /\ replied = {} /\ skipped = {}

Once(d) == {d} \ Repeatable

Arrive(d) ==
  /\ d \notin arrived
  /\ Len(inbox) < SocketRoom
  /\ inbox' = Append(inbox, d)
  /\ arrived' = arrived \union Once(d)
  /\ UNCHANGED <<callVars, fates>>

Ask(t, r) ==
  /\ phase[t] = "idle"
  /\ phase' = [phase EXCEPT ![t] = "asking"]
  /\ asked' = [asked EXCEPT ![t] = r]
  /\ deadline' = [deadline EXCEPT ![t] = DeadlineOf(r.timeoutMs)]
  /\ UNCHANGED <<inbox, answer, failed, arrived, fates>>

Answer(t, d, f) ==
  /\ phase[t] = "asking"
  /\ phase' = [phase EXCEPT ![t] = "answered"]
  /\ answer' = [answer EXCEPT ![t] = d]
  /\ failed' = [failed EXCEPT ![t] = f]
  /\ UNCHANGED <<asked, deadline>>

-----------------------------------------------------------------------------
(* The oldest datagram *)

Taken == inbox # <<>> /\ inbox' = Tail(inbox) /\ UNCHANGED arrived
Whole(d) == d.size >= HeaderSize
Wanted(t, d) == d.reqId # IPC_PING_REQ /\ Matches(d, asked[t].filter)

Refuse(t) ==
  /\ Taken /\ ~Whole(Head(inbox))
  /\ Answer(t, NoDatagram, TRUE)
  /\ UNCHANGED fates

AnswerPing(t) ==
  /\ phase[t] = "asking"
  /\ Taken /\ Whole(Head(inbox)) /\ Head(inbox).reqId = IPC_PING_REQ
  /\ replied' = replied \union Once(Head(inbox))
  /\ UNCHANGED <<callVars, skipped>>

Skip(t) ==
  /\ phase[t] = "asking"
  /\ Taken /\ Whole(Head(inbox)) /\ Head(inbox).reqId # IPC_PING_REQ
  /\ ~Wanted(t, Head(inbox))
  /\ skipped' = skipped \union Once(Head(inbox))
  /\ UNCHANGED <<callVars, replied>>

Give(t) ==
  /\ Taken /\ Whole(Head(inbox)) /\ Wanted(t, Head(inbox))
  /\ Answer(t, Head(inbox), FALSE)
  /\ UNCHANGED fates

-----------------------------------------------------------------------------

\* Less than a millisecond is left, or nothing.
GiveUp(t) ==
  /\ deadline[t] \in {"near", "past"}
  /\ Answer(t, NoDatagram, FALSE)
  /\ UNCHANGED <<inbox, arrived, fates>>

\* A signal.
Fail(t) ==
  /\ Answer(t, NoDatagram, TRUE)
  /\ UNCHANGED <<inbox, arrived, fates>>

Collect(t) ==
  /\ phase[t] = "answered"
  /\ phase' = [phase EXCEPT ![t] = "idle"]
  /\ asked' = [asked EXCEPT ![t] = NoRequest]
  /\ deadline' = [deadline EXCEPT ![t] = "never"]
  /\ answer' = [answer EXCEPT ![t] = NoDatagram]
  /\ failed' = [failed EXCEPT ![t] = FALSE]
  /\ UNCHANGED <<inbox, arrived, fates>>

Elapse(t) ==
  /\ phase[t] # "idle"
  /\ deadline' = [deadline EXCEPT ![t] = Nearer(deadline[t])]
  /\ UNCHANGED <<inbox, phase, asked, answer, failed, arrived, fates>>

Next ==
  \/ \E d \in Datagrams : Arrive(d)
  \/ \E t \in Receivers :
       \/ \E r \in Requests : Ask(t, r)
       \/ Refuse(t) \/ AnswerPing(t) \/ Skip(t) \/ Give(t)
       \/ GiveUp(t) \/ Fail(t) \/ Collect(t) \/ Elapse(t)

Spec == Init /\ [][Next]_vars
=============================================================================
