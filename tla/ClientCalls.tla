------------------------------ MODULE ClientCalls ------------------------------
(***************************************************************************)
(* What a client promises of its calls, without its two loops and their    *)
(* system calls: a send puts one request, or none, into the socket of the  *)
(* server; a wait takes datagrams out of the socket of the client, the     *)
(* oldest first, each at one instant that decides whether it is thrown     *)
(* away or is the answer; a wait without an answer ends only when its time *)
(* is up or the socket failed it.  Between calls nothing is taken.         *)
(***************************************************************************)
EXTENDS LinxMessageFilter, Deadline

CONSTANTS Server, Calls, NoCall, Datagrams, NoDatagram

VARIABLES
  inbox,      \* the datagrams in the socket of the client
  serverBox,  \* the numbers of the requests in that of the server, 0 for a ping
  phase,      \* "idle", "send", "wait", "failed", "retry" or "return"
  call,       \* the call in progress
  sent,       \* the number of the last request
  outer,      \* how far the deadline of connect() is
  deadline,   \* and that of the wait
  result      \* the answer

deadlines == <<outer, deadline>>
vars == <<inbox, serverBox, phase, call, sent, deadlines, result>>

IPC_PING_RSP == 2
PingTimeout == 100

Init ==
  /\ inbox = <<>> /\ serverBox = <<>>
  /\ phase = "idle" /\ call = NoCall /\ sent = 0
  /\ outer = "never" /\ deadline = "never"
  /\ result = NoDatagram

-----------------------------------------------------------------------------
(* The server, the network and the strangers *)

ServerTakes ==
  /\ \/ serverBox # <<>> /\ serverBox' = Tail(serverBox)
     \/ serverBox' = <<>>
  /\ UNCHANGED <<inbox, phase, call, sent, deadlines, result>>

Arrive(d) ==
  /\ inbox' = Append(inbox, d)
  /\ UNCHANGED <<serverBox, phase, call, sent, deadlines, result>>

-----------------------------------------------------------------------------
(* A call *)

IsRequest(c) == c.op \in {"send", "sendReceive"}

Begin(c) ==
  /\ phase = "idle"
  /\ phase' = IF c.op = "receive" THEN "wait" ELSE "send"
  /\ call' = c
  /\ sent' = IF IsRequest(c) THEN sent + 1 ELSE sent
  /\ outer' = IF c.op = "connect" THEN DeadlineOf(c.timeoutMs) ELSE "never"
  /\ deadline' = IF c.op = "receive" THEN DeadlineOf(c.timeoutMs) ELSE "never"
  /\ UNCHANGED <<inbox, serverBox, result>>

\* An attempt of connect() that fails is followed by another, any other call is over.
Unanswered == IF call.op = "connect" THEN "retry" ELSE "return"

Sent == Append(serverBox, IF IsRequest(call) THEN sent ELSE 0)

\* Once, unless the network loses it.
Send ==
  /\ phase = "send"
  /\ serverBox' \in {Sent, serverBox}
  /\ IF call.op = "send"
     THEN phase' = "return" /\ UNCHANGED deadline
     ELSE /\ phase' = "wait"
          /\ deadline' = DeadlineOf(IF call.op = "connect" THEN PingTimeout ELSE call.timeoutMs)
  /\ UNCHANGED <<inbox, call, sent, outer, result>>

SendFails ==
  /\ phase = "send"
  /\ phase' = Unanswered
  /\ UNCHANGED <<inbox, serverBox, call, sent, deadlines, result>>

Selected == IF call.op = "connect" THEN {IPC_PING_RSP} ELSE call.sigsel
Wanted(d) == Matches(d, [sigsel |-> Selected, from |-> Server])

Taken ==
  /\ phase = "wait"
  /\ inbox # <<>> /\ inbox' = Tail(inbox)
  /\ UNCHANGED <<serverBox, call, sent, deadlines>>

Skip == Taken /\ ~Wanted(Head(inbox)) /\ UNCHANGED <<phase, result>>

Answered == Taken /\ Wanted(Head(inbox)) /\ phase' = "return" /\ result' = Head(inbox)

\* Less than a millisecond is left, or nothing.
GiveUp ==
  /\ phase = "wait" /\ deadline \in {"near", "past"}
  /\ phase' = Unanswered
  /\ UNCHANGED <<inbox, serverBox, call, sent, deadlines, result>>

\* A signal.
Fail ==
  /\ \/ phase = "wait" /\ phase' = "failed"
     \/ phase = "failed" /\ phase' = Unanswered
  /\ UNCHANGED <<inbox, serverBox, call, sent, deadlines, result>>

Retry ==
  /\ phase = "retry"
  /\ phase' = IF isExpired(outer) THEN "return" ELSE "send"
  /\ deadline' = "never"
  /\ UNCHANGED <<inbox, serverBox, call, sent, outer, result>>

Return ==
  /\ phase = "return"
  /\ phase' = "idle" /\ call' = NoCall /\ result' = NoDatagram
  /\ outer' = "never" /\ deadline' = "never"
  /\ UNCHANGED <<inbox, serverBox, sent>>

Elapse ==
  /\ phase # "idle"
  /\ outer' \in {outer, Nearer(outer)} /\ deadline' \in {deadline, Nearer(deadline)}
  /\ UNCHANGED <<inbox, serverBox, phase, call, sent, result>>

-----------------------------------------------------------------------------

Next ==
  \/ ServerTakes \/ \E d \in Datagrams : Arrive(d)
  \/ \E c \in Calls : Begin(c)
  \/ Send \/ SendFails \/ Skip \/ Answered \/ GiveUp \/ Fail
  \/ Retry \/ Return \/ Elapse

Spec == Init /\ [][Next]_vars
=============================================================================
