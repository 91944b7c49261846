------------------------------ MODULE LinxMailbox ------------------------------
(***************************************************************************)
(* What LinxQueue promises to its callers, without its mutex, its          *)
(* condition variable and its eventfd: a bounded mailbox in which          *)
(*   - put, close and empty take effect at one instant;                    *)
(*   - a request is answered at one instant, with the oldest message that  *)
(*     passes its filter, and without a message only when none passes and  *)
(*     the request does not wait (it is immediate, the mailbox is closed,  *)
(*     or its time is up);                                                 *)
(*   - a request that can be answered, and goes on being answerable, is.   *)
(***************************************************************************)
EXTENDS Integers, LinxMessageFilter

CONSTANTS Clients, Messages, Requests, MaxSize, NoMessage, NoRequest

VARIABLES
  box,      \* the messages kept
  closed,
  phase,    \* "idle", "asking" or "answered"
  asked,    \* the request of each client
  answer    \* the message it was answered with

mboxVars == <<box, closed, phase, asked, answer>>

MailboxInit ==
  /\ box = <<>>
  /\ closed = FALSE
  /\ phase = [c \in Clients |-> "idle"]
  /\ asked = [c \in Clients |-> NoRequest]
  /\ answer = [c \in Clients |-> NoMessage]

HasRoom == MaxSize < 0 \/ Len(box) < MaxSize

\* Variant: the newest message is kept in front.
PutInFront(m) ==
  /\ HasRoom
  /\ box' = <<m>> \o box
  /\ UNCHANGED <<closed, phase, asked, answer>>

Put(m) ==
  /\ HasRoom
  /\ box' = Append(box, m)
  /\ UNCHANGED <<closed, phase, asked, answer>>

Ask(c, r) ==
  /\ phase[c] = "idle"
  /\ phase' = [phase EXCEPT ![c] = "asking"]
  /\ asked' = [asked EXCEPT ![c] = r]
  /\ UNCHANGED <<box, closed, answer>>

Take(c) ==
  /\ phase[c] = "asking"
  /\ LET i == FirstMatch(box, asked[c].filter)
     IN  /\ i # 0
         /\ answer' = [answer EXCEPT ![c] = box[i]]
         /\ box' = RemoveAt(box, i)
  /\ phase' = [phase EXCEPT ![c] = "answered"]
  /\ UNCHANGED <<closed, asked>>

\* Variant: the predicate ignores that the queue is stopped.
MissOnlyInTime(c) ==
  /\ phase[c] = "asking"
  /\ FirstMatch(box, asked[c].filter) = 0
  /\ asked[c].timeoutMs # -1
  /\ phase' = [phase EXCEPT ![c] = "answered"]
  /\ UNCHANGED <<box, closed, asked, answer>>

\* Time is not modelled: that of a request with a timeout may be up at any moment.
Miss(c) ==
  /\ phase[c] = "asking"
  /\ FirstMatch(box, asked[c].filter) = 0
  /\ closed \/ asked[c].timeoutMs # -1
  /\ phase' = [phase EXCEPT ![c] = "answered"]
  /\ UNCHANGED <<box, closed, asked, answer>>

Collect(c) ==
  /\ phase[c] = "answered"
  /\ phase' = [phase EXCEPT ![c] = "idle"]
  /\ asked' = [asked EXCEPT ![c] = NoRequest]
  /\ answer' = [answer EXCEPT ![c] = NoMessage]
  /\ UNCHANGED <<box, closed>>

CloseBox == box' = <<>> /\ closed' = TRUE /\ UNCHANGED <<phase, asked, answer>>
EmptyBox == box' = <<>> /\ UNCHANGED <<closed, phase, asked, answer>>

Reply(c) == Take(c) \/ Miss(c) \/ Collect(c)

MailboxNext ==
  \/ \E m \in Messages : Put(m)
  \/ \E c \in Clients : (\E r \in Requests : Ask(c, r)) \/ Reply(c)
  \/ CloseBox
  \/ EmptyBox

MailboxSpec == MailboxInit /\ [][MailboxNext]_mboxVars
MailboxFairSpec == MailboxSpec /\ \A c \in Clients : WF_mboxVars(Reply(c))
=============================================================================
