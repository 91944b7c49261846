------------------------------- MODULE LinxServer -------------------------------
(***************************************************************************)
(* What GenericServer promises to whoever starts it, stops it and calls    *)
(* its receive(), without the system calls of its socket, the pings and    *)
(* the errors of receive():                                                *)
(*   - a message is taken from the socket once, and put into the queue or  *)
(*     discarded; what is lost never comes;                                *)
(*   - the worker tests the socket before it waits on it, so that after    *)
(*     the socket was closed it takes at most one message more;            *)
(*   - stop() closes the socket, then the queue, then joins the worker.    *)
(***************************************************************************)
EXTENDS LinxMailbox

VARIABLES
  open,      \* the member fd of the socket is a descriptor
  thread,    \* workerThread: "none" or "joinable"
  task,      \* where the worker is: "none", "receive", "waiting" inside receive(),
             \* "add", "exited"
  hand,      \* the message it holds
  coming     \* the messages that may still be taken

workerVars == <<open, thread, task, hand, coming>>
serverVars == <<mboxVars, workerVars>>

ServerInit ==
  /\ MailboxInit
  /\ open = TRUE
  /\ thread = "none"
  /\ task = "none"
  /\ hand = NoMessage
  /\ coming = Messages

-----------------------------------------------------------------------------
(* The worker *)

\* if (this->fd < 0) return -1
TaskCheck ==
  /\ task = "receive"
  /\ task' = IF open THEN "waiting" ELSE "exited"
  /\ UNCHANGED <<mboxVars, open, thread, hand, coming>>

TaskReceive(m) ==
  /\ task = "waiting" /\ m \in coming
  /\ hand' = m
  /\ coming' = coming \ {m}
  /\ task' = "add"
  /\ UNCHANGED <<mboxVars, open, thread>>

\* A ping does not leave the worker.
TaskPing ==
  /\ task = "waiting"
  /\ task' = "receive"
  /\ UNCHANGED <<mboxVars, open, thread, hand, coming>>

\* Closed or not, any error ends the worker; what receive() refuses is lost.
TaskExit ==
  /\ task = "waiting"
  /\ task' = "exited"
  /\ coming' \in SUBSET coming
  /\ UNCHANGED <<mboxVars, open, thread, hand>>

\* A message for which there is no room is discarded.
TaskAdd ==
  /\ task = "add"
  /\ Put(hand) \/ (~HasRoom /\ UNCHANGED mboxVars)
  /\ hand' = NoMessage
  /\ task' = "receive"
  /\ UNCHANGED <<open, thread, coming>>

\* The network, and the socket that is closed, lose datagrams.
Lose ==
  /\ coming' \in SUBSET coming
  /\ UNCHANGED <<mboxVars, open, thread, task, hand>>

Task ==
  \/ TaskCheck \/ TaskPing \/ TaskExit \/ TaskAdd
  \/ \E m \in Messages : TaskReceive(m)

-----------------------------------------------------------------------------
(* start() and stop() *)

StartWorker ==
  /\ thread = "none"
  /\ thread' = "joinable"
  /\ task' = "receive"
  /\ UNCHANGED <<mboxVars, open, hand, coming>>

CloseSocket ==
  /\ open' = FALSE
  /\ UNCHANGED <<mboxVars, thread, task, hand, coming>>

CloseQueue == CloseBox /\ UNCHANGED workerVars

Join ==
  /\ task = "exited"
  /\ thread' = "none"
  /\ task' = "none"
  /\ UNCHANGED <<mboxVars, open, hand, coming>>

Stop ==
  /\ thread = "joinable"
  /\ CloseSocket \/ (~open /\ CloseQueue) \/ (closed /\ Join)

-----------------------------------------------------------------------------

Receive(c) == (\E r \in Requests : Ask(c, r)) \/ Reply(c)

ServerNext ==
  \/ Task \/ Lose
  \/ StartWorker \/ Stop
  \/ \E c \in Clients : Receive(c) /\ UNCHANGED workerVars

ServerSpec == ServerInit /\ [][ServerNext]_serverVars
=============================================================================
