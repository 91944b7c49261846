-------------------------- MODULE LinxQueueProperties --------------------------
(***************************************************************************)
(* What must hold of LinxQueue.                                            *)
(***************************************************************************)
EXTENDS LinxQueue, FiniteSets

Labels == {"idle", "add", "writeEvent", "addUnlock", "addNotify", "get", "wait",
           "readEvent", "getUnlock", "stop", "stopEvents", "clear",
           "clearEvents", "closeUnlock"}

\* The type of every variable of the queue (LinxQueue.h) and of its callers.
TypeOK ==
  /\ queue \in Seq(Messages)
  /\ stopped \in BOOLEAN
  /\ efdOpen \in BOOLEAN
  /\ events \in Nat
  /\ mutex \in Threads \union {NoThread}
  /\ waiting \subseteq Threads
  /\ pc \in [Threads -> Labels]
  /\ request \in [Threads -> Requests \union {NoRequest}]
  /\ expired \in [Threads -> BOOLEAN]
  /\ msg \in [Threads -> Messages \union {NoMessage}]
  /\ accepted \in Seq(Messages)
  /\ received \subseteq Messages
  /\ dropped \subseteq Messages

\* Never more than max_size messages are kept, however many threads add()
\* (the test of size() in add()); a negative max_size is no bound at all.
Bounded == MaxSize >= 0 => Len(queue) <= MaxSize

At(label) == \E t \in Threads : pc[t] = label

\* The counter of the eventfd is the number of messages, except between a
\* change of the list and the read() or write() that follows it: a thread
\* that polls getPollFd() neither sleeps over a message nor spins over none.
EventsMirrorQueue ==
  LET counted == CASE At("writeEvent") -> Len(queue) - 1
                   [] At("readEvent")  -> Len(queue) + 1
                   [] OTHER            -> Len(queue)
  IN  IF ~efdOpen THEN events = 0
      ELSE IF At("stopEvents") \/ At("clearEvents") THEN queue = <<>>
      ELSE events = counted

\* No wakeup is lost: a receiver stays blocked on the condition variable
\* beside a message that passes its filter only while the add() that brought
\* it has yet to notify, and beside a stopped queue only while stop() has yet
\* to.  add() notifies after it has unlocked, stop() before.
NoLostWakeup ==
  \A t \in waiting :
    /\ findMessage(request[t].filter) # 0 =>
         At("writeEvent") \/ At("addUnlock") \/ At("addNotify")
    /\ stopped => At("stopEvents")

Holds(t, m) == msg[t] = m /\ pc[t] \in {"readEvent", "getUnlock"}

\* A message that add() accepted is, always, in exactly one place: once in the
\* list, with one thread about to return it, returned, or removed by stop() or
\* clear().  None vanishes in a timeout that races with its arrival, and none
\* is returned twice.
ExactlyOnce ==
  LET InList(m) == {i \in DOMAIN queue : queue[i] = m}
      Holders(m) == {t \in Threads : Holds(t, m)}
  IN  \A m \in Messages :
        Cardinality(InList(m)) + Cardinality(Holders(m))
          + (IF m \in received THEN 1 ELSE 0) + (IF m \in dropped THEN 1 ELSE 0)
        = (IF m \in ToSet(accepted) THEN 1 ELSE 0)

\* A receiver gets a message that passes its filter, and the oldest one: none
\* that was accepted earlier and passes too is still in the list.
OldestMatchFirst ==
  \A t \in Threads : \A i \in DOMAIN accepted :
    Holds(t, accepted[i]) =>
      /\ Matches(accepted[i], request[t].filter)
      /\ \A j \in 1..(i - 1) :
           Matches(accepted[j], request[t].filter) => accepted[j] \notin ToSet(queue)

\* A get() with a timeout comes back, whatever is added, stopped or taken by
\* others meanwhile.
TimedGetReturns ==
  \A t \in Getters :
    (pc[t] = "get" /\ request[t].timeoutMs # INFINITE_TIMEOUT) ~> (pc[t] = "idle")

\* How far a get() is, for its caller: it waits for its answer until it has
\* looked for the last time, and has it from then on.
Asking(t) == pc[t] \in {"get", "wait"}
Answered(t) == pc[t] \in {"readEvent", "getUnlock"}

mailboxPhase ==
  [t \in Getters |-> IF Asking(t) THEN "asking"
                     ELSE IF Answered(t) THEN "answered" ELSE "idle"]
mailboxAsked == [t \in Getters |-> request[t]]
mailboxAnswer == [t \in Getters |-> IF Answered(t) THEN msg[t] ELSE NoMessage]

Mailbox == INSTANCE LinxMailbox WITH
  Clients <- Getters, box <- queue, closed <- stopped,
  phase <- mailboxPhase, asked <- mailboxAsked, answer <- mailboxAnswer

\* The queue does what the mailbox promises, liveness included: every answer of
\* get() is one the mailbox could give at one instant, and a get() that can go
\* on being answered comes back.
ImplementsMailbox == Mailbox!MailboxFairSpec
=============================================================================
