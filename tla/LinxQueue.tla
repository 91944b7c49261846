------------------------------- MODULE LinxQueue -------------------------------
(***************************************************************************)
(* LinxQueue: the bounded queue between the thread that reads the socket   *)
(* and the threads that call receive().  A mutex guards the list and the   *)
(* flag "stopped"; a condition variable wakes blocked receivers; a         *)
(* semaphore eventfd mirrors the length of the list for callers that poll. *)
(*                                                                         *)
(* Every operation runs as a sequence of steps of the calling thread.  The *)
(* mutex is taken in one step with the first thing done under it: nothing  *)
(* outside the mutex can tell the two apart.  The eventfd is not guarded   *)
(* for its readers, a poller sees every intermediate value, so each read() *)
(* and write() of it is a step.                                            *)
(***************************************************************************)
EXTENDS Integers, LinxMessageFilter

CONSTANTS
  Adders,    \* threads that call add()
  Getters,   \* threads that call get()
  Closers,   \* threads that call stop() or clear()
  Messages,  \* the messages, no two alike
  Requests,  \* the arguments get() is called with: timeoutMs and a filter
  MaxSize,   \* max_size, an int
  NoThread, NoMessage, NoRequest

Threads == Adders \union Getters \union Closers

IMMEDIATE_TIMEOUT == 0
INFINITE_TIMEOUT  == -1

ASSUME MaxSizeAssumption == MaxSize \in Int
ASSUME NoThreadAssumption == NoThread \notin Threads
ASSUME NoMessageAssumption == NoMessage \notin Messages
ASSUME RequestsAssumption ==
  /\ NoRequest \notin Requests
  /\ \A r \in Requests : r.timeoutMs \in Int

VARIABLES
  queue,     \* the list
  stopped,
  efdOpen,   \* whether eventfd() succeeded in the constructor
  events,    \* the counter of the eventfd
  mutex,     \* the owner of m_mutex
  waiting,   \* the threads blocked in m_cv that no notification has reached
  pc,        \* where each thread is
  request,   \* the arguments of a get() in progress
  expired,   \* whether the deadline of a get() in progress has passed
  msg,       \* the message a thread is adding, or has found
  accepted,  \* history: the messages add() took, in their order
  received,  \* history: the messages get() returned
  dropped    \* history: the messages stop() or clear() removed

vars == <<queue, stopped, efdOpen, events, mutex, waiting, pc, request,
          expired, msg, accepted, received, dropped>>

history == <<accepted, received, dropped>>

-----------------------------------------------------------------------------

Init ==
  /\ queue = <<>>
  /\ stopped = FALSE
  /\ efdOpen \in BOOLEAN
  /\ events = 0
  /\ mutex = NoThread
  /\ waiting = {}
  /\ pc = [t \in Threads |-> "idle"]
  /\ request = [t \in Threads |-> NoRequest]
  /\ expired = [t \in Threads |-> FALSE]
  /\ msg = [t \in Threads |-> NoMessage]
  /\ accepted = <<>>
  /\ received = {}
  /\ dropped = {}

Goto(t, label) == pc' = [pc EXCEPT ![t] = label]

Acquire(t) == mutex = NoThread /\ mutex' = t
Release == mutex' = NoThread

\* The comparison is between unsigned numbers: a negative max_size is a bound
\* that no list reaches.
HasRoom == MaxSize < 0 \/ Len(queue) < MaxSize

\* Variant: the list is searched from its end.
findNewest(filter) == SelectLastInSeq(queue, LAMBDA m : Matches(m, filter))

\* The index of the first message in the list that passes the filter, 0 for none.
findMessage(filter) == FirstMatch(queue, filter)

\* Variant: one waiting thread is notified, not all.
notify_one ==
  IF waiting = {} THEN waiting' = {} ELSE \E t \in waiting : waiting' = waiting \ {t}

notify_all == waiting' = {}

-----------------------------------------------------------------------------
(* int add(msg) *)

CallAdd(t, m) ==
  /\ pc[t] = "idle" /\ t \in Adders
  /\ m \notin ToSet(accepted) /\ \A u \in Threads : msg[u] # m
  /\ msg' = [msg EXCEPT ![t] = m]
  /\ Goto(t, "add")
  /\ UNCHANGED <<queue, stopped, efdOpen, events, mutex, waiting, request,
                 expired, history>>

AddPush(t) ==
  /\ pc[t] = "add"
  /\ Acquire(t)
  /\ HasRoom
  /\ queue' = Append(queue, msg[t])
  /\ accepted' = Append(accepted, msg[t])
  /\ msg' = [msg EXCEPT ![t] = NoMessage]
  /\ Goto(t, "writeEvent")
  /\ UNCHANGED <<stopped, efdOpen, events, waiting, request, expired,
                 received, dropped>>

\* The queue is full: result stays -1.
AddReject(t) ==
  /\ pc[t] = "add"
  /\ Acquire(t)
  /\ ~HasRoom
  /\ msg' = [msg EXCEPT ![t] = NoMessage]
  /\ Goto(t, "addUnlock")
  /\ UNCHANGED <<queue, stopped, efdOpen, events, waiting, request, expired,
                 history>>

\* The result of writeEvent is ignored; without a descriptor it does nothing.
WriteEvent(t) ==
  /\ pc[t] = "writeEvent"
  /\ events' = IF efdOpen THEN events + 1 ELSE events
  /\ Goto(t, "addUnlock")
  /\ UNCHANGED <<queue, stopped, efdOpen, mutex, waiting, request, expired,
                 msg, history>>

AddUnlock(t) ==
  /\ pc[t] = "addUnlock"
  /\ Release
  /\ Goto(t, "addNotify")
  /\ UNCHANGED <<queue, stopped, efdOpen, events, waiting, request, expired,
                 msg, history>>

AddNotify(t) ==
  /\ pc[t] = "addNotify"
  /\ notify_all
  /\ Goto(t, "idle")
  /\ UNCHANGED <<queue, stopped, efdOpen, events, mutex, request, expired,
                 msg, history>>

-----------------------------------------------------------------------------
(* get(timeoutMs, sigsel, from) *)

CallGet(t, r) ==
  /\ pc[t] = "idle" /\ t \in Getters
  /\ request' = [request EXCEPT ![t] = r]
  /\ Goto(t, "get")
  /\ UNCHANGED <<queue, stopped, efdOpen, events, mutex, waiting, expired,
                 msg, history>>

\* A thread that may evaluate the predicate: it enters get(), or it was woken.
Looking(t) == pc[t] = "get" \/ (pc[t] = "wait" /\ t \notin waiting)

\* Variant: the message is not erased from the list.
FindAndKeep(t) ==
  /\ Looking(t)
  /\ Acquire(t)
  /\ findMessage(request[t].filter) # 0
  /\ msg' = [msg EXCEPT ![t] = queue[findMessage(request[t].filter)]]
  /\ Goto(t, "readEvent")
  /\ UNCHANGED <<queue, stopped, efdOpen, events, waiting, request, expired,
                 history>>

\* The predicate finds a message and takes it out of the list.
FindMessage(t) ==
  /\ Looking(t)
  /\ Acquire(t)
  /\ LET i == findMessage(request[t].filter)
     IN  /\ i # 0
         /\ msg' = [msg EXCEPT ![t] = queue[i]]
         /\ queue' = RemoveAt(queue, i)
  /\ Goto(t, "readEvent")
  /\ UNCHANGED <<stopped, efdOpen, events, waiting, request, expired, history>>

\* Variant: the deadline does not end the wait.
FindNothingEver(t) ==
  /\ Looking(t)
  /\ Acquire(t)
  /\ findMessage(request[t].filter) = 0
  /\ request[t].timeoutMs = IMMEDIATE_TIMEOUT \/ stopped
  /\ Goto(t, "getUnlock")
  /\ UNCHANGED <<queue, stopped, efdOpen, events, waiting, request, expired,
                 msg, history>>

\* Nothing to take, and get() must not block any longer: getMessage() never
\* does, a wait ends when the queue is stopped, and wait_for returns what the
\* predicate said after the deadline.
FindNothing(t) ==
  /\ Looking(t)
  /\ Acquire(t)
  /\ findMessage(request[t].filter) = 0
  /\ request[t].timeoutMs = IMMEDIATE_TIMEOUT \/ stopped \/ expired[t]
  /\ Goto(t, "getUnlock")
  /\ UNCHANGED <<queue, stopped, efdOpen, events, waiting, request, expired,
                 msg, history>>

\* Nothing to take: the thread gives the mutex back and blocks, in one step.
Wait(t) ==
  /\ Looking(t)
  /\ mutex = NoThread
  /\ findMessage(request[t].filter) = 0
  /\ request[t].timeoutMs # IMMEDIATE_TIMEOUT /\ ~stopped /\ ~expired[t]
  /\ waiting' = waiting \union {t}
  /\ Goto(t, "wait")
  /\ UNCHANGED <<queue, stopped, efdOpen, events, mutex, request, expired,
                 msg, history>>

\* A condition variable may wake a thread for no reason.
SpuriousWake(t) ==
  /\ t \in waiting
  /\ waiting' = waiting \ {t}
  /\ UNCHANGED <<queue, stopped, efdOpen, events, mutex, pc, request, expired,
                 msg, history>>

\* The deadline of wait_for passes, whether or not a notification came first.
Expire(t) ==
  /\ pc[t] = "wait"
  /\ request[t].timeoutMs # INFINITE_TIMEOUT
  /\ ~expired[t]
  /\ expired' = [expired EXCEPT ![t] = TRUE]
  /\ waiting' = waiting \ {t}
  /\ UNCHANGED <<queue, stopped, efdOpen, events, mutex, pc, request, msg,
                 history>>

\* Variant: the eventfd is not read.
ReadNoEvent(t) ==
  /\ pc[t] = "readEvent"
  /\ Goto(t, "getUnlock")
  /\ UNCHANGED <<queue, stopped, efdOpen, events, mutex, waiting, request,
                 expired, msg, history>>

ReadEvent(t) ==
  /\ pc[t] = "readEvent"
  /\ events' = IF events > 0 THEN events - 1 ELSE events
  /\ Goto(t, "getUnlock")
  /\ UNCHANGED <<queue, stopped, efdOpen, mutex, waiting, request, expired,
                 msg, history>>

GetReturn(t) ==
  /\ pc[t] = "getUnlock"
  /\ Release
  /\ received' = received \union ({msg[t]} \ {NoMessage})
  /\ msg' = [msg EXCEPT ![t] = NoMessage]
  /\ request' = [request EXCEPT ![t] = NoRequest]
  /\ expired' = [expired EXCEPT ![t] = FALSE]
  /\ Goto(t, "idle")
  /\ UNCHANGED <<queue, stopped, efdOpen, events, waiting, accepted, dropped>>

-----------------------------------------------------------------------------
(* stop() and clear(); the destructor calls stop() *)

CallStop(t) ==
  /\ pc[t] = "idle" /\ t \in Closers
  /\ Goto(t, "stop")
  /\ UNCHANGED <<queue, stopped, efdOpen, events, mutex, waiting, request,
                 expired, msg, history>>

StopQueue(t) ==
  /\ pc[t] = "stop"
  /\ Acquire(t)
  /\ stopped' = TRUE
  /\ queue' = <<>>
  /\ dropped' = dropped \union ToSet(queue)
  /\ Goto(t, "stopEvents")
  /\ UNCHANGED <<efdOpen, events, waiting, request, expired, msg, accepted,
                 received>>

CallClear(t) ==
  /\ pc[t] = "idle" /\ t \in Closers
  /\ Goto(t, "clear")
  /\ UNCHANGED <<queue, stopped, efdOpen, events, mutex, waiting, request,
                 expired, msg, history>>

ClearQueue(t) ==
  /\ pc[t] = "clear"
  /\ Acquire(t)
  /\ queue' = <<>>
  /\ dropped' = dropped \union ToSet(queue)
  /\ Goto(t, "clearEvents")
  /\ UNCHANGED <<stopped, efdOpen, events, waiting, request, expired, msg,
                 accepted, received>>

\* Variant: clearEvents() does not look at the result of read().
ClearEventBlindly(t) ==
  /\ pc[t] \in {"stopEvents", "clearEvents"}
  /\ events' = events - 1
  /\ UNCHANGED <<queue, stopped, efdOpen, mutex, waiting, pc, request, expired,
                 msg, history>>

\* clearEvents() reads the eventfd, one event at a time, until a read fails.
ClearEvent(t) ==
  /\ pc[t] \in {"stopEvents", "clearEvents"}
  /\ events > 0
  /\ events' = events - 1
  /\ UNCHANGED <<queue, stopped, efdOpen, mutex, waiting, pc, request, expired,
                 msg, history>>

\* Variant: stop() notifies nobody.
StopSilently(t) ==
  /\ pc[t] = "stopEvents"
  /\ events = 0
  /\ Goto(t, "closeUnlock")
  /\ UNCHANGED <<queue, stopped, efdOpen, events, mutex, waiting, request,
                 expired, msg, history>>

\* No event is left: stop() notifies, then both return.
StopNotify(t) ==
  /\ pc[t] = "stopEvents"
  /\ events = 0
  /\ notify_all
  /\ Goto(t, "closeUnlock")
  /\ UNCHANGED <<queue, stopped, efdOpen, events, mutex, request, expired,
                 msg, history>>

ClearDone(t) ==
  /\ pc[t] = "clearEvents"
  /\ events = 0
  /\ Goto(t, "closeUnlock")
  /\ UNCHANGED <<queue, stopped, efdOpen, events, mutex, waiting, request,
                 expired, msg, history>>

CloseUnlock(t) ==
  /\ pc[t] = "closeUnlock"
  /\ Release
  /\ Goto(t, "idle")
  /\ UNCHANGED <<queue, stopped, efdOpen, events, waiting, request, expired,
                 msg, history>>

-----------------------------------------------------------------------------

\* The environment: which operations are called, and when.
Call(t) ==
  \/ \E m \in Messages : CallAdd(t, m)
  \/ \E r \in Requests : CallGet(t, r)
  \/ CallStop(t)
  \/ CallClear(t)

Add(t) == AddPush(t) \/ AddReject(t) \/ WriteEvent(t) \/ AddUnlock(t) \/ AddNotify(t)
Get(t) == FindMessage(t) \/ FindNothing(t) \/ Wait(t) \/ ReadEvent(t) \/ GetReturn(t)
Close(t) == StopQueue(t) \/ ClearQueue(t) \/ ClearEvent(t) \/ StopNotify(t)
              \/ ClearDone(t) \/ CloseUnlock(t)

Step(t) == Add(t) \/ Get(t) \/ Close(t)

Next == \E t \in Threads : Call(t) \/ Step(t) \/ SpuriousWake(t) \/ Expire(t)

Spec == Init /\ [][Next]_vars

(***************************************************************************)
(* A thread inside an operation keeps running and the mutex starves nobody *)
(* (strong fairness: a step that takes the mutex is enabled again and      *)
(* again, not always); time passes.  Nothing obliges a caller to call, or  *)
(* the condition variable to wake anybody without a notification.          *)
(***************************************************************************)
Fairness == \A t \in Threads : SF_vars(Step(t)) /\ WF_vars(Expire(t))

FairSpec == Spec /\ Fairness
=============================================================================
