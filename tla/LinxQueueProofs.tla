---------------------------- MODULE LinxQueueProofs ----------------------------
(***************************************************************************)
(* Theorems about LinxQueue, for any threads, messages, requests and size: *)
(* its types, its notifications, what becomes of a message, and that it    *)
(* implements LinxMailbox.                                                 *)
(***************************************************************************)
EXTENDS LinxQueueProperties, LinxMessageFilterProofs

-----------------------------------------------------------------------------
(* The inductive invariant                                                 *)

\* The labels of a thread that owns the mutex.
Critical == {"writeEvent", "addUnlock", "readEvent", "getUnlock", "stopEvents",
             "clearEvents", "closeUnlock"}

\* A thread is inside the critical section exactly when it owns the mutex.
OwnerInv == \A t \in Threads : mutex = t <=> pc[t] \in Critical

\* What the local variables of a thread hold where they are used.
LocalsInv ==
  \A t \in Threads :
    /\ pc[t] \in {"get", "wait", "readEvent", "getUnlock"} => request[t] \in Requests
    /\ pc[t] \in {"add", "readEvent"} => msg[t] \in Messages

WaitingInv == \A t \in waiting : pc[t] = "wait"

TypeInv == TypeOK /\ OwnerInv /\ LocalsInv /\ WaitingInv

LEMMA TypeInit == Init => TypeInv
<1> SUFFICES ASSUME Init PROVE TypeInv
  OBVIOUS
<1>1. TypeOK
  BY EmptySeq DEF Init, TypeOK, Labels
<1>2. OwnerInv
  BY NoThreadAssumption DEF Init, OwnerInv, Critical
<1>3. LocalsInv /\ WaitingInv
  BY DEF Init, LocalsInv, WaitingInv
<1> QED BY <1>1, <1>2, <1>3 DEF TypeInv

LEMMA TypeNext == TypeInv /\ [Next]_vars => TypeInv'
<1> SUFFICES ASSUME TypeInv, [Next]_vars PROVE TypeInv'
  OBVIOUS
<1> USE NoThreadAssumption
    DEF TypeInv, TypeOK, Labels, OwnerInv, LocalsInv, WaitingInv, Critical,
        Goto, Acquire, Release, notify_all, history
<1>1. CASE UNCHANGED vars
  BY <1>1 DEF vars
<1>2. ASSUME NEW t \in Threads, NEW m \in Messages, CallAdd(t, m)
      PROVE  TypeInv'
  BY <1>2 DEF CallAdd
<1>3. ASSUME NEW t \in Threads, NEW r \in Requests, CallGet(t, r)
      PROVE  TypeInv'
  BY <1>3 DEF CallGet
<1>4. ASSUME NEW t \in Threads, AddPush(t)
      PROVE  TypeInv'
  BY <1>4 DEF AddPush
<1>5. ASSUME NEW t \in Threads, AddReject(t)
      PROVE  TypeInv'
  BY <1>5 DEF AddReject
<1>6. ASSUME NEW t \in Threads, WriteEvent(t)
      PROVE  TypeInv'
  BY <1>6 DEF WriteEvent
<1>7. ASSUME NEW t \in Threads, AddUnlock(t)
      PROVE  TypeInv'
  BY <1>7 DEF AddUnlock
<1>8. ASSUME NEW t \in Threads, AddNotify(t)
      PROVE  TypeInv'
  BY <1>8 DEF AddNotify
<1>9. ASSUME NEW t \in Threads, FindMessage(t)
      PROVE  TypeInv'
  <2> DEFINE i == findMessage(request[t].filter)
  <2>1. /\ i # 0
        /\ msg' = [msg EXCEPT ![t] = queue[i]]
        /\ queue' = RemoveAt(queue, i)
    BY <1>9 DEF FindMessage
  <2>. i \in 1..Len(queue)
    BY <2>1, FirstMatchProperties DEF findMessage
  <2> HIDE DEF i
  <2>2. queue' \in Seq(Messages) /\ queue[i] \in Messages
    BY <2>1, RemoveAtProperties
  <2> QED BY <1>9, <2>1, <2>2 DEF FindMessage, Looking
<1>10. ASSUME NEW t \in Threads, FindNothing(t)
      PROVE  TypeInv'
  BY <1>10 DEF FindNothing, Looking
<1>11. ASSUME NEW t \in Threads, Wait(t)
      PROVE  TypeInv'
  BY <1>11 DEF Wait, Looking
<1>12. ASSUME NEW t \in Threads, ReadEvent(t)
      PROVE  TypeInv'
  BY <1>12 DEF ReadEvent
<1>13. ASSUME NEW t \in Threads, GetReturn(t)
      PROVE  TypeInv'
  BY <1>13 DEF GetReturn
<1>14. ASSUME NEW t \in Threads, StopQueue(t)
      PROVE  TypeInv'
  <2>1. ToSet(queue) \subseteq Messages /\ <<>> \in Seq(Messages)
    BY EmptySeq, ElementOfSeq DEF ToSet
  <2> QED BY <1>14, <2>1 DEF StopQueue
<1>15. ASSUME NEW t \in Threads, ClearQueue(t)
      PROVE  TypeInv'
  <2>1. ToSet(queue) \subseteq Messages /\ <<>> \in Seq(Messages)
    BY EmptySeq, ElementOfSeq DEF ToSet
  <2> QED BY <1>15, <2>1 DEF ClearQueue
<1>16. ASSUME NEW t \in Threads, ClearEvent(t)
      PROVE  TypeInv'
  BY <1>16 DEF ClearEvent
<1>17. ASSUME NEW t \in Threads, StopNotify(t)
      PROVE  TypeInv'
  BY <1>17 DEF StopNotify
<1>18. ASSUME NEW t \in Threads, ClearDone(t)
      PROVE  TypeInv'
  BY <1>18 DEF ClearDone
<1>19. ASSUME NEW t \in Threads, CloseUnlock(t)
      PROVE  TypeInv'
  BY <1>19 DEF CloseUnlock
<1>20. ASSUME NEW t \in Threads, CallStop(t)
      PROVE  TypeInv'
  BY <1>20 DEF CallStop
<1>21. ASSUME NEW t \in Threads, CallClear(t)
      PROVE  TypeInv'
  BY <1>21 DEF CallClear
<1>22. ASSUME NEW t \in Threads, SpuriousWake(t)
      PROVE  TypeInv'
  BY <1>22 DEF SpuriousWake
<1>23. ASSUME NEW t \in Threads, Expire(t)
      PROVE  TypeInv'
  BY <1>23 DEF Expire
<1> QED
  BY <1>1, <1>2, <1>3, <1>4, <1>5, <1>6, <1>7, <1>8, <1>9, <1>10, <1>11, <1>12, <1>13, <1>14, <1>15, <1>16, <1>17, <1>18, <1>19, <1>20, <1>21, <1>22, <1>23
  DEF Next, Call, Step, Add, Get, Close

-----------------------------------------------------------------------------
(* The eventfd and the length of the list                                  *)

\* EventsMirrorQueue, said of the thread that owns the mutex.
EventsInv ==
  /\ ~efdOpen => events = 0
  /\ efdOpen /\ mutex = NoThread => events = Len(queue)
  /\ \A t \in Threads : efdOpen =>
       /\ pc[t] = "writeEvent" => events = Len(queue) - 1
       /\ pc[t] = "readEvent" => events = Len(queue) + 1
       /\ pc[t] \in {"stopEvents", "clearEvents"} => queue = <<>>
       /\ pc[t] \in {"addUnlock", "getUnlock", "closeUnlock"} => events = Len(queue)

LEMMA EventsInit == Init => EventsInv /\ Bounded
BY EmptySeq, MaxSizeAssumption DEF Init, EventsInv, Bounded

LEMMA EventsNext ==
  TypeInv /\ EventsInv /\ Bounded /\ [Next]_vars => EventsInv' /\ Bounded'
<1> SUFFICES ASSUME TypeInv, EventsInv, Bounded, [Next]_vars
             PROVE  EventsInv' /\ Bounded'
  OBVIOUS
<1> USE NoThreadAssumption, MaxSizeAssumption
    DEF TypeInv, TypeOK, OwnerInv, WaitingInv, Critical, EventsInv, Bounded,
        Goto, Acquire, Release, HasRoom, history
<1>1. CASE UNCHANGED vars
  BY <1>1 DEF vars
<1>2. ASSUME NEW t \in Threads, NEW m \in Messages, CallAdd(t, m)
      PROVE  EventsInv' /\ Bounded'
  BY <1>2 DEF CallAdd
<1>3. ASSUME NEW t \in Threads, NEW r \in Requests, CallGet(t, r)
      PROVE  EventsInv' /\ Bounded'
  BY <1>3 DEF CallGet
<1>4. ASSUME NEW t \in Threads, AddPush(t)
      PROVE  EventsInv' /\ Bounded'
  <2>1. Len(queue') = Len(queue) + 1 /\ Len(queue) \in Nat
    BY <1>4 DEF AddPush
  <2> QED BY <1>4, <2>1 DEF AddPush
<1>5. ASSUME NEW t \in Threads, AddReject(t)
      PROVE  EventsInv' /\ Bounded'
  BY <1>5 DEF AddReject
<1>6. ASSUME NEW t \in Threads, WriteEvent(t)
      PROVE  EventsInv' /\ Bounded'
  BY <1>6 DEF WriteEvent
<1>7. ASSUME NEW t \in Threads, AddUnlock(t)
      PROVE  EventsInv' /\ Bounded'
  BY <1>7 DEF AddUnlock
<1>8. ASSUME NEW t \in Threads, AddNotify(t)
      PROVE  EventsInv' /\ Bounded'
  BY <1>8 DEF AddNotify
<1>9. ASSUME NEW t \in Threads, FindMessage(t)
      PROVE  EventsInv' /\ Bounded'
  <2> DEFINE i == findMessage(request[t].filter)
  <2>1. i # 0 /\ queue' = RemoveAt(queue, i)
    BY <1>9 DEF FindMessage
  <2>2. i \in 1..Len(queue)
    BY <2>1, FirstMatchProperties DEF findMessage
  <2> HIDE DEF i
  <2>3. Len(queue') = Len(queue) - 1 /\ Len(queue) \in Nat
    BY <2>1, <2>2, RemoveAtProperties
  <2> QED BY <1>9, <2>3 DEF FindMessage, Looking
<1>10. ASSUME NEW t \in Threads, FindNothing(t)
      PROVE  EventsInv' /\ Bounded'
  BY <1>10 DEF FindNothing, Looking
<1>11. ASSUME NEW t \in Threads, Wait(t)
      PROVE  EventsInv' /\ Bounded'
  BY <1>11 DEF Wait, Looking
<1>12. ASSUME NEW t \in Threads, ReadEvent(t)
      PROVE  EventsInv' /\ Bounded'
  BY <1>12 DEF ReadEvent
<1>13. ASSUME NEW t \in Threads, GetReturn(t)
      PROVE  EventsInv' /\ Bounded'
  BY <1>13 DEF GetReturn
<1>14. ASSUME NEW t \in Threads, StopQueue(t)
      PROVE  EventsInv' /\ Bounded'
  BY <1>14, EmptySeq DEF StopQueue
<1>15. ASSUME NEW t \in Threads, ClearQueue(t)
      PROVE  EventsInv' /\ Bounded'
  BY <1>15, EmptySeq DEF ClearQueue
<1>16. ASSUME NEW t \in Threads, ClearEvent(t)
      PROVE  EventsInv' /\ Bounded'
  BY <1>16 DEF ClearEvent
<1>17. ASSUME NEW t \in Threads, StopNotify(t)
      PROVE  EventsInv' /\ Bounded'
  BY <1>17, EmptySeq DEF StopNotify
<1>18. ASSUME NEW t \in Threads, ClearDone(t)
      PROVE  EventsInv' /\ Bounded'
  BY <1>18, EmptySeq DEF ClearDone
<1>19. ASSUME NEW t \in Threads, CloseUnlock(t)
      PROVE  EventsInv' /\ Bounded'
  BY <1>19 DEF CloseUnlock
<1>20. ASSUME NEW t \in Threads, CallStop(t)
      PROVE  EventsInv' /\ Bounded'
  BY <1>20 DEF CallStop
<1>21. ASSUME NEW t \in Threads, CallClear(t)
      PROVE  EventsInv' /\ Bounded'
  BY <1>21 DEF CallClear
<1>22. ASSUME NEW t \in Threads, SpuriousWake(t)
      PROVE  EventsInv' /\ Bounded'
  BY <1>22 DEF SpuriousWake
<1>23. ASSUME NEW t \in Threads, Expire(t)
      PROVE  EventsInv' /\ Bounded'
  BY <1>23 DEF Expire
<1> QED
  BY <1>1, <1>2, <1>3, <1>4, <1>5, <1>6, <1>7, <1>8, <1>9, <1>10, <1>11, <1>12,
     <1>13, <1>14, <1>15, <1>16, <1>17, <1>18, <1>19, <1>20, <1>21, <1>22,
     <1>23
  DEF Next, Call, Step, Add, Get, Close

-----------------------------------------------------------------------------
(* No wakeup is lost                                                       *)

\* Between taking a message in and notifying, in add().
Announcing == {"writeEvent", "addUnlock", "addNotify"}

\* NoLostWakeup, with the thread that is yet to notify named.
WakeupInv ==
  \A t \in waiting :
    /\ FirstMatch(queue, request[t].filter) # 0 =>
         \E u \in Threads : pc[u] \in Announcing
    /\ stopped => \E u \in Threads : pc[u] = "stopEvents"

\* Taking a message out of a list makes no other message pass.
LEMMA RemovalMakesNoMatch ==
  ASSUME NEW S, NEW s \in Seq(S), NEW i \in 1..Len(s), NEW filter,
         FirstMatch(s, filter) = 0
  PROVE  FirstMatch(RemoveAt(s, i), filter) = 0
<1>1. \A j \in 1..Len(s) : ~Matches(s[j], filter)
  BY FirstMatchProperties
<1>2. /\ RemoveAt(s, i) \in Seq(S)
      /\ Len(RemoveAt(s, i)) = Len(s) - 1
      /\ \A j \in 1..(Len(s) - 1) :
           RemoveAt(s, i)[j] = IF j < i THEN s[j] ELSE s[j + 1]
  BY RemoveAtProperties
<1>3. \A j \in 1..(Len(s) - 1) : j \in 1..Len(s) /\ j + 1 \in 1..Len(s)
  OBVIOUS
<1> DEFINE r == RemoveAt(s, i)
<1> HIDE DEF r
<1>4. r \in Seq(S) /\ \A j \in 1..Len(r) : ~Matches(r[j], filter)
  BY <1>1, <1>2, <1>3 DEF r
<1>5. FirstMatch(r, filter) = 0
  BY <1>4, FirstMatchProperties
<1> QED BY <1>5 DEF r

LEMMA EmptyHasNoMatch ==
  ASSUME NEW filter
  PROVE  FirstMatch(<<>>, filter) = 0
<1>1. <<>> \in Seq({}) /\ Len(<<>>) = 0
  BY EmptySeq
<1>2. FirstMatch(<<>>, filter) \in 0..Len(<<>>)
  BY <1>1, FirstMatchProperties, Zenon
<1> QED BY <1>1, <1>2

LEMMA WakeupInit == Init => WakeupInv
BY DEF Init, WakeupInv

LEMMA WakeupNext == TypeInv /\ WakeupInv /\ [Next]_vars => WakeupInv'
<1> SUFFICES ASSUME TypeInv, WakeupInv, [Next]_vars PROVE WakeupInv'
  OBVIOUS
<1> USE DEF TypeInv, TypeOK, OwnerInv, WaitingInv, WakeupInv, Announcing,
            Critical, Goto, Acquire, Release, notify_all, findMessage, history
<1>1. CASE UNCHANGED vars
  BY <1>1 DEF vars
<1>2. ASSUME NEW t \in Threads, NEW m \in Messages, CallAdd(t, m)
      PROVE  WakeupInv'
  BY <1>2 DEF CallAdd
<1>3. ASSUME NEW t \in Threads, NEW r \in Requests, CallGet(t, r)
      PROVE  WakeupInv'
  BY <1>3 DEF CallGet
<1>4. ASSUME NEW t \in Threads, AddPush(t)
      PROVE  WakeupInv'
  BY <1>4 DEF AddPush
<1>5. ASSUME NEW t \in Threads, AddReject(t)
      PROVE  WakeupInv'
  BY <1>5 DEF AddReject
<1>6. ASSUME NEW t \in Threads, WriteEvent(t)
      PROVE  WakeupInv'
  BY <1>6 DEF WriteEvent
<1>7. ASSUME NEW t \in Threads, AddUnlock(t)
      PROVE  WakeupInv'
  BY <1>7 DEF AddUnlock
<1>8. ASSUME NEW t \in Threads, AddNotify(t)
      PROVE  WakeupInv'
  BY <1>8 DEF AddNotify
<1>9. ASSUME NEW t \in Threads, FindMessage(t)
      PROVE  WakeupInv'
  <2>1. PICK i \in 1..Len(queue) : queue' = RemoveAt(queue, i)
    BY <1>9, FirstMatchProperties DEF FindMessage
  <2>2. \A filter : FirstMatch(queue, filter) = 0 => FirstMatch(queue', filter) = 0
    BY <2>1, RemovalMakesNoMatch
  <2> QED BY <1>9, <2>2 DEF FindMessage, Looking
<1>10. ASSUME NEW t \in Threads, FindNothing(t)
      PROVE  WakeupInv'
  BY <1>10 DEF FindNothing, Looking
<1>11. ASSUME NEW t \in Threads, Wait(t)
      PROVE  WakeupInv'
  BY <1>11 DEF Wait, Looking
<1>12. ASSUME NEW t \in Threads, ReadEvent(t)
      PROVE  WakeupInv'
  BY <1>12 DEF ReadEvent
<1>13. ASSUME NEW t \in Threads, GetReturn(t)
      PROVE  WakeupInv'
  BY <1>13 DEF GetReturn
<1>14. ASSUME NEW t \in Threads, StopQueue(t)
      PROVE  WakeupInv'
  BY <1>14, EmptyHasNoMatch DEF StopQueue
<1>15. ASSUME NEW t \in Threads, ClearQueue(t)
      PROVE  WakeupInv'
  BY <1>15, EmptyHasNoMatch DEF ClearQueue
<1>16. ASSUME NEW t \in Threads, ClearEvent(t)
      PROVE  WakeupInv'
  BY <1>16 DEF ClearEvent
<1>17. ASSUME NEW t \in Threads, StopNotify(t)
      PROVE  WakeupInv'
  BY <1>17 DEF StopNotify
<1>18. ASSUME NEW t \in Threads, ClearDone(t)
      PROVE  WakeupInv'
  BY <1>18 DEF ClearDone
<1>19. ASSUME NEW t \in Threads, CloseUnlock(t)
      PROVE  WakeupInv'
  BY <1>19 DEF CloseUnlock
<1>20. ASSUME NEW t \in Threads, CallStop(t)
      PROVE  WakeupInv'
  BY <1>20 DEF CallStop
<1>21. ASSUME NEW t \in Threads, CallClear(t)
      PROVE  WakeupInv'
  BY <1>21 DEF CallClear
<1>22. ASSUME NEW t \in Threads, SpuriousWake(t)
      PROVE  WakeupInv'
  BY <1>22 DEF SpuriousWake
<1>23. ASSUME NEW t \in Threads, Expire(t)
      PROVE  WakeupInv'
  BY <1>23 DEF Expire
<1> QED
  BY <1>1, <1>2, <1>3, <1>4, <1>5, <1>6, <1>7, <1>8, <1>9, <1>10, <1>11, <1>12,
     <1>13, <1>14, <1>15, <1>16, <1>17, <1>18, <1>19, <1>20, <1>21, <1>22,
     <1>23
  DEF Next, Call, Step, Add, Get, Close

-----------------------------------------------------------------------------
(* The theorems: the types, the eventfd, the notifications                 *)

QueueInv == TypeInv /\ EventsInv /\ Bounded /\ WakeupInv

LEMMA Invariance == Spec => []QueueInv
<1>1. Init => QueueInv
  BY TypeInit, EventsInit, WakeupInit DEF QueueInv
<1>2. QueueInv /\ [Next]_vars => QueueInv'
  BY TypeNext, EventsNext, WakeupNext DEF QueueInv
<1> QED BY <1>1, <1>2, PTL DEF Spec

\* Every variable of LinxQueue keeps its type, in every interleaving of add(),
\* get(), stop() and clear() by any threads.
THEOREM TypeCorrectness == Spec => []TypeOK
<1>1. QueueInv => TypeOK
  BY DEF QueueInv, TypeInv
<1> QED BY <1>1, Invariance, PTL

\* add() never lets the list grow beyond max_size, whatever threads add at once.
THEOREM QueueIsBounded == Spec => []Bounded
<1>1. QueueInv => Bounded
  BY DEF QueueInv
<1> QED BY <1>1, Invariance, PTL

\* The counter of the eventfd that getPollFd() hands out follows the length of
\* the list, up to the one step that separates them under the mutex.
THEOREM EventsFollowQueue == Spec => []EventsMirrorQueue
<1>1. QueueInv => EventsMirrorQueue
  <2> SUFFICES ASSUME QueueInv PROVE EventsMirrorQueue
    OBVIOUS
  <2> USE DEF QueueInv, TypeInv, OwnerInv, EventsInv, Critical
  <2>1. \A t, u \in Threads : pc[t] \in Critical /\ pc[u] \in Critical => t = u
    OBVIOUS
  <2>2. CASE mutex = NoThread
    BY <2>2, NoThreadAssumption DEF EventsMirrorQueue, At
  <2>3. CASE mutex # NoThread
    <3>1. mutex \in Threads /\ pc[mutex] \in Critical
      BY <2>3 DEF TypeOK
    <3>2. \A t \in Threads : pc[t] \in Critical => t = mutex
      BY <3>1, <2>1
    <3> QED BY <3>1, <3>2 DEF EventsMirrorQueue, At
  <2> QED BY <2>2, <2>3
<1> QED BY <1>1, Invariance, PTL

\* A receiver blocked in get() beside a message it wants, or in a stopped queue,
\* always has a notification on its way.
THEOREM WakeupsAreNotLost == Spec => []NoLostWakeup
<1>1. QueueInv => NoLostWakeup
  BY DEF QueueInv, WakeupInv, Announcing, NoLostWakeup, At, findMessage
<1> QED BY <1>1, Invariance, PTL

-----------------------------------------------------------------------------
(* The messages in the hands of threads                                    *)

Answering == {"readEvent", "getUnlock"}

\* Only an add() that has not looked yet and a get() that found a message have
\* one; no two threads have the same, and what is to be added is new.
HandsInv ==
  /\ \A t \in Threads : msg[t] # NoMessage => pc[t] = "add" \/ pc[t] \in Answering
  /\ \A t, u \in Threads : msg[t] # NoMessage /\ msg[t] = msg[u] => t = u
  /\ \A t \in Threads : pc[t] = "add" => msg[t] \notin ToSet(accepted)

\* The message that thread t is about to return from get().
Returning(t) == pc[t] \in Answering /\ msg[t] # NoMessage

\* The list is in the order of arrival, the places a message can be in are
\* disjoint, and every accepted message is in one.
FateInv ==
  /\ Injective(accepted)
  /\ InOrder(queue, accepted)
  /\ ToSet(queue) \union received \union dropped \subseteq ToSet(accepted)
  /\ \A t \in Threads : Returning(t) =>
       msg[t] \in ToSet(accepted) \ (ToSet(queue) \union received \union dropped)
  /\ ToSet(queue) \intersect received = {}
  /\ ToSet(queue) \intersect dropped = {}
  /\ received \intersect dropped = {}
  /\ \A m \in ToSet(accepted) :
       \/ m \in ToSet(queue) \union received \union dropped
       \/ \E t \in Threads : Returning(t) /\ msg[t] = m

\* What a thread is about to return passes its filter and arrived before all in
\* the list that pass too.
OldestInv ==
  \A t \in Threads : Returning(t) =>
    /\ Matches(msg[t], request[t].filter)
    /\ \A m \in ToSet(queue) :
         Matches(m, request[t].filter) => Earlier(accepted, msg[t], m)

MessagesInv == HandsInv /\ FateInv /\ OldestInv

LEMMA MessagesInit == Init => MessagesInv
<1> SUFFICES ASSUME Init PROVE MessagesInv
  OBVIOUS
<1>1. ToSet(queue) = {} /\ ToSet(accepted) = {} /\ InOrder(queue, accepted)
  BY EmptyKeeps DEF Init
<1>2. Injective(accepted)
  BY DEF Init, Injective
<1> QED BY <1>1, <1>2 DEF Init, MessagesInv, HandsInv, FateInv, OldestInv, Returning, Answering

-----------------------------------------------------------------------------
(* What a step does to the messages                                        *)

\* Everybody has what they had, for the same purpose.
HandsKept ==
  /\ msg' = msg
  /\ \A t \in Threads : msg[t] # NoMessage =>
       /\ request'[t] = request[t]
       /\ pc'[t] = "add" <=> pc[t] = "add"
       /\ pc'[t] \in Answering <=> pc[t] \in Answering
  /\ \A t \in Threads : pc'[t] = "add" => pc[t] = "add"

Quiet == HandsKept /\ UNCHANGED <<queue, history>>

Emptied ==
  /\ HandsKept
  /\ queue' = <<>>
  /\ dropped' = dropped \union ToSet(queue)
  /\ UNCHANGED <<accepted, received>>

LEMMA Effects ==
  TypeInv /\ HandsInv /\ [Next]_vars =>
    \/ Quiet
    \/ Emptied
    \/ \E t \in Threads : \/ \E m \in Messages : CallAdd(t, m)
                          \/ AddPush(t)
                          \/ AddReject(t)
                          \/ FindMessage(t)
                          \/ GetReturn(t)
<1> SUFFICES ASSUME TypeInv, HandsInv, [Next]_vars,
                    ~ \E t \in Threads : \/ \E m \in Messages : CallAdd(t, m)
                                         \/ AddPush(t)
                                         \/ AddReject(t)
                                         \/ FindMessage(t)
                                         \/ GetReturn(t)
             PROVE  Quiet \/ Emptied
  BY Zenon
<1> USE DEF TypeInv, TypeOK, LocalsInv, WaitingInv, HandsInv, Quiet, HandsKept, Answering,
            Goto, Acquire, Release, history
<1>1. CASE UNCHANGED vars
  BY <1>1 DEF vars
<1>2. ASSUME NEW t \in Threads, NEW r \in Requests, CallGet(t, r) PROVE Quiet
  BY <1>2 DEF CallGet
<1>3. ASSUME NEW t \in Threads, WriteEvent(t) \/ AddUnlock(t) \/ AddNotify(t) PROVE Quiet
  BY <1>3 DEF WriteEvent, AddUnlock, AddNotify
<1>4. ASSUME NEW t \in Threads, FindNothing(t) \/ Wait(t) PROVE Quiet
  BY <1>4 DEF FindNothing, Wait, Looking
<1>5. ASSUME NEW t \in Threads, ReadEvent(t) PROVE Quiet
  BY <1>5 DEF ReadEvent
<1>6. ASSUME NEW t \in Threads, StopQueue(t) \/ ClearQueue(t) PROVE Emptied
  BY <1>6 DEF StopQueue, ClearQueue, Emptied
<1>7. ASSUME NEW t \in Threads, CallStop(t) \/ CallClear(t) PROVE Quiet
  BY <1>7 DEF CallStop, CallClear
<1>8. ASSUME NEW t \in Threads,
             ClearEvent(t) \/ StopNotify(t) \/ ClearDone(t) \/ CloseUnlock(t)
      PROVE  Quiet
  BY <1>8 DEF ClearEvent, StopNotify, ClearDone, CloseUnlock
<1>9. ASSUME NEW t \in Threads, SpuriousWake(t) \/ Expire(t) PROVE Quiet
  BY <1>9 DEF SpuriousWake, Expire
<1> HIDE DEF Quiet
<1> QED BY <1>1, <1>2, <1>3, <1>4, <1>5, <1>6, <1>7, <1>8, <1>9
        DEF Next, Call, Step, Add, Get, Close

\* What AddPush does to the list and to the order of arrival.
LEMMA PushKeeps ==
  ASSUME TypeInv, MessagesInv, NEW t \in Threads, AddPush(t)
  PROVE  /\ msg[t] \in Messages \ ToSet(accepted)
         /\ ToSet(queue') = ToSet(queue) \union {msg[t]}
         /\ ToSet(accepted') = ToSet(accepted) \union {msg[t]}
         /\ Injective(accepted')
         /\ InOrder(queue', accepted')
         /\ \A x, y : Earlier(accepted, x, y) => Earlier(accepted', x, y)
         /\ \A x \in ToSet(accepted) : Earlier(accepted', x, msg[t])
<1> DEFINE m == msg[t]
<1>1. /\ m \in Messages \ ToSet(accepted)
      /\ queue \in Seq(Messages) /\ accepted \in Seq(Messages)
      /\ queue' = Append(queue, m) /\ accepted' = Append(accepted, m)
  BY DEF AddPush, TypeInv, TypeOK, LocalsInv, MessagesInv, HandsInv
<1> HIDE DEF m
<1>2. /\ Injective(accepted) /\ InOrder(queue, accepted)
      /\ ToSet(queue) \subseteq ToSet(accepted)
  BY DEF MessagesInv, FateInv
<1>3. /\ ToSet(queue') = ToSet(queue) \union {m}
      /\ ToSet(accepted') = ToSet(accepted) \union {m}
      /\ Injective(accepted')
      /\ \A x, y : Earlier(accepted, x, y) => Earlier(accepted', x, y)
      /\ \A x \in ToSet(accepted) : Earlier(accepted', x, m)
  BY <1>1, <1>2, AppendKeeps
<1>4. InOrder(queue, accepted')
  BY <1>2, <1>3 DEF InOrder
<1>5. InOrder(queue', accepted')
  BY <1>1, <1>2, <1>3, <1>4, AppendInOrder
<1> QED BY <1>1, <1>3, <1>5 DEF m

\* What FindMessage does to the list.
LEMMA FindKeeps ==
  ASSUME TypeInv, MessagesInv, NEW t \in Threads, FindMessage(t)
  PROVE  /\ msg'[t] \in ToSet(queue) \ {NoMessage}
         /\ ToSet(queue') = ToSet(queue) \ {msg'[t]}
         /\ InOrder(queue', accepted)
         /\ Matches(msg'[t], request[t].filter)
         /\ \A m \in ToSet(queue') :
              Matches(m, request[t].filter) => Earlier(accepted, msg'[t], m)
<1> DEFINE filter == request[t].filter
           i == FirstMatch(queue, filter)
<1>1. /\ i # 0 /\ queue \in Seq(Messages) /\ accepted \in Seq(Messages)
      /\ msg' = [msg EXCEPT ![t] = queue[i]] /\ msg \in [Threads -> Messages \union {NoMessage}]
      /\ queue' = RemoveAt(queue, i)
  BY DEF FindMessage, findMessage, TypeInv, TypeOK
<1>2. i \in 1..Len(queue) /\ DOMAIN queue = 1..Len(queue)
  BY <1>1, FirstMatchProperties
<1>3. /\ Matches(queue[i], filter)
      /\ \A j \in 1..Len(queue) : j < i => ~Matches(queue[j], filter)
  BY <1>1, FirstMatchIsFirst
<1> HIDE DEF i, filter
<1>4. InOrder(queue, accepted) /\ Injective(queue)
  BY <1>1, OrderedIsInjective DEF MessagesInv, FateInv
<1>5. ToSet(queue') = ToSet(queue) \ {queue[i]} /\ InOrder(queue', accepted)
  BY <1>1, <1>2, <1>4, RemoveKeeps
<1>6. msg'[t] = queue[i]
  BY <1>1
<1>7. queue[i] \in ToSet(queue) \ {NoMessage}
  BY <1>1, <1>2, NoMessageAssumption DEF ToSet
<1>8. ASSUME NEW m \in ToSet(queue'), Matches(m, filter)
      PROVE  Earlier(accepted, queue[i], m)
  <2>1. PICK j \in 1..Len(queue) : queue[j] = m /\ j # i
    BY <1>2, <1>5, <1>8 DEF ToSet
  <2>2. i < j
    BY <1>2, <1>3, <1>8, <2>1
  <2> QED BY <1>2, <1>4, <2>1, <2>2 DEF InOrder
<1> QED BY <1>3, <1>5, <1>6, <1>7, <1>8 DEF filter

-----------------------------------------------------------------------------
(* The invariant of the messages is inductive                              *)

LEMMA MessagesNext == TypeInv /\ MessagesInv /\ [Next]_vars => MessagesInv'
<1> SUFFICES ASSUME TypeInv, MessagesInv, [Next]_vars PROVE MessagesInv'
  OBVIOUS
<1> USE NoMessageAssumption DEF MessagesInv, HandsInv, Returning, Answering
<1>1. CASE Quiet
  BY <1>1 DEF Quiet, HandsKept, history, FateInv, OldestInv
<1>2. CASE Emptied
  <2>1. ToSet(queue') = {} /\ InOrder(queue', accepted')
    BY <1>2, EmptyKeeps DEF Emptied
  <2>2. HandsInv' /\ OldestInv'
    BY <1>2, <2>1 DEF Emptied, HandsKept, OldestInv
  <2>3. FateInv'
    BY <1>2, <2>1 DEF Emptied, HandsKept, FateInv
  <2> QED BY <2>2, <2>3
<1>3. ASSUME NEW t \in Threads, NEW m \in Messages, CallAdd(t, m) PROVE MessagesInv'
  <2>1. \A u \in Threads : Returning(u)' <=> Returning(u)
    BY <1>3 DEF CallAdd, Goto, TypeInv, TypeOK
  <2>2. HandsInv'
    BY <1>3 DEF CallAdd, Goto, TypeInv, TypeOK, history
  <2>3. \A u \in Threads : Returning(u) => msg'[u] = msg[u] /\ request'[u] = request[u]
    BY <1>3 DEF CallAdd, Goto, TypeInv, TypeOK
  <2>4. UNCHANGED <<queue, history>>
    BY <1>3 DEF CallAdd
  <2> HIDE DEF Returning
  <2>5. FateInv'
    BY <2>1, <2>3, <2>4 DEF FateInv, history
  <2>6. OldestInv'
    BY <2>1, <2>3, <2>4 DEF OldestInv, history
  <2> QED BY <2>2, <2>5, <2>6
<1>4. ASSUME NEW t \in Threads, AddPush(t) PROVE MessagesInv'
  <2>1. /\ msg' = [msg EXCEPT ![t] = NoMessage] /\ pc[t] = "add"
        /\ pc' = [pc EXCEPT ![t] = "writeEvent"]
        /\ UNCHANGED <<request, received, dropped>>
        /\ msg \in [Threads -> Messages \union {NoMessage}] /\ pc \in [Threads -> Labels]
    BY <1>4 DEF AddPush, Goto, TypeInv, TypeOK
  <2>2. HandsInv'
    BY <1>4, <2>1, PushKeeps
  <2>3. \A u \in Threads : /\ Returning(u)' <=> Returning(u)
                           /\ Returning(u) => msg'[u] = msg[u] /\ msg[u] # msg[t]
    BY <1>4, <2>1, PushKeeps
  <2> HIDE DEF Returning
  <2>4. FateInv'
    BY <1>4, <2>1, <2>3, PushKeeps DEF FateInv
  <2>5. OldestInv'
    BY <1>4, <2>1, <2>3, PushKeeps DEF OldestInv, FateInv
  <2> QED BY <2>2, <2>4, <2>5
<1>5. ASSUME NEW t \in Threads, AddReject(t) PROVE MessagesInv'
  <2>1. /\ msg' = [msg EXCEPT ![t] = NoMessage] /\ pc[t] = "add"
        /\ pc' = [pc EXCEPT ![t] = "addUnlock"]
        /\ UNCHANGED <<queue, request, accepted, received, dropped>>
        /\ msg \in [Threads -> Messages \union {NoMessage}] /\ pc \in [Threads -> Labels]
    BY <1>5 DEF AddReject, Goto, TypeInv, TypeOK, history
  <2>2. HandsInv'
    BY <2>1
  <2>3. \A u \in Threads : /\ Returning(u)' <=> Returning(u)
                           /\ Returning(u) => msg'[u] = msg[u]
    BY <2>1
  <2> HIDE DEF Returning
  <2>4. FateInv'
    BY <2>1, <2>3 DEF FateInv
  <2>5. OldestInv'
    BY <2>1, <2>3 DEF OldestInv
  <2> QED BY <2>2, <2>4, <2>5
<1>6. ASSUME NEW t \in Threads, FindMessage(t) PROVE MessagesInv'
  <2>1. /\ pc' = [pc EXCEPT ![t] = "readEvent"] /\ pc[t] \in {"get", "wait"}
        /\ \A u \in Threads : u # t => msg'[u] = msg[u]
        /\ UNCHANGED <<request, accepted, received, dropped>>
        /\ pc \in [Threads -> Labels]
    BY <1>6 DEF FindMessage, Looking, Goto, TypeInv, TypeOK, history
  <2>2. msg[t] = NoMessage /\ Returning(t)'
    BY <1>6, <2>1, FindKeeps
  <2>3. \A u \in Threads : u # t => /\ Returning(u)' <=> Returning(u)
                                    /\ Returning(u) => msg[u] # msg'[t]
    BY <1>6, <2>1, FindKeeps DEF FateInv
  <2>4. msg'[t] \in ToSet(accepted) \ (received \union dropped)
    BY <1>6, FindKeeps DEF FateInv
  <2>5. \A u \in Threads : msg[u] = msg'[t] => u = t
    BY <1>6, <2>2, <2>4, FindKeeps DEF FateInv
  <2>6. HandsInv'
    BY <2>1, <2>5
  <2> HIDE DEF Returning
  <2>7. FateInv'
    <3>1. ASSUME NEW m \in ToSet(accepted)'
          PROVE  \/ m \in (ToSet(queue) \union received \union dropped)'
                 \/ \E u \in Threads : Returning(u)' /\ msg'[u] = m
      <4>1. CASE m = msg'[t]
        BY <2>2, <4>1
      <4>2. CASE m # msg'[t]
        BY <1>6, <2>1, <2>2, <2>3, <4>2, FindKeeps DEF FateInv, Returning
      <4> QED BY <4>1, <4>2
    <3> QED BY <1>6, <2>1, <2>2, <2>3, <2>4, <3>1, FindKeeps DEF FateInv
  <2>8. OldestInv'
    BY <1>6, <2>1, <2>2, <2>3, FindKeeps DEF OldestInv
  <2> QED BY <2>6, <2>7, <2>8
<1>7. ASSUME NEW t \in Threads, GetReturn(t) PROVE MessagesInv'
  <2>1. /\ msg' = [msg EXCEPT ![t] = NoMessage] /\ pc[t] = "getUnlock"
        /\ pc' = [pc EXCEPT ![t] = "idle"]
        /\ \A u \in Threads : u # t => request'[u] = request[u]
        /\ received' = received \union ({msg[t]} \ {NoMessage})
        /\ UNCHANGED <<queue, accepted, dropped>>
        /\ msg \in [Threads -> Messages \union {NoMessage}] /\ pc \in [Threads -> Labels]
    BY <1>7 DEF GetReturn, Goto, TypeInv, TypeOK
  <2>2. HandsInv'
    BY <2>1
  <2>3. \A u \in Threads : /\ Returning(u)' <=> Returning(u) /\ u # t
                           /\ u # t => msg'[u] = msg[u] /\ request'[u] = request[u]
    BY <2>1
  <2>4. \A u \in Threads : Returning(u) /\ u # t => msg[u] # msg[t]
    OBVIOUS
  <2>5. msg[t] # NoMessage => Returning(t)
    BY <2>1
  <2> HIDE DEF Returning
  <2>6. FateInv'
    <3>1. msg[t] # NoMessage => msg[t] \in ToSet(accepted) \ (ToSet(queue) \union dropped)
      BY <2>5 DEF FateInv
    <3>2. ASSUME NEW u \in Threads, Returning(u)'
          PROVE  msg'[u] \in (ToSet(accepted) \ (ToSet(queue) \union received \union dropped))'
      BY <2>1, <2>3, <2>4, <3>2 DEF FateInv
    <3>3. ASSUME NEW m \in ToSet(accepted)'
          PROVE  \/ m \in (ToSet(queue) \union received \union dropped)'
                 \/ \E u \in Threads : Returning(u)' /\ msg'[u] = m
      <4>1. CASE m \in received'
        BY <4>1
      <4>2. CASE m \in ToSet(queue) \union dropped
        BY <2>1, <4>2
      <4>3. CASE m \notin received' \union ToSet(queue) \union dropped
        <5>1. PICK u \in Threads : Returning(u) /\ msg[u] = m
          BY <2>1, <4>3 DEF FateInv
        <5>2. u # t
          BY <2>1, <4>3, <5>1 DEF Returning
        <5> QED BY <2>3, <5>1, <5>2
      <4> QED BY <4>1, <4>2, <4>3
    <3> QED BY <2>1, <3>1, <3>2, <3>3 DEF FateInv
  <2>7. OldestInv'
    BY <2>1, <2>3 DEF OldestInv
  <2> QED BY <2>2, <2>6, <2>7
<1> HIDE DEF MessagesInv
<1> QED BY <1>1, <1>2, <1>3, <1>4, <1>5, <1>6, <1>7, Effects DEF MessagesInv

LEMMA MessagesAreKept == Spec => [](TypeInv /\ MessagesInv)
<1>1. Init => TypeInv /\ MessagesInv
  BY TypeInit, MessagesInit
<1>2. TypeInv /\ MessagesInv /\ [Next]_vars => (TypeInv /\ MessagesInv)'
  BY TypeNext, MessagesNext
<1> QED BY <1>1, <1>2, PTL DEF Spec

-----------------------------------------------------------------------------
(* The theorems: what becomes of a message                                 *)

\* A message that add() took is once in the list, with one thread that returns
\* it from get(), returned, or removed by stop() or clear(): never nowhere and
\* never in two places, whoever waits, times out or is woken for nothing.
THEOREM EachMessageOnce == Spec => []ExactlyOnce
<1>1. TypeInv /\ MessagesInv => ExactlyOnce
  <2> SUFFICES ASSUME TypeInv, MessagesInv, NEW m \in Messages
               PROVE  Cardinality({i \in DOMAIN queue : queue[i] = m})
                        + Cardinality({t \in Threads : Holds(t, m)})
                        + (IF m \in received THEN 1 ELSE 0) + (IF m \in dropped THEN 1 ELSE 0)
                      = (IF m \in ToSet(accepted) THEN 1 ELSE 0)
    BY DEF ExactlyOnce
  <2> DEFINE holders == {t \in Threads : Holds(t, m)}
  <2>1. Cardinality({i \in DOMAIN queue : queue[i] = m}) = IF m \in ToSet(queue) THEN 1 ELSE 0
    BY OrderedIsInjective, CopiesOf DEF TypeInv, TypeOK, MessagesInv, FateInv
  <2>2. \A t \in holders : Returning(t) /\ msg[t] = m
    BY NoMessageAssumption DEF Holds, Returning, Answering
  <2>3. Cardinality(holders) = IF holders = {} THEN 0 ELSE 1
    <3>1. CASE holders = {}
      BY <3>1, FS_EmptySet
    <3>2. CASE holders # {}
      <4>1. PICK t \in holders : holders = {t}
        BY <2>2, <3>2 DEF MessagesInv, HandsInv, Returning
      <4> QED BY <3>2, <4>1, FS_Singleton
    <3> QED BY <3>1, <3>2
  <2>4. holders # {} => m \in ToSet(accepted) \ (ToSet(queue) \union received \union dropped)
    BY <2>2 DEF MessagesInv, FateInv
  <2>5. m \in ToSet(accepted) \ (ToSet(queue) \union received \union dropped) => holders # {}
    BY DEF MessagesInv, FateInv, Holds, Returning, Answering
  <2> HIDE DEF holders
  <2>6. /\ ToSet(queue) \union received \union dropped \subseteq ToSet(accepted)
        /\ ToSet(queue) \intersect received = {}
        /\ ToSet(queue) \intersect dropped = {}
        /\ received \intersect dropped = {}
    BY DEF MessagesInv, FateInv
  <2> QED BY <2>1, <2>3, <2>4, <2>5, <2>6 DEF holders
<1> QED BY <1>1, MessagesAreKept, PTL

\* The message get() takes out of the list passes the filter and is the oldest
\* that does, among all that add() ever took.
THEOREM OldestIsTaken == Spec => []OldestMatchFirst
<1>1. TypeInv /\ MessagesInv => OldestMatchFirst
  <2> SUFFICES ASSUME TypeInv, MessagesInv, NEW t \in Threads, NEW i \in DOMAIN accepted,
                      Holds(t, accepted[i])
               PROVE  /\ Matches(accepted[i], request[t].filter)
                      /\ \A j \in 1..(i - 1) :
                           Matches(accepted[j], request[t].filter) =>
                             accepted[j] \notin ToSet(queue)
    BY DEF OldestMatchFirst
  <2>1. accepted \in Seq(Messages) /\ DOMAIN accepted = 1..Len(accepted)
    BY DEF TypeInv, TypeOK
  <2>2. Returning(t) /\ msg[t] = accepted[i]
    BY <2>1, NoMessageAssumption DEF Holds, Returning, Answering
  <2>3. ASSUME NEW j \in 1..(i - 1), Matches(accepted[j], request[t].filter),
               accepted[j] \in ToSet(queue)
        PROVE  FALSE
    <3>1. Earlier(accepted, accepted[i], accepted[j])
      BY <2>2, <2>3 DEF MessagesInv, OldestInv
    <3>2. j \in DOMAIN accepted /\ j < i
      BY <2>1, <2>3
    <3>3. Earlier(accepted, accepted[j], accepted[i])
      BY <3>2 DEF Earlier
    <3> QED BY <2>1, <3>1, <3>3, EarlierIsStrict DEF MessagesInv, FateInv
  <2> QED BY <2>2, <2>3 DEF MessagesInv, OldestInv
<1> QED BY <1>1, MessagesAreKept, PTL

-----------------------------------------------------------------------------
(* The operators of the mailbox                                            *)

\* The instance has its own copies of the operators it extends.
LEMMA SameOperators ==
  /\ \A s, f : Mailbox!FirstMatch(s, f) = FirstMatch(s, f)
  /\ \A s, i : Mailbox!RemoveAt(s, i) = RemoveAt(s, i)
BY DEF Mailbox!FirstMatch, Mailbox!SelectInSeq, Mailbox!Min, Mailbox!Matches,
       Mailbox!matchesFrom, Mailbox!matchesSignalSelector, Mailbox!SameIdentifier,
       Mailbox!isEqual, Mailbox!AnyFrom, Mailbox!RemoveAt,
       FirstMatch, SelectInSeq, Min, Matches, matchesFrom, matchesSignalSelector,
       SameIdentifier, isEqual, AnyFrom, RemoveAt

-----------------------------------------------------------------------------
(* The callers' side of the queue                                         *)

Receiving == {"get", "wait", "readEvent", "getUnlock"}

\* Only a get() in progress has a request, and one that never times out has no
\* deadline; a message is held by an add() that has not placed it yet, or by a
\* get() that has found it.
CallersInv ==
  \A t \in Threads :
    /\ pc[t] \in Receiving => t \in Getters
    /\ pc[t] \notin Receiving => request[t] = NoRequest
    /\ expired[t] => pc[t] \in Receiving /\ request[t].timeoutMs # INFINITE_TIMEOUT
    /\ pc[t] \notin {"add", "readEvent", "getUnlock"} => msg[t] = NoMessage

LEMMA CallersInit == Init => CallersInv
BY DEF Init, CallersInv, Receiving

LEMMA CallersNext == TypeInv /\ CallersInv /\ [Next]_vars => CallersInv'
<1> SUFFICES ASSUME TypeInv, CallersInv, [Next]_vars PROVE CallersInv'
  OBVIOUS
<1> USE DEF TypeInv, TypeOK, Labels, WaitingInv, CallersInv, Receiving, Goto,
            Looking, history
<1>1. CASE UNCHANGED vars
  BY <1>1 DEF vars
<1>2. ASSUME NEW t \in Threads, NEW m \in Messages, CallAdd(t, m)
      PROVE  CallersInv'
  BY <1>2 DEF CallAdd
<1>3. ASSUME NEW t \in Threads, NEW r \in Requests, CallGet(t, r)
      PROVE  CallersInv'
  BY <1>3 DEF CallGet
<1>4. ASSUME NEW t \in Threads, AddPush(t)
      PROVE  CallersInv'
  BY <1>4 DEF AddPush
<1>5. ASSUME NEW t \in Threads, AddReject(t)
      PROVE  CallersInv'
  BY <1>5 DEF AddReject
<1>6. ASSUME NEW t \in Threads, WriteEvent(t)
      PROVE  CallersInv'
  BY <1>6 DEF WriteEvent
<1>7. ASSUME NEW t \in Threads, AddUnlock(t)
      PROVE  CallersInv'
  BY <1>7 DEF AddUnlock
<1>8. ASSUME NEW t \in Threads, AddNotify(t)
      PROVE  CallersInv'
  BY <1>8 DEF AddNotify
<1>9. ASSUME NEW t \in Threads, FindMessage(t)
      PROVE  CallersInv'
  BY <1>9 DEF FindMessage
<1>10. ASSUME NEW t \in Threads, FindNothing(t)
      PROVE  CallersInv'
  BY <1>10 DEF FindNothing
<1>11. ASSUME NEW t \in Threads, Wait(t)
      PROVE  CallersInv'
  BY <1>11 DEF Wait
<1>12. ASSUME NEW t \in Threads, ReadEvent(t)
      PROVE  CallersInv'
  BY <1>12 DEF ReadEvent
<1>13. ASSUME NEW t \in Threads, GetReturn(t)
      PROVE  CallersInv'
  BY <1>13 DEF GetReturn
<1>14. ASSUME NEW t \in Threads, StopQueue(t)
      PROVE  CallersInv'
  BY <1>14 DEF StopQueue
<1>15. ASSUME NEW t \in Threads, ClearQueue(t)
      PROVE  CallersInv'
  BY <1>15 DEF ClearQueue
<1>16. ASSUME NEW t \in Threads, ClearEvent(t)
      PROVE  CallersInv'
  BY <1>16 DEF ClearEvent
<1>17. ASSUME NEW t \in Threads, StopNotify(t)
      PROVE  CallersInv'
  BY <1>17 DEF StopNotify
<1>18. ASSUME NEW t \in Threads, ClearDone(t)
      PROVE  CallersInv'
  BY <1>18 DEF ClearDone
<1>19. ASSUME NEW t \in Threads, CloseUnlock(t)
      PROVE  CallersInv'
  BY <1>19 DEF CloseUnlock
<1>20. ASSUME NEW t \in Threads, CallStop(t)
      PROVE  CallersInv'
  BY <1>20 DEF CallStop
<1>21. ASSUME NEW t \in Threads, CallClear(t)
      PROVE  CallersInv'
  BY <1>21 DEF CallClear
<1>22. ASSUME NEW t \in Threads, SpuriousWake(t)
      PROVE  CallersInv'
  BY <1>22 DEF SpuriousWake
<1>23. ASSUME NEW t \in Threads, Expire(t)
      PROVE  CallersInv'
  BY <1>23 DEF Expire
<1> QED
  BY <1>1, <1>2, <1>3, <1>4, <1>5, <1>6, <1>7, <1>8, <1>9, <1>10, <1>11, <1>12,
     <1>13, <1>14, <1>15, <1>16, <1>17, <1>18, <1>19, <1>20, <1>21, <1>22, <1>23
  DEF Next, Call, Step, Add, Get, Close

-----------------------------------------------------------------------------
(* The refinement                                                          *)

LEMMA MailboxStarts == Init => Mailbox!MailboxInit
BY DEF Init, Mailbox!MailboxInit, mailboxPhase, mailboxAsked, mailboxAnswer,
       Asking, Answered, Threads

\* The action of the mailbox that each step of the queue is; the steps that are
\* not named leave the mailbox as it is.
LEMMA MailboxSteps ==
  TypeInv /\ CallersInv /\ [Next]_vars => [Mailbox!MailboxNext]_(Mailbox!mboxVars)
<1> SUFFICES ASSUME TypeInv, CallersInv, [Next]_vars
             PROVE  [Mailbox!MailboxNext]_(Mailbox!mboxVars)
  OBVIOUS
<1> USE DEF TypeInv, TypeOK, LocalsInv, WaitingInv, CallersInv, Receiving, Threads, Goto,
            history, mailboxPhase, mailboxAsked, mailboxAnswer, Asking, Answered
<1>1. CASE UNCHANGED vars
  BY <1>1 DEF vars, Mailbox!mboxVars
<1>2. ASSUME NEW t \in Threads, NEW m \in Messages, CallAdd(t, m)
      PROVE  [Mailbox!MailboxNext]_(Mailbox!mboxVars)
  BY <1>2 DEF CallAdd, Mailbox!mboxVars
<1>3. ASSUME NEW t \in Threads, NEW r \in Requests, CallGet(t, r)
      PROVE  [Mailbox!MailboxNext]_(Mailbox!mboxVars)
  <2>1. Mailbox!Ask(t, r)
    BY <1>3 DEF CallGet, Mailbox!Ask
  <2>2. t \in Getters
    BY <1>3 DEF CallGet
  <2> QED BY <2>1, <2>2 DEF Mailbox!MailboxNext
<1>4. ASSUME NEW t \in Threads, AddPush(t)
      PROVE  [Mailbox!MailboxNext]_(Mailbox!mboxVars)
  <2>1. Mailbox!Put(msg[t])
    BY <1>4 DEF AddPush, HasRoom, Mailbox!Put, Mailbox!HasRoom
  <2>2. msg[t] \in Messages
    BY <1>4 DEF AddPush
  <2> QED BY <2>1, <2>2 DEF Mailbox!MailboxNext
<1>5. ASSUME NEW t \in Threads, AddReject(t)
      PROVE  [Mailbox!MailboxNext]_(Mailbox!mboxVars)
  BY <1>5 DEF AddReject, Mailbox!mboxVars
<1>6. ASSUME NEW t \in Threads, WriteEvent(t)
      PROVE  [Mailbox!MailboxNext]_(Mailbox!mboxVars)
  BY <1>6 DEF WriteEvent, Mailbox!mboxVars
<1>7. ASSUME NEW t \in Threads, AddUnlock(t)
      PROVE  [Mailbox!MailboxNext]_(Mailbox!mboxVars)
  BY <1>7 DEF AddUnlock, Mailbox!mboxVars
<1>8. ASSUME NEW t \in Threads, AddNotify(t)
      PROVE  [Mailbox!MailboxNext]_(Mailbox!mboxVars)
  BY <1>8 DEF AddNotify, Mailbox!mboxVars
<1>9. ASSUME NEW t \in Threads, FindMessage(t)
      PROVE  [Mailbox!MailboxNext]_(Mailbox!mboxVars)
  <2>1. t \in Getters /\ pc[t] \in {"get", "wait"}
    BY <1>9 DEF FindMessage, Looking
  <2>2. mailboxAsked[t] = request[t] /\ mailboxPhase[t] = "asking"
    BY <2>1
  <2>3. mailboxPhase' = [mailboxPhase EXCEPT ![t] = "answered"]
    BY <1>9, <2>1 DEF FindMessage
  <2>4. mailboxAsked' = mailboxAsked /\ stopped' = stopped
    BY <1>9 DEF FindMessage
  <2> DEFINE i == FirstMatch(queue, request[t].filter)
  <2>5. i # 0 /\ queue' = RemoveAt(queue, i) /\ msg' = [msg EXCEPT ![t] = queue[i]]
    BY <1>9 DEF FindMessage, findMessage
  <2> HIDE DEF i
  <2>6. mailboxAnswer' = [mailboxAnswer EXCEPT ![t] = queue[i]]
    BY <1>9, <2>1, <2>5 DEF FindMessage
  <2>7. Mailbox!FirstMatch(queue, mailboxAsked[t].filter) = i
    BY <2>2, SameOperators, Zenon DEF i
  <2>8. Mailbox!RemoveAt(queue, i) = RemoveAt(queue, i)
    BY SameOperators, Zenon
  <2> HIDE DEF mailboxPhase, mailboxAsked, mailboxAnswer
  <2>9. Mailbox!Take(t)
    BY <2>2, <2>3, <2>4, <2>5, <2>6, <2>7, <2>8 DEF Mailbox!Take
  <2> QED BY <2>1, <2>9 DEF Mailbox!MailboxNext, Mailbox!Reply
<1>10. ASSUME NEW t \in Threads, FindNothing(t)
      PROVE  [Mailbox!MailboxNext]_(Mailbox!mboxVars)
  <2>1. t \in Getters /\ pc[t] \in {"get", "wait"} /\ msg[t] = NoMessage
    BY <1>10 DEF FindNothing, Looking
  <2>2. mailboxAsked[t] = request[t] /\ mailboxPhase[t] = "asking"
    BY <2>1
  <2>3. mailboxPhase' = [mailboxPhase EXCEPT ![t] = "answered"]
    BY <1>10, <2>1 DEF FindNothing
  <2>4. mailboxAsked' = mailboxAsked /\ mailboxAnswer' = mailboxAnswer
    BY <1>10, <2>1 DEF FindNothing
  <2>5. Mailbox!FirstMatch(queue, mailboxAsked[t].filter) = 0
    <3>1. FirstMatch(queue, request[t].filter) = 0
      BY <1>10 DEF FindNothing, findMessage
    <3> QED BY <3>1, <2>2, SameOperators, Zenon
  <2>6. stopped \/ mailboxAsked[t].timeoutMs # -1
    BY <1>10, <2>1, <2>2 DEF FindNothing, IMMEDIATE_TIMEOUT, INFINITE_TIMEOUT
  <2>7. queue' = queue /\ stopped' = stopped
    BY <1>10 DEF FindNothing
  <2> HIDE DEF mailboxPhase, mailboxAsked, mailboxAnswer
  <2>8. Mailbox!Miss(t)
    BY <2>2, <2>3, <2>4, <2>5, <2>6, <2>7 DEF Mailbox!Miss
  <2> QED BY <2>1, <2>8 DEF Mailbox!MailboxNext, Mailbox!Reply
<1>11. ASSUME NEW t \in Threads, Wait(t)
      PROVE  [Mailbox!MailboxNext]_(Mailbox!mboxVars)
  BY <1>11 DEF Wait, Looking, Mailbox!mboxVars
<1>12. ASSUME NEW t \in Threads, ReadEvent(t)
      PROVE  [Mailbox!MailboxNext]_(Mailbox!mboxVars)
  BY <1>12 DEF ReadEvent, Mailbox!mboxVars
<1>13. ASSUME NEW t \in Threads, GetReturn(t)
      PROVE  [Mailbox!MailboxNext]_(Mailbox!mboxVars)
  <2>1. t \in Getters
    BY <1>13 DEF GetReturn
  <2>2. Mailbox!Collect(t)
    BY <1>13, <2>1 DEF GetReturn, Mailbox!Collect
  <2> QED BY <2>1, <2>2 DEF Mailbox!MailboxNext, Mailbox!Reply
<1>14. ASSUME NEW t \in Threads, StopQueue(t)
      PROVE  [Mailbox!MailboxNext]_(Mailbox!mboxVars)
  <2>1. Mailbox!CloseBox
    BY <1>14 DEF StopQueue, Mailbox!CloseBox
  <2> QED BY <2>1 DEF Mailbox!MailboxNext
<1>15. ASSUME NEW t \in Threads, ClearQueue(t)
      PROVE  [Mailbox!MailboxNext]_(Mailbox!mboxVars)
  <2>1. Mailbox!EmptyBox
    BY <1>15 DEF ClearQueue, Mailbox!EmptyBox
  <2> QED BY <2>1 DEF Mailbox!MailboxNext
<1>16. ASSUME NEW t \in Threads, ClearEvent(t)
      PROVE  [Mailbox!MailboxNext]_(Mailbox!mboxVars)
  BY <1>16 DEF ClearEvent, Mailbox!mboxVars
<1>17. ASSUME NEW t \in Threads, StopNotify(t)
      PROVE  [Mailbox!MailboxNext]_(Mailbox!mboxVars)
  BY <1>17 DEF StopNotify, Mailbox!mboxVars
<1>18. ASSUME NEW t \in Threads, ClearDone(t)
      PROVE  [Mailbox!MailboxNext]_(Mailbox!mboxVars)
  BY <1>18 DEF ClearDone, Mailbox!mboxVars
<1>19. ASSUME NEW t \in Threads, CloseUnlock(t)
      PROVE  [Mailbox!MailboxNext]_(Mailbox!mboxVars)
  BY <1>19 DEF CloseUnlock, Mailbox!mboxVars
<1>20. ASSUME NEW t \in Threads, CallStop(t)
      PROVE  [Mailbox!MailboxNext]_(Mailbox!mboxVars)
  BY <1>20 DEF CallStop, Mailbox!mboxVars
<1>21. ASSUME NEW t \in Threads, CallClear(t)
      PROVE  [Mailbox!MailboxNext]_(Mailbox!mboxVars)
  BY <1>21 DEF CallClear, Mailbox!mboxVars
<1>22. ASSUME NEW t \in Threads, SpuriousWake(t)
      PROVE  [Mailbox!MailboxNext]_(Mailbox!mboxVars)
  BY <1>22 DEF SpuriousWake, Mailbox!mboxVars
<1>23. ASSUME NEW t \in Threads, Expire(t)
      PROVE  [Mailbox!MailboxNext]_(Mailbox!mboxVars)
  BY <1>23 DEF Expire, Mailbox!mboxVars
<1> QED
  BY <1>1, <1>2, <1>3, <1>4, <1>5, <1>6, <1>7, <1>8, <1>9, <1>10, <1>11, <1>12,
     <1>13, <1>14, <1>15, <1>16, <1>17, <1>18, <1>19, <1>20, <1>21, <1>22, <1>23
  DEF Next, Call, Step, Add, Get, Close

\* add(), get(), stop() and clear(), with their mutex, condition variable and
\* eventfd, do nothing that the mailbox could not do in single steps: a message
\* is put, taken, dropped, and a request answered, at one instant each.
THEOREM QueueImplementsMailbox == Spec => Mailbox!MailboxSpec
<1>1. Init => Mailbox!MailboxInit /\ CallersInv
  BY MailboxStarts, CallersInit
<1>2. QueueInv => TypeInv
  BY DEF QueueInv
<1>3. TypeInv /\ CallersInv /\ [Next]_vars => CallersInv'
  BY CallersNext
<1>4. TypeInv /\ CallersInv /\ [Next]_vars => [Mailbox!MailboxNext]_(Mailbox!mboxVars)
  BY MailboxSteps
<1>5. Spec => []TypeInv
  BY <1>2, Invariance, PTL
<1> QED BY <1>1, <1>3, <1>4, <1>5, PTL DEF Spec, Mailbox!MailboxSpec

=============================================================================
