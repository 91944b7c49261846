-------------------------- MODULE LinxIpcHandlerProofs --------------------------
(***************************************************************************)
(* Theorems about LinxIpcHandler and the life of its server, for any       *)
(* threads, messages, requests, signal numbers and size of the queue.      *)
(***************************************************************************)
EXTENDS LinxIpcHandlerProperties, LinxMessageFilterProofs

-----------------------------------------------------------------------------
(* The queue                                                               *)

\* The instance has its own copies of the operators it extends.
LEMMA SameOperators ==
  /\ \A s, f : Server!FirstMatch(s, f) = FirstMatch(s, f)
  /\ \A s, i : Server!RemoveAt(s, i) = RemoveAt(s, i)
BY DEF Server!FirstMatch, Server!SelectInSeq, Server!Min, Server!Matches,
       Server!matchesFrom, Server!matchesSignalSelector, Server!SameIdentifier,
       Server!isEqual, Server!AnyFrom, Server!RemoveAt,
       FirstMatch, SelectInSeq, Min, Matches, matchesFrom, matchesSignalSelector,
       SameIdentifier, isEqual, AnyFrom, RemoveAt

QueueTypes ==
  /\ box \in Seq(Messages)
  /\ closed \in BOOLEAN
  /\ phase \in [Loopers -> {"idle", "asking", "answered"}]
  /\ asked \in [Loopers -> Requests \union {NoRequest}]
  /\ answer \in [Loopers -> Messages \union {NoMessage}]

LEMMA TakeTypes ==
  ASSUME QueueTypes, NEW t \in Loopers, Server!Take(t)
  PROVE  QueueTypes' /\ Len(box') <= Len(box) /\ UNCHANGED closed
<1> DEFINE i == FirstMatch(box, asked[t].filter)
<1>1. /\ i # 0
      /\ answer' = [answer EXCEPT ![t] = box[i]]
      /\ box' = RemoveAt(box, i)
      /\ phase' = [phase EXCEPT ![t] = "answered"]
      /\ UNCHANGED <<closed, asked>>
  BY SameOperators DEF Server!Take
<1>2. i \in 1..Len(box)
  BY <1>1, FirstMatchProperties DEF QueueTypes
<1> HIDE DEF i
<1>3. /\ box' \in Seq(Messages) /\ Len(box') = Len(box) - 1 /\ Len(box) \in Nat
      /\ box[i] \in Messages
  BY <1>1, <1>2, RemoveAtProperties DEF QueueTypes
<1> QED BY <1>1, <1>3 DEF QueueTypes

LEMMA PutTypes ==
  ASSUME QueueTypes, NEW m \in Messages, Server!Put(m)
  PROVE  QueueTypes' /\ Len(box') = Len(box) + 1 /\ Len(box) \in Nat /\ UNCHANGED closed
BY DEF QueueTypes, Server!Put

LEMMA RequestTypes ==
  ASSUME QueueTypes, NEW t \in Loopers,
         \/ \E r \in Requests : Server!Ask(t, r)
         \/ Server!Miss(t)
         \/ Server!Collect(t)
  PROVE  QueueTypes' /\ UNCHANGED <<box, closed>>
BY DEF QueueTypes, Server!Ask, Server!Miss, Server!Collect

LEMMA CloseTypes ==
  ASSUME QueueTypes, Server!CloseBox
  PROVE  QueueTypes' /\ Len(box') = 0 /\ closed'
BY EmptySeq DEF QueueTypes, Server!CloseBox

-----------------------------------------------------------------------------
(* The worker                                                              *)

\* Only TaskAdd changes the queue; and once the socket is closed the worker that tests
\* it ends.
LEMMA TaskMoves ==
  ASSUME Task
  PROVE  /\ UNCHANGED <<open, thread, handlerVars>> /\ task # "none" /\ task' # "none"
         /\ \/ TaskAdd
            \/ /\ UNCHANGED queueVars
               /\ task = "waiting" \/ task' = (IF open THEN "waiting" ELSE "exited")
BY DEF Task, TaskWait, TaskReceive, TaskAdd, Server!TaskCheck, Server!TaskPing, Server!TaskExit,
       Server!TaskReceive, Server!TaskAdd, Server!mboxVars, queueVars

\* What a message that is lost leaves alone.
LEMMA LoseMoves ==
  ASSUME Lose
  PROVE  /\ UNCHANGED <<queueVars, open, thread, task, hand, handlerVars>>
         /\ coming' \subseteq coming
BY DEF Lose, Server!Lose, Server!mboxVars, queueVars

-----------------------------------------------------------------------------
(* The types                                                               *)

\* The worker holds a message where it adds it.
HandInv == task = "add" => hand \in Messages

TypeInv == TypeOK /\ HandInv

Labels == {"idle", "handle", "callback", "create"} \union ResponseLabels \union StopLabels
Callers == {"none", "stop", "~LinxIpcHandler", "~GenericServer"}

ThreadTypes ==
  /\ pc \in [Threads -> Labels]
  /\ call \in [Threads -> Callers]
  /\ owners \subseteq {"user", "handler"} \union Loopers
  /\ msg \in [Loopers -> Messages \union {NoMessage}]
  /\ kept \subseteq Loopers
  /\ handlers \subseteq Numbers
  /\ gone \in BOOLEAN

WorkerTypes ==
  /\ open \in BOOLEAN
  /\ thread \in {"none", "joinable"}
  /\ task \in {"none", "receive", "waiting", "add", "exited"}
  /\ hand \in Messages \union {NoMessage}
  /\ coming \subseteq Messages
  /\ HandInv

LEMMA TypeParts == TypeInv <=> QueueTypes /\ ThreadTypes /\ WorkerTypes
BY DEF TypeInv, TypeOK, QueueTypes, ThreadTypes, WorkerTypes, Labels, Callers

LEMMA TypeInit == Init => TypeInv
<1> SUFFICES ASSUME Init PROVE QueueTypes /\ ThreadTypes /\ WorkerTypes
  BY TypeParts
<1>1. QueueTypes
  BY EmptySeq DEF Init, Server!ServerInit, Server!MailboxInit, QueueTypes
<1>2. ThreadTypes
  BY DEF Init, ThreadTypes, Labels, Callers
<1>3. WorkerTypes
  BY DEF Init, Server!ServerInit, WorkerTypes, HandInv
<1> QED BY <1>1, <1>2, <1>3

LEMMA QueueNext == TypeInv /\ [Next]_vars => QueueTypes'
<1> SUFFICES ASSUME TypeInv, [Next]_vars PROVE QueueTypes'
  OBVIOUS
<1>0. QueueTypes /\ HandInv
  BY TypeParts DEF TypeInv
<1>1. CASE UNCHANGED queueVars
  BY <1>0, <1>1 DEF queueVars, QueueTypes
<1>2. CASE TaskAdd
  BY <1>0, <1>1, <1>2, PutTypes DEF TaskAdd, Server!TaskAdd, Server!mboxVars, queueVars, HandInv
<1>3. ASSUME NEW t \in Loopers, CallHandleMessage(t) \/ HandleReceive(t) \/ HandleDispatch(t)
      PROVE  QueueTypes'
  BY <1>0, <1>3, TakeTypes, RequestTypes
  DEF CallHandleMessage, HandleReceive, HandleDispatch
<1>4. ASSUME NEW t \in Threads, StopQueue(t) \/ ServerDestroyed(t)
      PROVE  QueueTypes'
  BY <1>0, <1>4, CloseTypes DEF StopQueue, Server!CloseQueue, ServerDestroyed
<1>5. CASE StartCreate \/ \E t \in Threads : StopClose(t) \/ StopJoin(t)
  BY <1>1, <1>5 DEF StartCreate, StopClose, StopJoin, Server!StartWorker, Server!CloseSocket,
     Server!Join, Server!mboxVars, queueVars
<1> QED BY <1>1, <1>2, <1>3, <1>4, <1>5, TaskMoves, LoseMoves
  DEF Next, vars, UserStep, RegisterCallback, CallStart,
      CallStop, DestroyHandler, MakeHandler, ResetServer, HandleStep,
      CallbackKeeps, CallbackReturns, LockServer, ResponseStep, SendToSender, SendBlocks,
      SendGoesOut, ReleaseServer, StopStep, StopCheck, StopReturn, HandlerDestroyed

LEMMA WorkerNext == TypeInv /\ [Next]_vars => WorkerTypes'
<1> SUFFICES ASSUME TypeInv, [Next]_vars PROVE WorkerTypes'
  OBVIOUS
<1>0. WorkerTypes
  BY TypeParts
<1> USE <1>0 DEF WorkerTypes, HandInv
<1>1. CASE UNCHANGED workerVars
  BY <1>1 DEF workerVars
<1>2. CASE Task
  BY <1>2 DEF Task, TaskWait, TaskReceive, TaskAdd, Server!TaskCheck, Server!TaskPing,
     Server!TaskExit, Server!TaskReceive, Server!TaskAdd
<1>3. CASE StartCreate
  BY <1>3 DEF StartCreate, Server!StartWorker
<1>4. ASSUME NEW t \in Threads, StopStep(t) PROVE WorkerTypes'
  BY <1>4 DEF StopStep, StopCheck, StopClose, StopQueue, StopJoin, StopReturn,
              HandlerDestroyed, ServerDestroyed, workerVars, Server!CloseSocket,
              Server!CloseQueue, Server!Join, Server!workerVars
<1>5. CASE Lose
  BY <1>5, LoseMoves
<1> QED BY <1>1, <1>2, <1>3, <1>4, <1>5
  DEF Next, vars, workerVars, UserStep, RegisterCallback, CallStart, CallStop,
      DestroyHandler, MakeHandler, ResetServer, CallHandleMessage, HandleStep,
      HandleReceive, HandleDispatch, CallbackKeeps, CallbackReturns, LockServer,
      ResponseStep, SendToSender, SendBlocks, SendGoesOut, ReleaseServer

LEMMA ThreadNext == TypeInv /\ [Next]_vars => ThreadTypes'
<1> SUFFICES ASSUME TypeInv, [Next]_vars PROVE ThreadTypes'
  OBVIOUS
<1>0. ThreadTypes /\ answer \in [Loopers -> Messages \union {NoMessage}]
  BY TypeParts DEF QueueTypes
<1> USE <1>0 DEF ThreadTypes, Labels, Callers, StopLabels, ResponseLabels, Threads,
                 Goto, Trans, Back, LetGo
<1>1. CASE UNCHANGED <<owners, gone, handlers, pc, call, msg, kept>>
  BY <1>1
<1>2. ASSUME NEW n \in Numbers, RegisterCallback(n) PROVE ThreadTypes'
  BY <1>2 DEF RegisterCallback
<1>3. CASE CallStart
  BY <1>3 DEF CallStart
<1>4. CASE StartCreate
  BY <1>4 DEF StartCreate
<1>5. CASE CallStop
  BY <1>5 DEF CallStop
<1>6. CASE DestroyHandler
  BY <1>6 DEF DestroyHandler
<1>7. CASE MakeHandler
  BY <1>7 DEF MakeHandler
<1>8. CASE ResetServer
  BY <1>8 DEF ResetServer
<1>9. ASSUME NEW t \in Loopers, CallHandleMessage(t) PROVE ThreadTypes'
  BY <1>9 DEF CallHandleMessage
<1>10. ASSUME NEW t \in Loopers, HandleReceive(t) PROVE ThreadTypes'
  BY <1>10 DEF HandleReceive
<1>11. ASSUME NEW t \in Loopers, HandleDispatch(t) PROVE ThreadTypes'
  BY <1>11 DEF HandleDispatch
<1>12. ASSUME NEW t \in Loopers, CallbackKeeps(t) PROVE ThreadTypes'
  BY <1>12 DEF CallbackKeeps
<1>13. ASSUME NEW t \in Loopers, CallbackReturns(t) PROVE ThreadTypes'
  BY <1>13 DEF CallbackReturns
<1>14. ASSUME NEW t \in Loopers, LockServer(t) PROVE ThreadTypes'
  BY <1>14 DEF LockServer
<1>15. ASSUME NEW t \in Loopers, SendToSender(t) \/ SendBlocks(t) \/ SendGoesOut(t)
       PROVE  ThreadTypes'
  BY <1>15 DEF SendToSender, SendBlocks, SendGoesOut
<1>16. ASSUME NEW t \in Loopers, ReleaseServer(t) PROVE ThreadTypes'
  BY <1>16 DEF ReleaseServer
<1>17. ASSUME NEW t \in Threads, StopCheck(t) PROVE ThreadTypes'
  BY <1>17 DEF StopCheck
<1>18. ASSUME NEW t \in Threads, StopClose(t) PROVE ThreadTypes'
  BY <1>18 DEF StopClose
<1>19. ASSUME NEW t \in Threads, StopQueue(t) PROVE ThreadTypes'
  BY <1>19 DEF StopQueue
<1>20. ASSUME NEW t \in Threads, StopJoin(t) PROVE ThreadTypes'
  BY <1>20 DEF StopJoin
<1>21. ASSUME NEW t \in Threads, StopReturn(t) PROVE ThreadTypes'
  BY <1>21 DEF StopReturn
<1>22. ASSUME NEW t \in Threads, HandlerDestroyed(t) PROVE ThreadTypes'
  BY <1>22 DEF HandlerDestroyed
<1>23. ASSUME NEW t \in Threads, ServerDestroyed(t) PROVE ThreadTypes'
  BY <1>23 DEF ServerDestroyed
<1> QED
  BY <1>1, <1>2, <1>3, <1>4, <1>5, <1>6, <1>7, <1>8, <1>9, <1>10, <1>11, <1>12,
     <1>13, <1>14, <1>15, <1>16, <1>17, <1>18, <1>19, <1>20, <1>21, <1>22, <1>23,
     TaskMoves, LoseMoves
  DEF Next, vars, handlerVars, UserStep, HandleStep, ResponseStep, StopStep

LEMMA TypeNext == TypeInv /\ [Next]_vars => TypeInv'
<1>1. TypeInv' <=> (QueueTypes /\ ThreadTypes /\ WorkerTypes)'
  BY DEF TypeInv, TypeOK, QueueTypes, ThreadTypes, WorkerTypes, Labels, Callers
<1> QED BY <1>1, QueueNext, WorkerNext, ThreadNext

-----------------------------------------------------------------------------
(* Who uses the server                                                     *)

\* A thread is in stop() on somebody's behalf, and holds the server while it
\* sends; only the user controls the handler.
PlacesInv ==
  /\ \A t \in Threads : pc[t] \in StopLabels <=> call[t] # "none"
  /\ \A t \in Loopers : /\ t \in owners <=> pc[t] \in ResponseLabels
                        /\ call[t] \in {"none", "~GenericServer"}
                        /\ pc[t] # "create"
  /\ pc[User] \notin {"handle"} \union ResponseLabels

\* Whoever is in a member function of the handler finds it there.
HandlerInv ==
  /\ call[User] \in {"stop", "~LinxIpcHandler"} => "handler" \in owners
  /\ pc[User] = "create" => "handler" \in owners
  /\ \A t \in Loopers : pc[t] = "handle" => "handler" \in owners
  /\ call[User] = "~LinxIpcHandler" => \A t \in Loopers : pc[t] # "handle"

\* ~GenericServer runs once, in one thread, after the last reference is gone, and
\* ends when the worker has.
DestroyInv ==
  /\ \A t \in Threads : call[t] = "~GenericServer" => owners = {} /\ ~gone
  /\ \A t, u \in Threads :
       call[t] = "~GenericServer" /\ call[u] = "~GenericServer" => t = u
  /\ \A t \in Threads :
       call[t] = "~GenericServer" /\ pc[t] = "stopped" => thread = "none"
  /\ thread = "none" <=> task = "none"
  /\ gone => owners = {} /\ task = "none"

LifeInv == PlacesInv /\ HandlerInv /\ DestroyInv

LEMMA LifeInit == Init => LifeInv
BY ThreadsAssumption
DEF Init, Server!ServerInit, LifeInv, PlacesInv, HandlerInv, DestroyInv, Threads, StopLabels, ResponseLabels

LEMMA LoopersDestroyNoHandler ==
  ASSUME PlacesInv, NEW t \in Loopers
  PROVE  call[t] # "~LinxIpcHandler"
BY DEF PlacesInv

LEMMA LifeNext == TypeInv /\ LifeInv /\ [Next]_vars => LifeInv'
<1> SUFFICES ASSUME TypeInv, LifeInv, [Next]_vars PROVE LifeInv'
  OBVIOUS
<1>0. ThreadTypes /\ WorkerTypes
  BY TypeParts
<1> USE <1>0, ThreadsAssumption
    DEF ThreadTypes, WorkerTypes, Labels, Callers, LifeInv, PlacesInv, HandlerInv,
        DestroyInv, StopLabels, ResponseLabels, Threads, Goto, Trans, At, Back, LetGo,
        HandlerLives
<1>1. CASE UNCHANGED <<thread, task, owners, gone, pc, call>>
  BY <1>1
<1>2. CASE Task
  <2>1. /\ UNCHANGED <<thread, owners, gone, pc, call>>
        /\ task # "none" /\ task' # "none"
    BY <1>2, TaskMoves DEF handlerVars
  <2>2. PlacesInv'
    BY <2>1
  <2>3. HandlerInv'
    BY <2>1
  <2>4. DestroyInv'
    BY <2>1
  <2> QED BY <2>2, <2>3, <2>4
<1>3. CASE CallStart
  <2>1. /\ UNCHANGED <<thread, task, owners, gone, call>>
        /\ pc[User] = "idle" /\ "handler" \in owners
        /\ pc' = [pc EXCEPT ![User] = "create"]
    BY <1>3 DEF CallStart, workerVars
  <2>2. PlacesInv'
    BY <2>1
  <2>3. HandlerInv'
    BY <2>1
  <2>4. DestroyInv'
    BY <2>1
  <2> QED BY <2>2, <2>3, <2>4
<1>4. CASE StartCreate
  BY <1>4 DEF StartCreate, Server!StartWorker
<1>5. CASE CallStop
  <2>1. /\ UNCHANGED <<thread, task, owners, gone>>
        /\ pc[User] = "idle" /\ "handler" \in owners
        /\ pc' = [pc EXCEPT ![User] = "stop"]
        /\ call' = [call EXCEPT ![User] = "stop"]
    BY <1>5 DEF CallStop, workerVars
  <2>2. PlacesInv'
    BY <2>1
  <2>3. HandlerInv'
    BY <2>1
  <2>4. DestroyInv'
    BY <2>1
  <2> QED BY <2>2, <2>3, <2>4
<1>6. CASE DestroyHandler
  <2>1. /\ UNCHANGED <<thread, task, owners, gone>>
        /\ pc[User] = "idle" /\ "handler" \in owners
        /\ pc' = [pc EXCEPT ![User] = "stop"]
        /\ call' = [call EXCEPT ![User] = "~LinxIpcHandler"]
        /\ \A t \in Loopers : pc[t] # "handle"
    BY <1>6 DEF DestroyHandler, workerVars, NobodyHandles
  <2>2. PlacesInv'
    BY <2>1
  <2>3. HandlerInv'
    BY <2>1
  <2>4. DestroyInv'
    BY <2>1
  <2> QED BY <2>2, <2>3, <2>4
<1>7. CASE MakeHandler
  <2>1. /\ UNCHANGED <<thread, task, gone, pc, call>>
        /\ "user" \in owners /\ owners' = owners \union {"handler"}
    BY <1>7 DEF MakeHandler, workerVars
  <2>2. PlacesInv'
    BY <2>1
  <2>3. HandlerInv'
    BY <2>1
  <2>4. DestroyInv'
    BY <2>1
  <2> QED BY <2>2, <2>3, <2>4
<1>8. CASE ResetServer
  <2>1. /\ UNCHANGED <<thread, task, gone>> /\ pc[User] = "idle"
        /\ "user" \in owners /\ owners' = owners \ {"user"}
        /\ IF owners' = {}
           THEN /\ pc' = [pc EXCEPT ![User] = "stop"]
                /\ call' = [call EXCEPT ![User] = "~GenericServer"]
           ELSE /\ pc' = [pc EXCEPT ![User] = "idle"]
                /\ call' = [call EXCEPT ![User] = "none"]
    BY <1>8 DEF ResetServer, workerVars
  <2>2. PlacesInv'
    BY <2>1
  <2>3. HandlerInv'
    BY <2>1
  <2>4. DestroyInv'
    BY <2>1
  <2> QED BY <2>2, <2>3, <2>4
<1>9. ASSUME NEW t \in Loopers, CallHandleMessage(t) PROVE LifeInv'
  BY <1>9 DEF CallHandleMessage, workerVars, MayRespond
<1>10. ASSUME NEW t \in Loopers, HandleReceive(t) PROVE LifeInv'
  BY <1>10 DEF HandleReceive, workerVars, MayRespond
<1>11. ASSUME NEW t \in Loopers, HandleDispatch(t) PROVE LifeInv'
  BY <1>11 DEF HandleDispatch, workerVars, MayRespond
<1>12. ASSUME NEW t \in Loopers, CallbackKeeps(t) PROVE LifeInv'
  BY <1>12 DEF CallbackKeeps, workerVars, MayRespond
<1>13. ASSUME NEW t \in Loopers, CallbackReturns(t) PROVE LifeInv'
  BY <1>13 DEF CallbackReturns, workerVars, MayRespond
<1>14. ASSUME NEW t \in Loopers, LockServer(t) PROVE LifeInv'
  BY <1>14 DEF LockServer, workerVars, MayRespond
<1>15. ASSUME NEW t \in Loopers, SendToSender(t) \/ SendBlocks(t) \/ SendGoesOut(t)
       PROVE  LifeInv'
  <2>1. CASE SendToSender(t)
    BY <2>1 DEF SendToSender, workerVars, MayRespond
  <2>2. CASE SendBlocks(t)
    BY <2>2 DEF SendBlocks, workerVars, MayRespond
  <2>3. CASE SendGoesOut(t)
    BY <2>3 DEF SendGoesOut, workerVars, MayRespond
  <2> QED BY <1>15, <2>1, <2>2, <2>3
<1>16. ASSUME NEW t \in Loopers, ReleaseServer(t) PROVE LifeInv'
  <2>1. /\ UNCHANGED <<thread, task, gone>> /\ pc[t] = "release"
        /\ t \in owners /\ owners' = owners \ {t}
        /\ IF owners' = {}
           THEN /\ pc' = [pc EXCEPT ![t] = "stop"]
                /\ call' = [call EXCEPT ![t] = "~GenericServer"]
           ELSE /\ pc' = [pc EXCEPT ![t] = Back(t)]
                /\ call' = [call EXCEPT ![t] = "none"]
    BY <1>16 DEF ReleaseServer, workerVars
  <2>0. t # User /\ t \notin {"user", "handler"} /\ Back(t) \in {"callback", "idle"}
    OBVIOUS
  <2>5. /\ \A u \in Threads : u # t => pc'[u] = pc[u] /\ call'[u] = call[u]
        /\ \/ /\ owners' = {} /\ pc'[t] = "stop" /\ call'[t] = "~GenericServer"
           \/ /\ owners' # {} /\ pc'[t] \in {"callback", "idle"} /\ call'[t] = "none"
    BY <2>0, <2>1
  <2>6. \A u : u # t => (u \in owners' <=> u \in owners)
    BY <2>1
  <2>7. /\ t \notin owners'
        /\ "handler" \in owners' <=> "handler" \in owners
        /\ owners # {}
    BY <2>0, <2>1
  <2> HIDE DEF Back
  <2>2. PlacesInv'
    <3>1. (\A u \in Threads : pc[u] \in StopLabels <=> call[u] # "none")'
      BY <2>5
    <3>2. (\A u \in Loopers : /\ u \in owners <=> pc[u] \in ResponseLabels
                              /\ call[u] \in {"none", "~GenericServer"}
                              /\ pc[u] # "create")'
      BY <2>5, <2>6, <2>7
    <3>3. (pc[User] \notin {"handle"} \union ResponseLabels)'
      BY <2>0, <2>5
    <3> QED BY <3>1, <3>2, <3>3
  <2>3. HandlerInv'
    <3>1. /\ pc'[User] = pc[User] /\ call'[User] = call[User]
          /\ \A u \in Loopers : pc'[u] = "handle" => pc[u] = "handle"
      BY <2>0, <2>5
    <3> QED BY <3>1, <2>7
  <2>4. DestroyInv'
    BY <2>0, <2>1, <2>5
  <2> QED BY <2>2, <2>3, <2>4
<1>17. ASSUME NEW t \in Threads, StopCheck(t) PROVE LifeInv'
  BY <1>17 DEF StopCheck, workerVars
<1>18. ASSUME NEW t \in Threads, StopClose(t) PROVE LifeInv'
  BY <1>18 DEF StopClose, Server!CloseSocket
<1>19. ASSUME NEW t \in Threads, StopQueue(t) PROVE LifeInv'
  BY <1>19 DEF StopQueue, Server!CloseQueue, Server!workerVars
<1>20. ASSUME NEW t \in Threads, StopJoin(t) PROVE LifeInv'
  BY <1>20 DEF StopJoin, Server!Join
<1>21. ASSUME NEW t \in Threads, StopReturn(t) PROVE LifeInv'
  BY <1>21 DEF StopReturn, workerVars
<1>22. ASSUME NEW t \in Threads, HandlerDestroyed(t) PROVE LifeInv'
  <2>1. /\ UNCHANGED <<thread, task, gone>>
        /\ pc[t] = "stopped" /\ call[t] = "~LinxIpcHandler" /\ t = User
        /\ owners' = owners \ {"handler"}
        /\ IF owners' = {}
           THEN /\ pc' = [pc EXCEPT ![t] = "stop"]
                /\ call' = [call EXCEPT ![t] = "~GenericServer"]
           ELSE /\ pc' = [pc EXCEPT ![t] = "idle"]
                /\ call' = [call EXCEPT ![t] = "none"]
    <3>1. call[t] = "~LinxIpcHandler"
      BY <1>22 DEF HandlerDestroyed
    <3>2. t \notin Loopers
      BY <3>1, LoopersDestroyNoHandler
    <3>3. t = User /\ Back(t) = "idle"
      BY <3>2
    <3> HIDE DEF Back
    <3> QED BY <1>22, <3>3 DEF HandlerDestroyed, workerVars
  <2>2. PlacesInv'
    BY <2>1
  <2>3. HandlerInv'
    BY <2>1
  <2>4. DestroyInv'
    BY <2>1
  <2> QED BY <2>2, <2>3, <2>4
<1>23. ASSUME NEW t \in Threads, ServerDestroyed(t) PROVE LifeInv'
  BY <1>23 DEF ServerDestroyed, workerVars
<1> QED
  BY <1>1, <1>2, <1>3, <1>4, <1>5, <1>6, <1>7, <1>8, <1>9, <1>10, <1>11, <1>12,
     <1>13, <1>14, <1>15, <1>16, <1>17, <1>18, <1>19, <1>20, <1>21, <1>22, <1>23, LoseMoves
  DEF Next, vars, workerVars, handlerVars, UserStep, HandleStep, ResponseStep, StopStep, RegisterCallback

-----------------------------------------------------------------------------
(* What is left after stop()                                               *)

\* The queue is stopped after the socket is closed, so the worker, which tests the
\* socket before it waits, takes one message at most: the one it waits for or holds.
RestInv ==
  /\ \A t \in Threads : pc[t] = "stopQueue" => ~open
  /\ closed => ~open /\ Len(box) <= (IF task \in {"waiting", "add"} THEN 0 ELSE 1)

LEMMA RestInit == Init => RestInv
BY EmptySeq DEF Init, RestInv, Server!ServerInit, Server!MailboxInit

LEMMA RestNext == TypeInv /\ RestInv /\ [Next]_vars => RestInv'
<1> SUFFICES ASSUME TypeInv, RestInv, [Next]_vars PROVE RestInv'
  OBVIOUS
<1>0. QueueTypes /\ ThreadTypes /\ WorkerTypes /\ Len(box) \in Nat
  BY TypeParts DEF QueueTypes
<1> USE <1>0 DEF ThreadTypes, WorkerTypes
<1>1. CASE /\ UNCHANGED <<closed, open, task>> /\ Len(box') <= Len(box) /\ Len(box') \in Nat
           /\ \A t \in Threads : pc'[t] = "stopQueue" => pc[t] = "stopQueue"
  BY <1>1 DEF RestInv
<1>2. CASE Task /\ ~TaskAdd
  <2>1. /\ UNCHANGED <<open, pc, box, closed>>
        /\ task = "waiting" \/ task' = (IF open THEN "waiting" ELSE "exited")
    BY <1>2, TaskMoves DEF handlerVars, queueVars
  <2> QED BY <2>1 DEF RestInv
<1>3. CASE TaskAdd
  <2>1. UNCHANGED <<open, pc>> /\ task = "add" /\ task' = "receive"
    BY <1>3 DEF TaskAdd, Server!TaskAdd, handlerVars
  <2>2. /\ UNCHANGED closed /\ Len(box') <= Len(box) + 1 /\ Len(box') \in Nat
    BY <1>3, PutTypes DEF TaskAdd, Server!TaskAdd, Server!mboxVars, HandInv
  <2> QED BY <2>1, <2>2 DEF RestInv
<1>4. CASE Lose
  BY <1>4, LoseMoves DEF RestInv, queueVars, handlerVars
<1>5. CASE StartCreate
  BY <1>5 DEF RestInv, StartCreate, Server!StartWorker, Server!mboxVars, Trans, At, Goto, Threads
<1>6. ASSUME NEW t \in Loopers, HandleReceive(t) PROVE RestInv'
  <2>1. UNCHANGED <<open, task, pc>>
    BY <1>6 DEF HandleReceive, workerVars
  <2>2. /\ UNCHANGED closed /\ Len(box') <= Len(box) /\ Len(box') \in Nat
    BY <1>6, TakeTypes, RequestTypes DEF HandleReceive, QueueTypes
  <2> QED BY <2>1, <2>2 DEF RestInv
<1>7. ASSUME NEW t \in Loopers, CallHandleMessage(t) \/ HandleDispatch(t) PROVE RestInv'
  <2>1. /\ UNCHANGED <<open, task, box, closed>>
    BY <1>7, RequestTypes DEF CallHandleMessage, HandleDispatch, workerVars
  <2>2. \A u \in Threads : pc'[u] = "stopQueue" => pc[u] = "stopQueue"
    BY <1>7 DEF CallHandleMessage, HandleDispatch, Trans, At, Goto, Threads
  <2> QED BY <2>1, <2>2, <1>1
<1>8. ASSUME NEW t \in Threads, StopClose(t) PROVE RestInv'
  BY <1>8 DEF RestInv, StopClose, Server!CloseSocket, Server!mboxVars
<1>9. ASSUME NEW t \in Threads, StopQueue(t) PROVE RestInv'
  <2>1. Len(box') = 0 /\ ~open /\ UNCHANGED <<open, task>>
    BY <1>9, CloseTypes DEF StopQueue, Server!CloseQueue, Server!workerVars, Trans, At, RestInv
  <2> QED BY <2>1 DEF RestInv
<1>10. ASSUME NEW t \in Threads, ServerDestroyed(t) PROVE RestInv'
  <2>1. Len(box') = 0 /\ ~open' /\ UNCHANGED task
    BY <1>10, CloseTypes DEF ServerDestroyed
  <2> QED BY <2>1 DEF RestInv
<1>11. ASSUME NEW t \in Threads, StopJoin(t) PROVE RestInv'
  BY <1>11 DEF RestInv, StopJoin, Server!Join, Server!mboxVars, Trans, At, Goto
<1>12. CASE UNCHANGED <<box, closed, open, task>>
            /\ \E t \in Threads, l \in Labels \ {"stopQueue"} : pc' \in {pc, [pc EXCEPT ![t] = l]}
  BY <1>12, <1>1
<1>13. CASE UserStep
  <2>1. \E l \in Labels \ {"stopQueue"} : pc' \in {pc, [pc EXCEPT ![User] = l]} \/ StartCreate
    BY <1>13 DEF UserStep, RegisterCallback, CallStart, CallStop, DestroyHandler,
       MakeHandler, ResetServer, LetGo, Back, Trans, Goto, Labels, StopLabels
  <2>2. StartCreate \/ UNCHANGED <<box, closed, open, task>>
    BY <1>13 DEF UserStep, RegisterCallback, CallStart, CallStop, DestroyHandler,
       MakeHandler, ResetServer, queueVars, workerVars
  <2> QED BY <2>1, <2>2, <1>5, <1>12 DEF Threads
<1>14. ASSUME NEW t \in Loopers,
              \/ CallbackKeeps(t) \/ CallbackReturns(t) \/ LockServer(t)
              \/ ResponseStep(t) \/ SendGoesOut(t)
       PROVE  RestInv'
  <2>1. \E l \in Labels \ {"stopQueue"} : pc' \in {pc, [pc EXCEPT ![t] = l]}
    BY <1>14 DEF CallbackKeeps, CallbackReturns, LockServer, ResponseStep, SendToSender,
       SendBlocks, SendGoesOut, ReleaseServer, LetGo, Back, Trans, Goto, Labels, StopLabels, ResponseLabels
  <2>2. UNCHANGED <<box, closed, open, task>>
    BY <1>14 DEF CallbackKeeps, CallbackReturns, LockServer, ResponseStep, SendToSender,
       SendBlocks, SendGoesOut, ReleaseServer, queueVars, workerVars
  <2> QED BY <2>1, <2>2, <1>12 DEF Threads
<1>15. ASSUME NEW t \in Threads, StopCheck(t) \/ StopReturn(t) \/ HandlerDestroyed(t)
       PROVE  RestInv'
  <2>1. \E l \in Labels \ {"stopQueue"} : pc' \in {pc, [pc EXCEPT ![t] = l]}
    BY <1>15 DEF StopCheck, StopReturn, HandlerDestroyed, LetGo, Back, Trans, Goto,
       Labels, StopLabels
  <2>2. UNCHANGED <<box, closed, open, task>>
    BY <1>15 DEF StopCheck, StopReturn, HandlerDestroyed, queueVars, workerVars
  <2> QED BY <2>1, <2>2, <1>12
<1>16. CASE UNCHANGED vars
  BY <1>16 DEF RestInv, vars, queueVars, workerVars, handlerVars
<1> QED
  BY <1>2, <1>3, <1>4, <1>5, <1>6, <1>7, <1>8, <1>9, <1>10, <1>11, <1>13, <1>14, <1>15, <1>16
  DEF Next, HandleStep, StopStep

-----------------------------------------------------------------------------
(* The thread object                                                       *)

\* start() and stop() of the server have one caller at a time: the destructor of the
\* server runs when nobody else is left, and else only the user controls it.
LEMMA AloneInControl ==
  ASSUME TypeInv, LifeInv,
         NEW t \in Threads, pc[t] \in StopLabels \union {"create"},
         NEW u \in Threads, pc[u] \in StopLabels \union {"create"}
  PROVE  t = u
<1> USE ThreadsAssumption DEF LifeInv, Threads
<1>0. ThreadTypes
  BY TypeParts
<1>1. ASSUME NEW v \in Threads, pc[v] \in StopLabels \union {"create"}
      PROVE  call[v] = "~GenericServer" \/ (v = User /\ owners # {})
  <2>1. CASE v \in Loopers
    BY <1>1, <2>1 DEF PlacesInv, StopLabels
  <2>2. CASE v = User
    BY <1>0, <1>1, <2>2 DEF PlacesInv, HandlerInv, ThreadTypes, Callers
  <2> QED BY <2>1, <2>2
<1> QED BY <1>1 DEF DestroyInv

\* What joinable() said of the thread still holds where it is used.
Joining == {"close", "stopQueue", "join"}
ControlInv ==
  \A t \in Threads :
    /\ pc[t] \in Joining => thread = "joinable"
    /\ pc[t] = "create" => thread = "none"

LEMMA ControlNext == TypeInv /\ LifeInv /\ ControlInv /\ [Next]_vars => ControlInv'
<1> SUFFICES ASSUME TypeInv, LifeInv, ControlInv, [Next]_vars PROVE ControlInv'
  OBVIOUS
<1>0. ThreadTypes
  BY TypeParts
<1> USE <1>0 DEF ThreadTypes
<1>1. CASE /\ UNCHANGED thread
           /\ \A t \in Threads :
                /\ pc'[t] \in Joining => pc[t] \in Joining
                /\ pc'[t] = "create" => pc[t] = "create"
  BY <1>1 DEF ControlInv
<1>2. CASE Task \/ Lose
  BY <1>1, <1>2, TaskMoves, LoseMoves DEF handlerVars
<1>3. CASE CallStart
  BY <1>3 DEF CallStart, Trans, At, Goto, workerVars, ControlInv, Joining
<1>4. CASE StartCreate
  <2>1. /\ pc[User] = "create" /\ pc' = [pc EXCEPT ![User] = "idle"] /\ User \in Threads
        /\ thread' = "joinable"
    BY <1>4 DEF StartCreate, Trans, At, Goto, Server!StartWorker, Threads
  <2>2. \A u \in Threads : pc'[u] # "create"
    BY <2>1, AloneInControl
  <2> QED BY <2>1, <2>2 DEF ControlInv
<1>5. ASSUME NEW t \in Threads, StopCheck(t) PROVE ControlInv'
  BY <1>5 DEF StopCheck, Trans, At, Goto, workerVars, ControlInv, Joining
<1>6. ASSUME NEW t \in Threads, StopJoin(t) PROVE ControlInv'
  <2>1. /\ pc[t] = "join" /\ pc' = [pc EXCEPT ![t] = "stopped"] /\ thread' = "none"
    BY <1>6 DEF StopJoin, Trans, At, Goto, Server!Join
  <2>2. \A u \in Threads : pc[u] \in Joining => u = t
    BY <2>1, AloneInControl DEF StopLabels, Joining
  <2> QED BY <2>1, <2>2 DEF ControlInv, Joining
<1>7. ASSUME NEW t \in Threads, StopClose(t) \/ StopQueue(t) PROVE ControlInv'
  BY <1>7 DEF StopClose, StopQueue, Trans, At, Goto, Server!CloseSocket, Server!CloseQueue,
     Server!workerVars, ControlInv, Joining
<1>8. ASSUME NEW t \in Threads, NEW l \in Labels \ (Joining \union {"create"}),
             pc' = pc \/ pc' = [pc EXCEPT ![t] = l], UNCHANGED thread
      PROVE  ControlInv'
  BY <1>1, <1>8
<1>9. CASE UserStep
  <2>1. \/ CallStart \/ StartCreate
        \/ \E l \in Labels \ (Joining \union {"create"}) : pc' \in {pc, [pc EXCEPT ![User] = l]}
    BY <1>9 DEF UserStep, RegisterCallback, CallStop, DestroyHandler, MakeHandler,
       ResetServer, LetGo, Back, Trans, Goto, Labels, StopLabels, Joining
  <2>2. CallStart \/ StartCreate \/ UNCHANGED thread
    BY <1>9 DEF UserStep, RegisterCallback, CallStop, DestroyHandler, MakeHandler,
       ResetServer, workerVars
  <2> QED BY <2>1, <2>2, <1>3, <1>4, <1>8 DEF Threads
<1>10. ASSUME NEW t \in Loopers,
              \/ CallHandleMessage(t) \/ HandleReceive(t) \/ HandleDispatch(t)
              \/ CallbackKeeps(t) \/ CallbackReturns(t) \/ LockServer(t)
              \/ ResponseStep(t) \/ SendGoesOut(t)
       PROVE  ControlInv'
  <2>1. \E l \in Labels \ (Joining \union {"create"}) : pc' \in {pc, [pc EXCEPT ![t] = l]}
    BY <1>10 DEF CallHandleMessage, HandleReceive, HandleDispatch, CallbackKeeps,
       CallbackReturns, LockServer, ResponseStep, SendToSender, SendBlocks, SendGoesOut,
       ReleaseServer, LetGo, Back,
       Trans, Goto, Labels, StopLabels, ResponseLabels, Joining
  <2>2. UNCHANGED thread
    BY <1>10 DEF CallHandleMessage, HandleReceive, HandleDispatch, CallbackKeeps,
       CallbackReturns, LockServer, ResponseStep, SendToSender, SendBlocks, SendGoesOut,
       ReleaseServer, workerVars
  <2> QED BY <2>1, <2>2, <1>8 DEF Threads
<1>11. ASSUME NEW t \in Threads, StopReturn(t) \/ HandlerDestroyed(t) \/ ServerDestroyed(t)
       PROVE  ControlInv'
  <2>1. \E l \in Labels \ (Joining \union {"create"}) : pc' \in {pc, [pc EXCEPT ![t] = l]}
    BY <1>11 DEF StopReturn, HandlerDestroyed, ServerDestroyed, LetGo, Back, Trans, Goto,
       Labels, StopLabels, Joining
  <2>2. UNCHANGED thread
    BY <1>11 DEF StopReturn, HandlerDestroyed, ServerDestroyed, workerVars
  <2> QED BY <2>1, <2>2, <1>8
<1>12. CASE UNCHANGED vars
  BY <1>1, <1>12 DEF vars, workerVars, handlerVars
<1> HIDE <1>0 DEF ThreadTypes
<1> QED
  BY <1>2, <1>5, <1>6, <1>7, <1>9, <1>10, <1>11, <1>12 DEF Next, HandleStep, StopStep

-----------------------------------------------------------------------------
(* The theorems                                                            *)

HandlerInvariant == TypeInv /\ LifeInv /\ RestInv /\ ControlInv

\* The invariant the theorems follow from holds of every step of the loopers, of the
\* worker and of the user.
THEOREM InvariantHolds == Spec => []HandlerInvariant
<1>1. Init => HandlerInvariant
  <2>1. Init => ControlInv
    BY DEF Init, ControlInv, Joining
  <2> QED BY <2>1, TypeInit, LifeInit, RestInit DEF HandlerInvariant
<1>2. HandlerInvariant /\ [Next]_vars => HandlerInvariant'
  BY TypeNext, LifeNext, RestNext, ControlNext DEF HandlerInvariant
<1> QED BY <1>1, <1>2, PTL DEF Spec

\* The members of the handler and of its server have their types.
THEOREM HandlerTypes == Spec => []TypeOK
<1>1. HandlerInvariant => TypeOK
  BY DEF HandlerInvariant, TypeInv
<1> QED BY <1>1, InvariantHolds, PTL

\* While ~GenericServer runs, and afterwards, no thread is in sendResponse(), in
\* handleMessage() or in stop() of that server.
THEOREM NobodyUsesADyingServer == Spec => []NothingUsesADyingServer
<1>1. HandlerInvariant => NothingUsesADyingServer
  <2> SUFFICES ASSUME HandlerInvariant PROVE NothingUsesADyingServer
    OBVIOUS
  <2> USE ThreadsAssumption DEF HandlerInvariant, LifeInv, Threads
  <2>0. ThreadTypes
    BY TypeParts
  <2>1. ASSUME NEW u \in Threads, InServer(u)
        PROVE  owners # {} \/ call[u] = "~GenericServer"
    <3>1. CASE u \in Loopers
      BY <2>1, <3>1 DEF InServer, PlacesInv, HandlerInv
    <3>2. CASE u = User
      BY <2>0, <2>1, <3>2 DEF InServer, PlacesInv, HandlerInv, ThreadTypes, Callers
    <3> QED BY <3>1, <3>2
  <2>2. ASSUME NEW t \in Threads, call[t] = "~GenericServer"
        PROVE  owners = {} /\ ~gone /\ \A u \in Threads \ {t} : ~InServer(u)
    BY <2>1, <2>2 DEF DestroyInv
  <2>3. gone => task = "none" /\ \A t \in Threads : ~InServer(t)
    BY <2>1 DEF DestroyInv
  <2> QED BY <2>2, <2>3 DEF NothingUsesADyingServer
<1> QED BY <1>1, InvariantHolds, PTL

\* workerThread is tested and used by one thread at a time, without a lock, and what
\* the test said still holds at the use.
THEOREM OneThreadControls == Spec => []ThreadObjectUsedByOne
<1>1. HandlerInvariant => ThreadObjectUsedByOne
  BY AloneInControl DEF HandlerInvariant, ThreadObjectUsedByOne, ControlInv, Joining
<1> QED BY <1>1, InvariantHolds, PTL

\* After stop() at most one message is left for handleMessage().
THEOREM AtMostOneLeft == Spec => []AtMostOneAfterStop
<1>1. HandlerInvariant => AtMostOneAfterStop
  <2> SUFFICES ASSUME HandlerInvariant, closed, thread = "none" PROVE Len(box) <= 1
    BY DEF AtMostOneAfterStop
  <2>1. Len(box) \in Nat
    BY TypeParts DEF HandlerInvariant, QueueTypes
  <2> QED BY <2>1 DEF HandlerInvariant, RestInv
<1> QED BY <1>1, InvariantHolds, PTL
=============================================================================
