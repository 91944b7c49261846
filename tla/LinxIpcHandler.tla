---------------------------- MODULE LinxIpcHandler ----------------------------
(***************************************************************************)
(* LinxIpcHandler: loopers call handleMessage(), which hands a message of  *)
(* the server to the callback registered for its signal number; callbacks, *)
(* and threads that kept a message, call sendResponse(), which reaches the *)
(* server through a weak pointer.  The user of the library makes handlers, *)
(* calls start() and stop(), destroys the handler and drops its own        *)
(* reference; whoever drops the last one runs ~GenericServer.              *)
(*                                                                         *)
(* The server is the one of LinxServer, which GenericServer implements: it *)
(* is created, started, stopped and destroyed here.                        *)
(***************************************************************************)
EXTENDS Integers, Sequences, LinxMessageFilter

CONSTANTS
  Loopers,   \* threads that call handleMessage() and sendResponse()
  User,      \* the thread that creates and controls the server
  Messages, NoMessage,
  Requests, NoRequest,
  Numbers,   \* the signal numbers callbacks are registered for
  QueueSize

Threads == Loopers \union {User}

ASSUME ThreadsAssumption ==
  User \notin Loopers /\ {"user", "handler"} \intersect Threads = {}
ASSUME NoMessageAssumption == NoMessage \notin Messages

VARIABLES
  box, closed, phase, asked, answer,  \* the queue
  open, thread, task, hand, coming,   \* the socket and the worker
  owners,    \* who holds a shared_ptr to the server
  gone,      \* ~GenericServer has ended
  handlers,  \* the numbers in the map of the handler
  pc,        \* where each thread is
  call,      \* on whose behalf it is in stop()
  msg,       \* the message of the callback it runs
  kept       \* the loopers that kept a message to answer it later

queueVars == <<box, closed, phase, asked, answer>>
workerVars == <<open, thread, task, hand, coming>>
handlerVars == <<owners, gone, handlers, pc, call, msg, kept>>
vars == <<queueVars, workerVars, handlerVars>>

Server == INSTANCE LinxServer WITH Clients <- Loopers, MaxSize <- QueueSize

\* createServer() has returned, and a handler was made for the server.
Init ==
  /\ Server!ServerInit
  /\ owners = {"user", "handler"}
  /\ gone = FALSE
  /\ handlers = {}
  /\ pc = [t \in Threads |-> "idle"]
  /\ call = [t \in Threads |-> "none"]
  /\ msg = [t \in Loopers |-> NoMessage]
  /\ kept = {}

At(t, label) == pc[t] = label
Goto(t, label) == pc' = [pc EXCEPT ![t] = label]
Trans(t, from, to) == At(t, from) /\ Goto(t, to)

-----------------------------------------------------------------------------
(* The worker *)

\* Variant: a message owns its server.
TaskReceiveStrong(m) ==
  /\ Server!TaskReceive(m)
  /\ owners' = owners \union {"message"}
  /\ UNCHANGED <<gone, handlers, pc, call, msg, kept>>

\* The message refers to the server by weak_from_this().
TaskReceive(m) == Server!TaskReceive(m) /\ UNCHANGED handlerVars

TaskAdd == Server!TaskAdd /\ UNCHANGED handlerVars

\* The worker goes into receive(), answers a ping, or ends.
TaskWait ==
  /\ Server!TaskCheck \/ Server!TaskPing \/ Server!TaskExit
  /\ UNCHANGED handlerVars

Task == TaskWait \/ (\E m \in Messages : TaskReceive(m)) \/ TaskAdd

\* What does not come.
Lose == Server!Lose /\ UNCHANGED handlerVars

-----------------------------------------------------------------------------
(* int handleMessage(timeoutMs) *)

\* The handler exists, and nobody has begun to destroy it.
HandlerLives == "handler" \in owners /\ call[User] # "~LinxIpcHandler"

CallHandleMessage(t) ==
  /\ HandlerLives
  /\ Trans(t, "idle", "handle")
  /\ \E r \in Requests : Server!Ask(t, r)
  /\ UNCHANGED <<workerVars, owners, gone, handlers, call, msg, kept>>

HandleReceive(t) ==
  /\ At(t, "handle")
  /\ Server!Take(t) \/ Server!Miss(t)
  /\ UNCHANGED <<workerVars, owners, gone, handlers, pc, call, msg, kept>>

\* Without a message, or without a callback for it, handleMessage() returns.
HandleDispatch(t) ==
  /\ At(t, "handle")
  /\ Server!Collect(t)
  /\ IF answer[t] # NoMessage /\ answer[t].reqId \in handlers
     THEN Goto(t, "callback") /\ msg' = [msg EXCEPT ![t] = answer[t]]
     ELSE Goto(t, "idle") /\ UNCHANGED msg
  /\ UNCHANGED <<workerVars, owners, gone, handlers, call, kept>>

CallbackKeeps(t) ==
  /\ At(t, "callback") /\ t \notin kept
  /\ kept' = kept \union {t}
  /\ UNCHANGED <<queueVars, workerVars, owners, gone, handlers, pc, call, msg>>

CallbackReturns(t) ==
  /\ Trans(t, "callback", "idle")
  /\ msg' = [msg EXCEPT ![t] = NoMessage]
  /\ UNCHANGED <<queueVars, workerVars, owners, gone, handlers, call, kept>>

-----------------------------------------------------------------------------
(* int sendResponse(response) *)

Back(t) == IF t \in Loopers /\ msg[t] # NoMessage THEN "callback" ELSE "idle"

\* t drops the reference of a holder; the last one to do so destroys the server.
LetGo(t, holder) ==
  /\ owners' = owners \ {holder}
  /\ IF owners' = {}
     THEN Goto(t, "stop") /\ call' = [call EXCEPT ![t] = "~GenericServer"]
     ELSE Goto(t, Back(t)) /\ call' = [call EXCEPT ![t] = "none"]

MayRespond(t) == At(t, "callback") \/ (At(t, "idle") /\ t \in kept)

\* Variant: the weak pointer is tested, and a plain pointer used.
TestServer(t) ==
  /\ MayRespond(t)
  /\ owners # {}
  /\ Goto(t, "send")
  /\ kept' = IF At(t, "idle") THEN kept \ {t} ELSE kept
  /\ UNCHANGED <<queueVars, workerVars, owners, gone, handlers, call, msg>>

\* server.lock(); when nobody owns the server, sendResponse() returns -1.  A
\* message that was kept is answered once.
LockServer(t) ==
  /\ MayRespond(t)
  /\ owners # {}
  /\ owners' = owners \union {t}
  /\ Goto(t, "send")
  /\ kept' = IF At(t, "idle") THEN kept \ {t} ELSE kept
  /\ UNCHANGED <<queueVars, workerVars, gone, handlers, call, msg>>

\* srv->send(response, *from), whose result is that of the socket.
SendToSender(t) ==
  /\ Trans(t, "send", "release")
  /\ UNCHANGED <<queueVars, workerVars, owners, gone, handlers, call, msg, kept>>

\* Over unix sockets sendto() waits until there is room at the client, with the
\* reference in its hands, whatever becomes of the socket of the server meanwhile.
SendBlocks(t) ==
  /\ open
  /\ Trans(t, "send", "sending")
  /\ UNCHANGED <<queueVars, workerVars, owners, gone, handlers, call, msg, kept>>

\* The client reads.
SendGoesOut(t) ==
  /\ Trans(t, "sending", "release")
  /\ UNCHANGED <<queueVars, workerVars, owners, gone, handlers, call, msg, kept>>

ReleaseServer(t) ==
  /\ At(t, "release")
  /\ LetGo(t, t)
  /\ UNCHANGED <<queueVars, workerVars, gone, handlers, msg, kept>>

-----------------------------------------------------------------------------
(* The user: registerCallback(), start(), stop(), the life of the handler *)

NobodyHandles == \A t \in Loopers : pc[t] # "handle" /\ msg[t] = NoMessage

\* The map has no lock: nobody may be in handleMessage().
RegisterCallback(n) ==
  /\ At(User, "idle") /\ HandlerLives /\ NobodyHandles
  /\ handlers' = handlers \union {n}
  /\ UNCHANGED <<queueVars, workerVars, owners, gone, pc, call, msg, kept>>

CallStart ==
  /\ HandlerLives
  /\ thread = "none"
  /\ Trans(User, "idle", "create")
  /\ UNCHANGED <<queueVars, workerVars, owners, gone, handlers, call, msg, kept>>

StartCreate ==
  /\ Trans(User, "create", "idle")
  /\ Server!StartWorker
  /\ UNCHANGED <<owners, gone, handlers, call, msg, kept>>

CallStop ==
  /\ HandlerLives
  /\ Trans(User, "idle", "stop")
  /\ call' = [call EXCEPT ![User] = "stop"]
  /\ UNCHANGED <<queueVars, workerVars, owners, gone, handlers, msg, kept>>

\* Variant: the handler gives up its reference before it stops the server.
ReleaseThenStop ==
  /\ HandlerLives /\ NobodyHandles
  /\ Trans(User, "idle", "stop")
  /\ owners' = owners \ {"handler"}
  /\ call' = [call EXCEPT ![User] = "~LinxIpcHandler"]
  /\ UNCHANGED <<queueVars, workerVars, gone, handlers, msg, kept>>

\* ~LinxIpcHandler calls stop() before its members are destroyed.  The caller sees
\* to it that nobody is in handleMessage().
DestroyHandler ==
  /\ HandlerLives /\ NobodyHandles
  /\ Trans(User, "idle", "stop")
  /\ call' = [call EXCEPT ![User] = "~LinxIpcHandler"]
  /\ UNCHANGED <<queueVars, workerVars, owners, gone, handlers, msg, kept>>

MakeHandler ==
  /\ At(User, "idle")
  /\ "user" \in owners /\ "handler" \notin owners
  /\ owners' = owners \union {"handler"}
  /\ handlers' = {}
  /\ UNCHANGED <<queueVars, workerVars, gone, pc, call, msg, kept>>

ResetServer ==
  /\ At(User, "idle") /\ "user" \in owners
  /\ LetGo(User, "user")
  /\ UNCHANGED <<queueVars, workerVars, gone, handlers, msg, kept>>

-----------------------------------------------------------------------------
(* server->stop(), called by the handler, its destructor, or ~GenericServer *)

StopCheck(t) ==
  /\ Trans(t, "stop", IF thread = "joinable" THEN "close" ELSE "stopped")
  /\ UNCHANGED <<queueVars, workerVars, owners, gone, handlers, call, msg, kept>>

\* Variant: the socket is left open.
StopWithoutClose(t) ==
  /\ Trans(t, "close", "stopQueue")
  /\ UNCHANGED <<queueVars, workerVars, owners, gone, handlers, call, msg, kept>>

StopClose(t) ==
  /\ Trans(t, "close", "stopQueue")
  /\ Server!CloseSocket
  /\ UNCHANGED <<owners, gone, handlers, call, msg, kept>>

\* Variant: the queue is stopped, not emptied.
StopQueueKeep(t) ==
  /\ Trans(t, "stopQueue", "join")
  /\ closed' = TRUE
  /\ UNCHANGED <<box, phase, asked, answer, workerVars, owners, gone, handlers, call, msg, kept>>

StopQueue(t) ==
  /\ Trans(t, "stopQueue", "join")
  /\ Server!CloseQueue
  /\ UNCHANGED <<owners, gone, handlers, call, msg, kept>>

StopJoin(t) ==
  /\ Trans(t, "join", "stopped")
  /\ Server!Join
  /\ UNCHANGED <<owners, gone, handlers, call, msg, kept>>

StopReturn(t) ==
  /\ At(t, "stopped") /\ call[t] = "stop"
  /\ Goto(t, "idle")
  /\ call' = [call EXCEPT ![t] = "none"]
  /\ UNCHANGED <<queueVars, workerVars, owners, gone, handlers, msg, kept>>

HandlerDestroyed(t) ==
  /\ At(t, "stopped") /\ call[t] = "~LinxIpcHandler"
  /\ LetGo(t, "handler")
  /\ UNCHANGED <<queueVars, workerVars, gone, handlers, msg, kept>>

\* The members follow: the queue with what is in it, and the socket.
ServerDestroyed(t) ==
  /\ At(t, "stopped") /\ call[t] = "~GenericServer"
  /\ Server!CloseBox
  /\ open' = FALSE
  /\ gone' = TRUE
  /\ Goto(t, Back(t))
  /\ call' = [call EXCEPT ![t] = "none"]
  /\ UNCHANGED <<thread, task, hand, coming, owners, handlers, msg, kept>>

StopStep(t) ==
  \/ StopCheck(t) \/ StopClose(t) \/ StopQueue(t) \/ StopJoin(t)
  \/ StopReturn(t) \/ HandlerDestroyed(t) \/ ServerDestroyed(t)

-----------------------------------------------------------------------------

HandleStep(t) == HandleReceive(t) \/ HandleDispatch(t)
ResponseStep(t) == SendToSender(t) \/ SendBlocks(t) \/ ReleaseServer(t)
UserStep ==
  \/ \E n \in Numbers : RegisterCallback(n)
  \/ CallStart \/ StartCreate \/ CallStop
  \/ DestroyHandler \/ MakeHandler \/ ResetServer

Next ==
  \/ Task \/ Lose
  \/ UserStep
  \/ \E t \in Loopers :
       \/ CallHandleMessage(t) \/ HandleStep(t)
       \/ CallbackKeeps(t) \/ CallbackReturns(t)
       \/ LockServer(t) \/ ResponseStep(t) \/ SendGoesOut(t)
  \/ \E t \in Threads : StopStep(t)

Spec == Init /\ [][Next]_vars

\* The worker and every thread inside a call of the library run.  Nothing says that the
\* worker comes out of receive(), or out of the answer to a ping there, nor that a
\* response that blocks goes out.  Nothing is assumed of the callbacks and of the calls
\* the user makes.
TaskRuns == Task /\ task # "waiting"

FairSpec ==
  /\ Spec
  /\ WF_vars(TaskRuns)
  /\ WF_vars(StartCreate)
  /\ \A t \in Loopers : WF_vars(HandleStep(t)) /\ WF_vars(ResponseStep(t))
  /\ \A t \in Threads : WF_vars(StopStep(t))
=============================================================================
