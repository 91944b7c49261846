----------------------- MODULE LinxIpcHandlerProperties -----------------------
(***************************************************************************)
(* What must hold of LinxIpcHandler, and of the life of its server.        *)
(***************************************************************************)
EXTENDS LinxIpcHandler

StopLabels == {"stop", "close", "stopQueue", "join", "stopped"}
ResponseLabels == {"send", "sending", "release"}

\* The types of the members of the handler, the server and its queue.
TypeOK ==
  /\ box \in Seq(Messages)
  /\ closed \in BOOLEAN
  /\ phase \in [Loopers -> {"idle", "asking", "answered"}]
  /\ asked \in [Loopers -> Requests \union {NoRequest}]
  /\ answer \in [Loopers -> Messages \union {NoMessage}]
  /\ open \in BOOLEAN
  /\ thread \in {"none", "joinable"}
  /\ task \in {"none", "receive", "waiting", "add", "exited"}
  /\ hand \in Messages \union {NoMessage}
  /\ coming \subseteq Messages
  /\ owners \subseteq {"user", "handler"} \union Loopers
  /\ gone \in BOOLEAN
  /\ handlers \subseteq Numbers
  /\ pc \in [Threads -> {"idle", "handle", "callback", "create"}
                          \union ResponseLabels \union StopLabels]
  /\ call \in [Threads -> {"none", "stop", "~LinxIpcHandler", "~GenericServer"}]
  /\ msg \in [Loopers -> Messages \union {NoMessage}]
  /\ kept \subseteq Loopers

\* Where a thread uses the server, or members of it.
InServer(t) == pc[t] \in {"handle", "create"} \union ResponseLabels \union StopLabels

\* ~GenericServer runs when no other thread is inside the server or can get there,
\* and when it has ended the worker has too: sendResponse() of a message that
\* outlived the server never touches it.
NothingUsesADyingServer ==
  /\ \A t \in Threads : call[t] = "~GenericServer" =>
       /\ owners = {} /\ ~gone
       /\ \A u \in Threads \ {t} : ~InServer(u)
  /\ gone => /\ task = "none"
             /\ \A t \in Threads : ~InServer(t)

\* GenericServer tests and uses workerThread without a lock.  Of the calls of the
\* handler, of its destructor and of ~GenericServer in whichever thread, two are
\* never inside start() or stop() at once; so what joinable() said still holds when
\* the thread is joined, or replaced by a new one (which ends the process if not).
ThreadObjectUsedByOne ==
  /\ \A t, u \in Threads :
       pc[t] \in StopLabels \union {"create"} /\ pc[u] \in StopLabels \union {"create"} => t = u
  /\ \A t \in Threads :
       /\ pc[t] \in {"close", "stopQueue", "join"} => thread = "joinable"
       /\ pc[t] = "create" => thread = "none"

\* stop() empties the queue, but add() does not look at "stopped": after stop() at
\* most one message, the one the worker held, may still be handed to a callback.
AtMostOneAfterStop ==
  closed /\ thread = "none" => Len(box) <= 1

\* The worker comes out of the receive() of a closed socket.  GenericServer does so if
\* its build loads fd once and no answer to a ping blocks for ever (StopReturns).
WorkerComesOut == []<>~(task = "waiting" /\ ~open)

\* No client that is answered over a unix socket stops reading for ever: its full
\* socket would hold sendResponse() in sendto(), and with it the server.
ResponsesGoOut == \A t \in Loopers : []<>(pc[t] # "sending")

\* When the user has dropped the handler and its own reference, the server is
\* destroyed: neither a message in its queue nor one that was kept holds it, nor, once
\* it has gone out, a response.  ~LinxIpcHandler has joined the worker by then.
UnownedServerIsDestroyed ==
  ResponsesGoOut => (({"user", "handler"} \intersect owners = {}) ~> gone)

\* stop(), ~LinxIpcHandler and ~GenericServer come back, in whichever thread, even
\* beside a response that blocks, if the worker they join comes out of its receive().
StopAndDestructorsReturn ==
  WorkerComesOut =>
    \A t \in Threads : (call[t] # "none") ~> (call[t] = "none")
=============================================================================
