-------------------------- MODULE GenericServerProofs --------------------------
(***************************************************************************)
(* Theorems about GenericServer, for any clients, controllers, datagrams,  *)
(* requests, room in the socket and size of the queue, and for builds that *)
(* load fd once and twice.                                                 *)
(***************************************************************************)
EXTENDS GenericServerProperties, LinxMessageFilterProofs

-----------------------------------------------------------------------------
(* The socket                                                              *)

SocketTypes ==
  /\ fd \in {Sock!NoFd, Sock!Fd}
  /\ sock \in {"open", "shutdown", "closed"}
  /\ inbox \in Seq(Datagrams) /\ Len(inbox) <= SocketRoom
  /\ at \in [{Worker} -> ReceiveLabels]
  /\ pollFd \in [{Worker} -> {Sock!NoFd, Sock!Fd}]
  /\ avail \in [{Worker} -> Nat]
  /\ ret \in [{Worker} -> Int]
  /\ got \in [{Worker} -> Datagrams \union {NoDatagram}]

\* The worker is alone: the datagram it measured is the one it takes.
MeasuredInv ==
  LET Measured == inbox # <<>> /\ avail[Worker] = Head(inbox).size
  IN  /\ at[Worker] = "recv" => avail[Worker] = 0 \/ sock = "closed" \/ Measured
      /\ at[Worker] = "receiving" => avail[Worker] = 0 \/ Measured

GotInv == at[Worker] = "done" /\ ret[Worker] > 0 => got[Worker] \in Datagrams

SocketInv == SocketTypes /\ MeasuredInv /\ GotInv

\* The size of an uncut datagram is its own.
LEMMA UncutIsWhole ==
  ASSUME NEW d \in Datagrams
  PROVE  [d EXCEPT !.size = d.size] = d /\ d.size \in Nat
BY DatagramAssumption

\* What receive() takes out of the socket it returns whole, or not at all.
LEMMA RecvWhole ==
  ASSUME SocketInv, Sock!RecvDatagram(Worker)
  PROVE  /\ at[Worker] = "receiving" /\ inbox # <<>> /\ Head(inbox) \in Datagrams
         /\ inbox' = Tail(inbox) /\ inbox' \in Seq(Datagrams) /\ Len(inbox') <= SocketRoom
         /\ UNCHANGED <<fd, sock>>
         /\ \/ /\ Sock!Return(Worker, -5, NoDatagram)
               /\ avail[Worker] # Head(inbox).size
            \/ /\ Sock!Return(Worker, -6, NoDatagram)
               /\ avail[Worker] # Head(inbox).size \/ Head(inbox).size < Sock!HeaderSize
            \/ /\ Sock!Return(Worker, Head(inbox).size, Head(inbox))
               /\ Head(inbox).size >= Sock!HeaderSize
<1> DEFINE d == Head(inbox)
           len == IF d.size <= avail[Worker] THEN d.size ELSE avail[Worker]
<1>1. /\ at[Worker] = "receiving" /\ inbox # <<>>
      /\ inbox' = Tail(inbox) /\ UNCHANGED <<fd, sock>>
      /\ IF len # avail[Worker] THEN Sock!Return(Worker, -5, NoDatagram)
         ELSE IF len < Sock!HeaderSize THEN Sock!Return(Worker, -6, NoDatagram)
         ELSE Sock!Return(Worker, len, [d EXCEPT !.size = len])
  BY DEF Sock!RecvDatagram
<1>2. d \in Datagrams /\ inbox' \in Seq(Datagrams) /\ Len(inbox') <= SocketRoom
  BY <1>1, SocketAssumption DEF SocketInv, SocketTypes
<1>3. d.size \in Nat /\ [d EXCEPT !.size = d.size] = d
  BY <1>2, UncutIsWhole
<1>4. avail[Worker] = 0 \/ avail[Worker] = d.size
  BY <1>1 DEF SocketInv, MeasuredInv
<1> HIDE DEF d
<1>5. \/ Sock!Return(Worker, -5, NoDatagram) /\ avail[Worker] # d.size
      \/ /\ Sock!Return(Worker, -6, NoDatagram)
         /\ avail[Worker] # d.size \/ d.size < Sock!HeaderSize
      \/ Sock!Return(Worker, d.size, d) /\ d.size >= Sock!HeaderSize
  BY <1>1, <1>3, <1>4 DEF Sock!HeaderSize
<1> QED BY <1>1, <1>2, <1>5 DEF d

LEMMA ReceiveTypes ==
  ASSUME SocketInv,
         \/ Sock!ReceiveOnClosed(Worker) \/ Sock!ReceiveCheck(Worker)
         \/ Sock!ReceiveStep(Worker) \/ Sock!Interrupted(Worker)
  PROVE  SocketInv' /\ UNCHANGED <<fd, sock>>
<1> USE DEF SocketInv, SocketTypes, MeasuredInv, GotInv, ReceiveLabels, Sock!NoFd, Sock!Fd,
            Sock!Goto
<1>1. CASE Sock!ReceiveOnClosed(Worker) \/ Sock!Interrupted(Worker) \/ Sock!RecvBadFd(Worker)
  BY <1>1 DEF Sock!ReceiveOnClosed, Sock!Interrupted, Sock!RecvBadFd, Sock!Return
<1>2. CASE Sock!ReceiveCheck(Worker)
  BY <1>2 DEF Sock!ReceiveCheck
<1>3. CASE Sock!LoadFd(Worker)
  BY <1>3 DEF Sock!LoadFd
<1>4. CASE Sock!PollInvalid(Worker) \/ Sock!PollEnter(Worker) \/ Sock!PollReady(Worker)
  BY <1>4 DEF Sock!PollInvalid, Sock!PollEnter, Sock!PollReady
<1>5. CASE Sock!Ioctl(Worker)
  <2>1. inbox # <<>> => Head(inbox).size \in Nat
    BY UncutIsWhole
  <2> QED BY <1>5, <2>1 DEF Sock!Ioctl
<1>6. CASE Sock!RecvEnter(Worker)
  BY <1>6 DEF Sock!RecvEnter
<1>7. CASE Sock!RecvDatagram(Worker)
  <2>1. inbox # <<>> => Head(inbox).size \in Nat
    BY UncutIsWhole
  <2> QED BY <1>7, <2>1, RecvWhole DEF Sock!Return
<1>8. CASE Sock!RecvEnd(Worker)
  BY <1>8 DEF Sock!RecvEnd, Sock!Return
<1> QED BY <1>1, <1>2, <1>3, <1>4, <1>5, <1>6, <1>7, <1>8 DEF Sock!ReceiveStep

LEMMA LeaveTypes ==
  ASSUME SocketInv, Sock!ReceiveLeave(Worker)
  PROVE  SocketInv' /\ at'[Worker] = "idle" /\ UNCHANGED <<fd, sock>>
BY DEF SocketInv, SocketTypes, MeasuredInv, GotInv, ReceiveLabels, Sock!ReceiveLeave

LEMMA ArriveTypes ==
  ASSUME SocketInv, NEW d \in Datagrams, Sock!Arrive(d)
  PROVE  SocketInv' /\ UNCHANGED <<at, fd, sock>>
<1>1. /\ inbox' = Append(inbox, d) /\ inbox \in Seq(Datagrams) /\ Len(inbox) < SocketRoom
      /\ UNCHANGED <<fd, sock, at, pollFd, avail, ret, got>>
  BY DEF Sock!Arrive, Sock!callVars, SocketInv, SocketTypes
<1>2. /\ inbox' \in Seq(Datagrams) /\ Len(inbox') <= SocketRoom
      /\ inbox # <<>> => inbox' # <<>> /\ Head(inbox') = Head(inbox)
  BY <1>1, SocketAssumption
<1> QED BY <1>1, <1>2 DEF SocketInv, SocketTypes, MeasuredInv, GotInv

LEMMA CloseSocketTypes ==
  ASSUME SocketInv, Sock!Shutdown \/ Sock!CloseFd \/ Sock!ForgetFd
  PROVE  SocketInv' /\ UNCHANGED <<at, got>>
<1> USE DEF SocketInv, SocketTypes, MeasuredInv, GotInv, Sock!callVars
<1>1. CASE Sock!Shutdown
  BY <1>1 DEF Sock!Shutdown
<1>2. CASE Sock!CloseFd
  BY <1>2, EmptySeq, SocketAssumption DEF Sock!CloseFd
<1>3. CASE Sock!ForgetFd
  BY <1>3 DEF Sock!ForgetFd
<1> QED BY <1>1, <1>2, <1>3

-----------------------------------------------------------------------------
(* The queue                                                               *)

\* The instance has its own copies of the operators it extends.
LEMMA SameOperators ==
  /\ \A s, f : Queue!FirstMatch(s, f) = FirstMatch(s, f)
  /\ \A s, i : Queue!RemoveAt(s, i) = RemoveAt(s, i)
BY DEF Queue!FirstMatch, Queue!SelectInSeq, Queue!Min, Queue!Matches,
       Queue!matchesFrom, Queue!matchesSignalSelector, Queue!SameIdentifier,
       Queue!isEqual, Queue!AnyFrom, Queue!RemoveAt,
       FirstMatch, SelectInSeq, Min, Matches, matchesFrom, matchesSignalSelector,
       SameIdentifier, isEqual, AnyFrom, RemoveAt

QueueTypes ==
  /\ box \in Seq(Datagrams)
  /\ closed \in BOOLEAN
  /\ phase \in [Apps -> {"idle", "asking", "answered"}]
  /\ asked \in [Apps -> Requests \union {NoRequest}]
  /\ answer \in [Apps -> Datagrams \union {NoDatagram}]

LEMMA TakeTypes ==
  ASSUME QueueTypes, NEW a \in Apps, Queue!Take(a)
  PROVE  QueueTypes' /\ UNCHANGED closed
<1> DEFINE i == FirstMatch(box, asked[a].filter)
<1>1. /\ i # 0
      /\ answer' = [answer EXCEPT ![a] = box[i]]
      /\ box' = RemoveAt(box, i)
      /\ phase' = [phase EXCEPT ![a] = "answered"]
      /\ UNCHANGED <<closed, asked>>
  BY SameOperators DEF Queue!Take
<1>2. i \in 1..Len(box)
  BY <1>1, FirstMatchProperties DEF QueueTypes
<1> HIDE DEF i
<1>3. box' \in Seq(Datagrams) /\ box[i] \in Datagrams
  BY <1>1, <1>2, RemoveAtProperties DEF QueueTypes
<1> QED BY <1>1, <1>3 DEF QueueTypes

LEMMA RequestTypes ==
  ASSUME QueueTypes, NEW a \in Apps,
         \/ \E r \in Requests : Queue!Ask(a, r)
         \/ Queue!Take(a)
         \/ Queue!Miss(a)
         \/ Queue!Collect(a)
  PROVE  QueueTypes' /\ UNCHANGED closed
<1>1. CASE Queue!Take(a)
  BY <1>1, TakeTypes
<1>2. CASE (\E r \in Requests : Queue!Ask(a, r)) \/ Queue!Miss(a) \/ Queue!Collect(a)
  BY <1>2 DEF QueueTypes, Queue!Ask, Queue!Miss, Queue!Collect
<1> QED BY <1>1, <1>2

LEMMA PutTypes ==
  ASSUME QueueTypes, NEW d \in Datagrams, Queue!Put(d)
  PROVE  QueueTypes' /\ UNCHANGED closed
BY DEF QueueTypes, Queue!Put

LEMMA CloseTypes ==
  ASSUME QueueTypes, Queue!CloseBox
  PROVE  QueueTypes' /\ closed'
BY EmptySeq DEF QueueTypes, Queue!CloseBox

-----------------------------------------------------------------------------
(* The server                                                              *)

ControlLabels == {"idle"} \union StartLabels \union StopLabels

\* The worker has received a message where it answers or adds one.
ServerTypes ==
  /\ thread \in {"none", "joinable"}
  /\ task \in TaskLabels /\ full \in BOOLEAN
  /\ ctl \in [Controllers -> ControlLabels]
  /\ arrived \in Seq(Datagrams)
  /\ replied \union discarded \union delivered \subseteq Datagrams
  /\ task \in {"ping", "sending", "add"} => at[Worker] = "done" /\ got[Worker] \in Datagrams

ServerInv == SocketInv /\ QueueTypes /\ ServerTypes

LEMMA ServerInit == Init => ServerInv
<1> SUFFICES ASSUME Init PROVE ServerInv
  OBVIOUS
<1>1. SocketInv
  BY EmptySeq, SocketAssumption DEF Init, Sock!SocketInit, SocketInv, SocketTypes, MeasuredInv, GotInv,
     ReceiveLabels
<1>2. QueueTypes
  BY EmptySeq DEF Init, Queue!MailboxInit, QueueTypes
<1>3. ServerTypes
  BY EmptySeq DEF Init, ServerTypes, TaskLabels, ControlLabels
<1> QED BY <1>1, <1>2, <1>3 DEF ServerInv

LEMMA Unchanged ==
  ASSUME ServerInv
  PROVE  /\ UNCHANGED socketVars => SocketInv'
         /\ UNCHANGED queueVars => QueueTypes'
<1>1. UNCHANGED socketVars => SocketInv'
  BY DEF ServerInv, socketVars, SocketInv, SocketTypes, MeasuredInv, GotInv
<1>2. UNCHANGED queueVars => QueueTypes'
  BY DEF ServerInv, queueVars, QueueTypes
<1> QED BY <1>1, <1>2

LEMMA ServerNext == ServerInv /\ [Next]_vars => ServerInv'
<1> SUFFICES ASSUME ServerInv, [Next]_vars PROVE SocketInv' /\ QueueTypes' /\ ServerTypes'
  BY DEF ServerInv
<1>0. /\ SocketInv /\ QueueTypes /\ ServerTypes
      /\ UNCHANGED socketVars => SocketInv'
      /\ UNCHANGED queueVars => QueueTypes'
  BY Unchanged DEF ServerInv
<1> USE DEF ServerTypes, TaskLabels, ControlLabels, StartLabels, StopLabels, Control, history
<1>1. CASE UNCHANGED vars
  BY <1>0, <1>1 DEF vars, socketVars
<1>2. ASSUME NEW d \in Datagrams, ClientSend(d) PROVE SocketInv' /\ QueueTypes' /\ ServerTypes'
  BY <1>0, <1>2, ArriveTypes DEF ClientSend, Sock!Arrive, Sock!callVars
<1>3. CASE ClientFillsOrReads
  BY <1>0, <1>3 DEF ClientFillsOrReads, socketVars
<1>4. CASE TaskReceive \/ TaskInterrupted
  BY <1>0, <1>4, ReceiveTypes DEF TaskReceive, TaskInterrupted
<1>5. CASE TaskExit
  BY <1>0, <1>5, LeaveTypes DEF TaskExit
<1>6. CASE TaskDispatch
  BY <1>0, <1>6 DEF TaskDispatch, SocketInv, GotInv, socketVars
<1>7. CASE TaskPing \/ TaskUnblock
  <2>1. got[Worker] \in Datagrams
    BY <1>0, <1>7 DEF TaskPing, TaskUnblock
  <2>2. SocketInv' /\ QueueTypes'
    BY <1>0, <1>7, LeaveTypes DEF TaskPing, TaskUnblock
  <2>3. ServerTypes'
    BY <1>0, <1>7, <2>1 DEF TaskPing, TaskUnblock
  <2> QED BY <2>2, <2>3
<1>8. CASE TaskBlock
  BY <1>0, <1>8 DEF TaskBlock, socketVars
<1>9. CASE TaskAdd
  BY <1>0, <1>9, LeaveTypes, PutTypes DEF TaskAdd
<1>10. CASE TaskDiscard
  <2>1. got[Worker] \in Datagrams
    BY <1>0, <1>10 DEF TaskDiscard
  <2>2. SocketInv' /\ QueueTypes'
    BY <1>0, <1>10, LeaveTypes DEF TaskDiscard
  <2>3. ServerTypes'
    BY <1>0, <1>10, <2>1 DEF TaskDiscard
  <2> QED BY <2>2, <2>3
<1>11. ASSUME NEW t \in Controllers, StartCheck(t) \/ StartCreate(t) \/ StopCheck(t) \/ StopJoin(t)
       PROVE  SocketInv' /\ QueueTypes' /\ ServerTypes'
  BY <1>0, <1>11 DEF StartCheck, StartCreate, StopCheck, StopJoin, socketVars
<1>12. ASSUME NEW t \in Controllers, StopShutdown(t) \/ StopCloseFd(t) \/ StopForgetFd(t)
       PROVE  SocketInv' /\ QueueTypes' /\ ServerTypes'
  <2>1. SocketInv' /\ QueueTypes' /\ UNCHANGED <<at, got>>
    BY <1>0, <1>12, CloseSocketTypes DEF StopShutdown, StopCloseFd, StopForgetFd
  <2>2. ServerTypes'
    BY <1>0, <1>12, <2>1 DEF StopShutdown, StopCloseFd, StopForgetFd
  <2> QED BY <2>1, <2>2
<1>13. ASSUME NEW t \in Controllers, StopQueue(t) PROVE SocketInv' /\ QueueTypes' /\ ServerTypes'
  BY <1>0, <1>13, CloseTypes DEF StopQueue, socketVars
<1>14. ASSUME NEW a \in Apps, ReceiveAsk(a) \/ ReceiveReply(a)
       PROVE  SocketInv' /\ QueueTypes' /\ ServerTypes'
  <2>1. QueueTypes'
    BY <1>0, <1>14, RequestTypes DEF ReceiveAsk, ReceiveReply
  <2>2. SocketInv' /\ ServerTypes'
    BY <1>0, <1>14 DEF ReceiveAsk, ReceiveReply, socketVars
  <2> QED BY <2>1, <2>2
<1>15. ASSUME NEW a \in Apps, ReceiveReturn(a) PROVE SocketInv' /\ QueueTypes' /\ ServerTypes'
  <2>1. QueueTypes'
    BY <1>0, <1>15, RequestTypes DEF ReceiveReturn
  <2>2. answer[a] \in Datagrams \union {NoDatagram}
    BY <1>0 DEF QueueTypes
  <2>3. SocketInv' /\ ServerTypes'
    BY <1>0, <1>15, <2>2 DEF ReceiveReturn, socketVars
  <2> QED BY <2>1, <2>3
<1> QED
  BY <1>1, <1>2, <1>3, <1>4, <1>5, <1>6, <1>7, <1>8, <1>9, <1>10, <1>11, <1>12, <1>13,
     <1>14, <1>15
  DEF Next, Task, StopStep

LEMMA ServerInvariant == Spec => []ServerInv
BY ServerInit, ServerNext, PTL DEF Spec

\* The members of the server, of its socket and of its queue have their types: the
\* size the worker measured is that of the datagram it takes, so that receive() never
\* returns one that was cut.
THEOREM ServerTypesHold == Spec => []TypeOK
<1>1. ServerInv => TypeOK
  <2>1. arrived \in Seq(Datagrams) => ToSet(arrived) \subseteq Datagrams
    BY DEF ToSet
  <2> QED BY <2>1 DEF ServerInv, SocketInv, SocketTypes, QueueTypes, ServerTypes, ControlLabels,
             TypeOK
<1> QED BY <1>1, ServerInvariant, PTL

-----------------------------------------------------------------------------
(* stop()                                                                  *)

\* start() and stop() are called by one thread: they have no lock.
OneController == \A t, u \in Controllers : t = u

\* How far stop() is tells what is left of the socket and of the worker.
StopInv ==
  /\ \A t \in Controllers :
       /\ ctl[t] \in StopLabels => thread = "joinable"
       /\ ctl[t] \in {"shutdown", "close", "forget"} => fd = Sock!Fd
       /\ ctl[t] = "close" => sock # "open"
       /\ ctl[t] = "forget" => sock = "closed"
       /\ ctl[t] = "stopQueue" => fd = Sock!NoFd
       /\ ctl[t] = "join" => closed
  /\ fd = Sock!NoFd => sock = "closed"
  /\ closed => fd = Sock!NoFd
  /\ thread = "none" <=> task = "none"
  /\ task \in {"none", "exited"} => at[Worker] = "idle"

LEMMA StopInit == Init => StopInv
BY DEF Init, StopInv, Sock!SocketInit, Queue!MailboxInit, StopLabels, Sock!NoFd, Sock!Fd

LEMMA StopNext ==
  ASSUME OneController
  PROVE  ServerInv /\ StopInv /\ [Next]_vars => StopInv'
<1> SUFFICES ASSUME ServerInv, StopInv, [Next]_vars PROVE StopInv'
  OBVIOUS
<1>0. SocketInv /\ SocketTypes /\ QueueTypes /\ ServerTypes
  BY DEF ServerInv, SocketInv
<1> USE DEF StopInv, StopLabels, Control, history, Sock!NoFd, Sock!Fd
<1>1. CASE UNCHANGED <<fd, sock, at, closed, thread, task, ctl>>
  BY <1>1
<1>2. ASSUME NEW d \in Datagrams, ClientSend(d) PROVE StopInv'
  BY <1>0, <1>1, <1>2, ArriveTypes DEF ClientSend, queueVars
<1>3. CASE ClientFillsOrReads \/ TaskDispatch \/ TaskBlock
  BY <1>3 DEF ClientFillsOrReads, TaskDispatch, TaskBlock, socketVars, queueVars
<1>4. CASE TaskReceive \/ TaskInterrupted
  BY <1>0, <1>4, ReceiveTypes DEF TaskReceive, TaskInterrupted, queueVars
<1>5. CASE TaskExit \/ TaskPing \/ TaskUnblock \/ TaskDiscard
  BY <1>0, <1>5, LeaveTypes DEF TaskExit, TaskPing, TaskUnblock, TaskDiscard, queueVars
<1>6. CASE TaskAdd
  BY <1>0, <1>6, LeaveTypes, PutTypes DEF TaskAdd, ServerTypes
<1>7. ASSUME NEW t \in Controllers, StartCheck(t) \/ StartCreate(t) \/ StopCheck(t) \/ StopJoin(t)
      PROVE  StopInv'
  <2>0. \A u \in Controllers : u = t
    BY DEF OneController
  <2>1. CASE StartCheck(t)
    BY <1>0, <2>0, <2>1 DEF StartCheck, socketVars, queueVars, ServerTypes
  <2>2. CASE StartCreate(t)
    BY <1>0, <2>0, <2>2 DEF StartCreate, socketVars, queueVars, ServerTypes
  <2>3. CASE StopCheck(t)
    BY <1>0, <2>0, <2>3 DEF StopCheck, socketVars, queueVars, ServerTypes, SocketTypes
  <2>4. CASE StopJoin(t)
    BY <1>0, <2>0, <2>4 DEF StopJoin, socketVars, queueVars, ServerTypes
  <2> QED BY <1>7, <2>1, <2>2, <2>3, <2>4
<1>8. ASSUME NEW t \in Controllers, StopShutdown(t) \/ StopCloseFd(t) \/ StopForgetFd(t)
      PROVE  StopInv'
  BY <1>0, <1>8 DEF StopShutdown, StopCloseFd, StopForgetFd, Sock!Shutdown, Sock!CloseFd, Sock!ForgetFd,
     Sock!callVars, queueVars, ServerTypes, OneController
<1>9. ASSUME NEW t \in Controllers, StopQueue(t) PROVE StopInv'
  BY <1>0, <1>9, CloseTypes DEF StopQueue, socketVars, ServerTypes, OneController
<1>10. ASSUME NEW a \in Apps, ReceiveAsk(a) \/ ReceiveReply(a) \/ ReceiveReturn(a) PROVE StopInv'
  BY <1>0, <1>1, <1>10, RequestTypes DEF ReceiveAsk, ReceiveReply, ReceiveReturn, socketVars
<1> QED
  BY <1>1, <1>2, <1>3, <1>4, <1>5, <1>6, <1>7, <1>8, <1>9, <1>10
  DEF Next, Task, StopStep, vars, socketVars, queueVars

\* When stop(), which one thread calls, has come back to a server that was running,
\* its worker has ended outside receive() and its socket is closed.
THEOREM StopLeavesNothing ==
  ASSUME OneController
  PROVE  Spec => []JoinedAndClosed
<1>1. Init => ServerInv /\ StopInv
  BY ServerInit, StopInit
<1>2. ServerInv /\ StopInv /\ [Next]_vars => (ServerInv /\ StopInv)'
  BY ServerNext, StopNext
<1>3. ServerInv /\ StopInv => JoinedAndClosed
  BY DEF StopInv, JoinedAndClosed
<1> QED BY <1>1, <1>2, <1>3, PTL DEF Spec

-----------------------------------------------------------------------------
(* The system calls of the worker                                          *)

\* A build that loads fd once polls what it tested; and past poll the worker, which is
\* alone, finds what poll reported.
ReadyInv ==
  /\ at[Worker] # "load"
  /\ at[Worker] \in {"poll", "polling"} => pollFd[Worker] = Sock!Fd
  /\ at[Worker] \in {"ioctl", "recv", "receiving"} => Sock!Readable

LEMMA ReadyNext ==
  ASSUME FdLoads = "once"
  PROVE  ServerInv /\ ReadyInv /\ [Next]_vars => ReadyInv'
<1> SUFFICES ASSUME ServerInv, ReadyInv, [Next]_vars PROVE ReadyInv'
  OBVIOUS
<1>0. SocketTypes /\ ReadyInv
  BY DEF ServerInv, SocketInv
<1> USE <1>0 DEF ReadyInv, SocketTypes, Sock!Readable
<1>1. CASE UNCHANGED socketVars
  BY <1>1 DEF socketVars
<1>2. ASSUME NEW d \in Datagrams, ClientSend(d) PROVE ReadyInv'
  BY <1>2 DEF ClientSend, Sock!Arrive, Sock!callVars
<1>3. CASE TaskReceive \/ TaskInterrupted
  <2> USE DEF Sock!Goto, Sock!Return, ReceiveLabels, Sock!NoFd, Sock!Fd
  <2>1. CASE Sock!ReceiveOnClosed(Worker) \/ Sock!Interrupted(Worker)
    BY <2>1 DEF Sock!ReceiveOnClosed, Sock!Interrupted
  <2>2. CASE Sock!ReceiveCheck(Worker)
    BY <2>2 DEF Sock!ReceiveCheck
  <2>3. CASE Sock!LoadFd(Worker) \/ Sock!PollInvalid(Worker) \/ Sock!PollEnter(Worker)
    BY <2>3 DEF Sock!LoadFd, Sock!PollInvalid, Sock!PollEnter
  <2>4. CASE Sock!PollReady(Worker)
    BY <2>4 DEF Sock!PollReady
  <2>5. CASE Sock!Ioctl(Worker) \/ Sock!RecvBadFd(Worker) \/ Sock!RecvEnter(Worker)
    BY <2>5 DEF Sock!Ioctl, Sock!RecvBadFd, Sock!RecvEnter
  <2>6. CASE Sock!RecvDatagram(Worker) \/ Sock!RecvEnd(Worker)
    <3>1. at' = [at EXCEPT ![Worker] = "done"]
      BY <2>6 DEF Sock!RecvDatagram, Sock!RecvEnd
    <3> QED BY <3>1
  <2> QED
    BY <1>3, <2>1, <2>2, <2>3, <2>4, <2>5, <2>6
    DEF TaskReceive, TaskInterrupted, Sock!ReceiveStep
<1>4. CASE Sock!ReceiveLeave(Worker)
  BY <1>4 DEF Sock!ReceiveLeave
<1>5. ASSUME NEW t \in Controllers, StopShutdown(t) \/ StopCloseFd(t) \/ StopForgetFd(t)
      PROVE  ReadyInv'
  BY <1>5 DEF StopShutdown, StopCloseFd, StopForgetFd, Sock!Shutdown, Sock!CloseFd,
     Sock!ForgetFd, Sock!callVars
<1>6. CASE Task /\ ~TaskReceive
  <2>1. UNCHANGED socketVars \/ Sock!ReceiveLeave(Worker)
    BY <1>6 DEF Task, TaskExit, TaskDispatch, TaskPing, TaskBlock, TaskUnblock, TaskAdd,
       TaskDiscard
  <2> QED BY <1>1, <1>4, <2>1
<1>7. ASSUME NEW t \in Controllers,
             StartCheck(t) \/ StartCreate(t) \/ StopCheck(t) \/ StopQueue(t) \/ StopJoin(t)
      PROVE  ReadyInv'
  BY <1>1, <1>7 DEF StartCheck, StartCreate, StopCheck, StopQueue, StopJoin
<1>8. ASSUME NEW a \in Apps, ReceiveAsk(a) \/ ReceiveReply(a) \/ ReceiveReturn(a)
      PROVE  ReadyInv'
  BY <1>1, <1>8 DEF ReceiveAsk, ReceiveReply, ReceiveReturn
<1>9. CASE ClientFillsOrReads \/ UNCHANGED vars
  BY <1>1, <1>9 DEF ClientFillsOrReads, vars
<1> HIDE <1>0 DEF ReadyInv, SocketTypes, Sock!Readable
<1> QED BY <1>2, <1>3, <1>5, <1>6, <1>7, <1>8, <1>9 DEF Next, Task, StopStep

\* In a build that loads fd once, a stop() that one thread calls ends whatever system call
\* of socket->receive it finds the worker in, and the worker waits in none afterwards: only
\* the answer to a ping, in the sendto() of the socket, may hold it then.
THEOREM StopFreesReceive ==
  ASSUME OneController, FdLoads = "once"
  PROVE  Spec => []OnlyAnAnswerHoldsStop
<1>1. Init => ServerInv /\ StopInv /\ ReadyInv
  BY ServerInit, StopInit DEF Init, Sock!SocketInit, ReadyInv
<1>2. ServerInv /\ StopInv /\ ReadyInv /\ [Next]_vars => (ServerInv /\ StopInv /\ ReadyInv)'
  BY ServerNext, StopNext, ReadyNext
<1>3. ServerInv /\ StopInv /\ ReadyInv => OnlyAnAnswerHoldsStop
  BY DEF ServerInv, SocketInv, SocketTypes, ServerTypes, ControlLabels, StopLabels, StopInv,
     ReadyInv, OnlyAnAnswerHoldsStop, Held, HeldInReceive, Sock!Readable, Sock!Fd, Sock!NoFd
<1> QED BY <1>1, <1>2, <1>3, PTL DEF Spec

-----------------------------------------------------------------------------
(* The way of a datagram                                                   *)

\* The worker holds a datagram only when receive() returned one.
HandInv ==
  /\ at[Worker] # "done" => got[Worker] = NoDatagram
  /\ at[Worker] = "done" /\ ret[Worker] <= 0 => got[Worker] = NoDatagram

\* The queue, the hand of the worker and the socket hold datagrams in the order in
\* which these arrived.
OrderInv ==
  /\ Injective(arrived)
  /\ InOrder(box, arrived) /\ InOrder(inbox, arrived)
  /\ \A x \in ToSet(box) : \A y \in InHand \union ToSet(inbox) : Earlier(arrived, x, y)
  /\ \A x \in InHand : \A y \in ToSet(inbox) : Earlier(arrived, x, y)
  /\ ToSet(box) \union InHand \union ToSet(inbox) \subseteq ToSet(arrived)

\* What is next on the way: how each step of the server changes it.
Nothing == UNCHANGED <<arrived, inbox, box>> /\ InHand' = InHand
Arrives(d) ==
  /\ arrived' = Append(arrived, d) /\ inbox' = Append(inbox, d) /\ d \notin ToSet(arrived)
  /\ UNCHANGED box /\ InHand' = InHand
Taken ==
  /\ inbox # <<>> /\ inbox' = Tail(inbox) /\ InHand = {} /\ InHand' \subseteq {Head(inbox)}
  /\ UNCHANGED <<arrived, box>>
Dealt == InHand' = {} /\ UNCHANGED <<arrived, inbox, box>>
Queued(d) ==
  InHand = {d} /\ InHand' = {} /\ box' = Append(box, d) /\ UNCHANGED <<arrived, inbox>>
Fetched(i) ==
  i \in 1..Len(box) /\ box' = RemoveAt(box, i) /\ UNCHANGED <<arrived, inbox>> /\ InHand' = InHand
Dropped ==
  /\ inbox' \in {inbox, <<>>} /\ box' \in {box, <<>>}
  /\ UNCHANGED arrived /\ InHand' = InHand

Moves ==
  \/ Nothing \/ Taken \/ Dealt \/ Dropped
  \/ \E d \in Datagrams : Arrives(d) \/ Queued(d)
  \/ \E i \in 1..Len(box) : Fetched(i)

LEMMA OrderKept ==
  ASSUME ServerInv, OrderInv, Moves
  PROVE  OrderInv'
<1>0. /\ box \in Seq(Datagrams) /\ inbox \in Seq(Datagrams) /\ arrived \in Seq(Datagrams)
      /\ Injective(box) /\ Injective(inbox)
  BY OrderedIsInjective DEF ServerInv, SocketInv, SocketTypes, QueueTypes, ServerTypes, OrderInv
<1>1. CASE Nothing
  BY <1>1 DEF Nothing, OrderInv
<1>2. CASE Taken
  BY <1>0, <1>2, TailKeeps DEF Taken, OrderInv
<1>3. CASE Dealt
  BY <1>3 DEF Dealt, OrderInv
<1>4. CASE Dropped
  BY <1>4, EmptyKeeps DEF Dropped, OrderInv
<1>5. ASSUME NEW d \in Datagrams, Arrives(d) PROVE OrderInv'
  <2>1. /\ Injective(arrived') /\ ToSet(arrived') = ToSet(arrived) \union {d}
        /\ \A x, y : Earlier(arrived, x, y) => Earlier(arrived', x, y)
        /\ \A x \in ToSet(arrived) : Earlier(arrived', x, d)
    BY <1>0, <1>5, AppendKeeps DEF Arrives, OrderInv
  <2>2. ToSet(inbox') = ToSet(inbox) \union {d}
    BY <1>0, <1>5, AppendKeeps DEF Arrives
  <2>3. InOrder(box', arrived') /\ InOrder(inbox, arrived')
    BY <1>5, <2>1 DEF Arrives, OrderInv, InOrder
  <2>4. InOrder(inbox', arrived')
    BY <1>0, <1>5, <2>1, <2>3, AppendInOrder DEF Arrives, OrderInv
  <2> QED BY <1>5, <2>1, <2>2, <2>3, <2>4 DEF Arrives, OrderInv
<1>6. ASSUME NEW d \in Datagrams, Queued(d) PROVE OrderInv'
  <2>1. ToSet(box') = ToSet(box) \union {d}
    BY <1>0, <1>6, AppendKeeps DEF Queued
  <2>2. InOrder(box', arrived)
    BY <1>0, <1>6, AppendInOrder DEF Queued, OrderInv
  <2> QED BY <1>6, <2>1, <2>2 DEF Queued, OrderInv
<1>7. ASSUME NEW i \in 1..Len(box), Fetched(i) PROVE OrderInv'
  BY <1>0, <1>7, RemoveKeeps DEF Fetched, OrderInv
<1> QED BY <1>1, <1>2, <1>3, <1>4, <1>5, <1>6, <1>7 DEF Moves

LEMMA ReceiveMoves ==
  ASSUME SocketInv, HandInv,
         \/ Sock!ReceiveOnClosed(Worker) \/ Sock!ReceiveCheck(Worker)
         \/ Sock!ReceiveStep(Worker) \/ Sock!Interrupted(Worker)
  PROVE  /\ HandInv'
         /\ \/ UNCHANGED inbox /\ InHand' = InHand
            \/ /\ inbox # <<>> /\ inbox' = Tail(inbox)
               /\ InHand = {} /\ InHand' \subseteq {Head(inbox)}
<1>0. SocketTypes
  BY DEF SocketInv
<1> USE DEF HandInv, InHand
<1>1. ASSUME NEW r, Sock!Return(Worker, r, NoDatagram), at[Worker] # "done", UNCHANGED inbox
      PROVE  HandInv' /\ UNCHANGED inbox /\ InHand' = InHand
  BY <1>0, <1>1 DEF Sock!Return, SocketTypes
<1>2. ASSUME NEW label, Sock!Goto(Worker, label), at[Worker] # "done", label # "done",
             UNCHANGED inbox
      PROVE  HandInv' /\ UNCHANGED inbox /\ InHand' = InHand
  BY <1>0, <1>2 DEF Sock!Goto, SocketTypes
<1>3. CASE \/ Sock!ReceiveOnClosed(Worker) \/ Sock!Interrupted(Worker)
           \/ Sock!RecvBadFd(Worker) \/ Sock!RecvEnd(Worker)
  BY <1>1, <1>3 DEF Sock!ReceiveOnClosed, Sock!Interrupted, Sock!RecvBadFd, Sock!RecvEnd
<1>4. CASE \/ Sock!ReceiveCheck(Worker) \/ Sock!LoadFd(Worker) \/ Sock!PollInvalid(Worker)
           \/ Sock!PollEnter(Worker) \/ Sock!PollReady(Worker)
  BY <1>2, <1>4
  DEF Sock!ReceiveCheck, Sock!LoadFd, Sock!PollInvalid, Sock!PollEnter, Sock!PollReady
<1>5. CASE Sock!Ioctl(Worker) \/ Sock!RecvEnter(Worker)
  BY <1>2, <1>5 DEF Sock!Ioctl, Sock!RecvEnter
<1>6. CASE Sock!RecvDatagram(Worker)
  <2>1. Head(inbox).size \in Nat
    BY <1>6, RecvWhole, UncutIsWhole
  <2> QED BY <1>0, <1>6, <2>1, RecvWhole DEF Sock!Return, Sock!HeaderSize, SocketTypes
<1> QED BY <1>3, <1>4, <1>5, <1>6 DEF Sock!ReceiveStep

LEMMA LeaveMoves ==
  ASSUME SocketInv, Sock!ReceiveLeave(Worker)
  PROVE  HandInv' /\ InHand' = {} /\ UNCHANGED inbox
BY DEF SocketInv, SocketTypes, Sock!ReceiveLeave, HandInv, InHand

LEMMA StepMoves == ServerInv /\ HandInv /\ [Next]_vars => HandInv' /\ Moves
<1> SUFFICES ASSUME ServerInv, HandInv, [Next]_vars PROVE HandInv' /\ Moves
  OBVIOUS
<1>0. SocketInv /\ SocketTypes /\ QueueTypes /\ ServerTypes
  BY DEF ServerInv, SocketInv
<1>1. ASSUME UNCHANGED <<at, ret, got>> PROVE HandInv' /\ InHand' = InHand
  BY <1>1 DEF HandInv, InHand
<1>2. CASE UNCHANGED <<arrived, inbox, box, at, ret, got>>
  BY <1>1, <1>2 DEF Moves, Nothing
<1>3. ASSUME NEW d \in Datagrams, ClientSend(d) PROVE HandInv' /\ Moves
  BY <1>1, <1>3 DEF ClientSend, Sock!Arrive, Sock!callVars, queueVars, Moves, Arrives
<1>4. CASE TaskReceive \/ TaskInterrupted
  <2>1. UNCHANGED <<arrived, box>>
    BY <1>4 DEF TaskReceive, TaskInterrupted, history, queueVars
  <2> QED BY <1>0, <1>4, <2>1, ReceiveMoves DEF TaskReceive, TaskInterrupted, Moves, Nothing, Taken
<1>5. CASE TaskExit \/ TaskPing \/ TaskUnblock \/ TaskDiscard
  <2>1. UNCHANGED <<arrived, box>> /\ Sock!ReceiveLeave(Worker)
    BY <1>5 DEF TaskExit, TaskPing, TaskUnblock, TaskDiscard, history, queueVars
  <2> QED BY <1>0, <2>1, LeaveMoves DEF Moves, Dealt
<1>6. CASE TaskAdd
  <2> DEFINE d == got[Worker]
  <2>1. d \in Datagrams
    BY <1>0, <1>6 DEF TaskAdd, ServerTypes
  <2>2. InHand = {d}
    BY <2>1, DatagramAssumption DEF InHand
  <2>3. box' = Append(box, d) /\ UNCHANGED arrived /\ Sock!ReceiveLeave(Worker)
    BY <1>6 DEF TaskAdd, history, Queue!Put
  <2>4. HandInv' /\ Queued(d)
    BY <1>0, <2>2, <2>3, LeaveMoves DEF Queued
  <2> QED BY <2>1, <2>4 DEF Moves
<1>7. CASE TaskDispatch \/ TaskBlock \/ ClientFillsOrReads
  BY <1>2, <1>7 DEF TaskDispatch, TaskBlock, ClientFillsOrReads, socketVars, queueVars, history
<1>8. ASSUME NEW t \in Controllers,
             \/ StartCheck(t) \/ StartCreate(t) \/ StopCheck(t) \/ StopJoin(t)
             \/ StopShutdown(t) \/ StopForgetFd(t)
      PROVE  HandInv' /\ Moves
  BY <1>2, <1>8
  DEF StartCheck, StartCreate, StopCheck, StopJoin, StopShutdown, StopForgetFd, Sock!Shutdown,
      Sock!ForgetFd, Sock!callVars, socketVars, queueVars, history
<1>9. ASSUME NEW t \in Controllers, StopCloseFd(t) \/ StopQueue(t) PROVE HandInv' /\ Moves
  BY <1>1, <1>9
  DEF StopCloseFd, StopQueue, Sock!CloseFd, Queue!CloseBox, Sock!callVars, socketVars, queueVars,
      history, Moves, Dropped
<1>10. ASSUME NEW a \in Apps, Queue!Take(a), UNCHANGED socketVars, UNCHANGED arrived
       PROVE  HandInv' /\ Moves
  <2> DEFINE i == FirstMatch(box, asked[a].filter)
  <2>1. i # 0 /\ box' = RemoveAt(box, i)
    BY <1>10, SameOperators DEF Queue!Take
  <2>2. i \in 1..Len(box)
    BY <1>0, <2>1, FirstMatchProperties DEF QueueTypes
  <2> HIDE DEF i
  <2>3. Fetched(i)
    BY <1>1, <1>10, <2>1, <2>2 DEF Fetched, socketVars
  <2> QED BY <1>1, <1>10, <2>2, <2>3 DEF Moves, socketVars
<1>11. ASSUME NEW a \in Apps, ReceiveAsk(a) \/ ReceiveReply(a) \/ ReceiveReturn(a)
       PROVE  HandInv' /\ Moves
  <2>1. UNCHANGED <<socketVars, arrived>>
    BY <1>11 DEF ReceiveAsk, ReceiveReply, ReceiveReturn, history
  <2>2. UNCHANGED box \/ Queue!Take(a)
    BY <1>11 DEF ReceiveAsk, ReceiveReply, ReceiveReturn, Queue!Ask, Queue!Miss, Queue!Collect
  <2> QED BY <1>2, <1>10, <2>1, <2>2 DEF socketVars
<1> QED
  BY <1>2, <1>3, <1>4, <1>5, <1>6, <1>7, <1>8, <1>9, <1>11
  DEF Next, Task, StopStep, vars, socketVars, queueVars, history

-----------------------------------------------------------------------------
(* The order of the answers                                                *)

\* A request that is not answered has no message; a message was received before.
AnswerInv ==
  /\ \A a \in Apps : phase[a] # "answered" => answer[a] = NoDatagram
  /\ Answers \subseteq ToSet(arrived)

Ahead == ToSet(inbox) \union InHand \union ToSet(box)

LEMMA AheadShrinks ==
  ASSUME ServerInv, OrderInv, Moves
  PROVE  \/ UNCHANGED arrived /\ Ahead' \subseteq Ahead
         \/ \E d \in Datagrams :
              /\ arrived' = Append(arrived, d) /\ d \notin ToSet(arrived)
              /\ Ahead' = Ahead \union {d}
<1>0. /\ box \in Seq(Datagrams) /\ inbox \in Seq(Datagrams) /\ arrived \in Seq(Datagrams)
      /\ Injective(box) /\ Injective(inbox)
  BY OrderedIsInjective DEF ServerInv, SocketInv, SocketTypes, QueueTypes, ServerTypes, OrderInv
<1>1. CASE Nothing \/ Dealt
  BY <1>1 DEF Nothing, Dealt, Ahead
<1>2. CASE Taken
  BY <1>0, <1>2, TailKeeps DEF Taken, Ahead
<1>3. CASE Dropped
  BY <1>3, EmptyKeeps DEF Dropped, Ahead
<1>4. ASSUME NEW d \in Datagrams, Arrives(d)
      PROVE  /\ arrived' = Append(arrived, d) /\ d \notin ToSet(arrived)
             /\ Ahead' = Ahead \union {d}
  <2>1. ToSet(inbox') = ToSet(inbox) \union {d}
    BY <1>0, <1>4, AppendKeeps DEF Arrives
  <2> QED BY <1>4, <2>1 DEF Arrives, Ahead
<1>5. ASSUME NEW d \in Datagrams, Queued(d) PROVE UNCHANGED arrived /\ Ahead' \subseteq Ahead
  <2>1. ToSet(box') = ToSet(box) \union {d}
    BY <1>0, <1>5, AppendKeeps DEF Queued
  <2> QED BY <1>5, <2>1 DEF Queued, Ahead
<1>6. ASSUME NEW i \in 1..Len(box), Fetched(i) PROVE UNCHANGED arrived /\ Ahead' \subseteq Ahead
  BY <1>0, <1>6, RemoveKeeps DEF Fetched, Ahead
<1> QED BY <1>1, <1>2, <1>3, <1>4, <1>5, <1>6 DEF Moves

\* What a step does to the requests.
Requested ==
  \/ UNCHANGED <<phase, asked, answer>>
  \/ \E a \in Apps, r \in Requests : Queue!Ask(a, r)
  \/ \E a \in Apps : Queue!Take(a) /\ UNCHANGED <<socketVars, arrived>>
  \/ \E a \in Apps : Queue!Miss(a) \/ Queue!Collect(a)

LEMMA StepRequests == [Next]_vars => Requested
<1> SUFFICES ASSUME [Next]_vars PROVE Requested
  OBVIOUS
<1>1. CASE UNCHANGED vars
  BY <1>1 DEF vars, queueVars, Requested
<1>2. CASE (\E d \in Datagrams : ClientSend(d)) \/ ClientFillsOrReads
  BY <1>2 DEF ClientSend, ClientFillsOrReads, queueVars, Requested
<1>3. CASE Task \/ TaskInterrupted
  BY <1>3
  DEF Task, TaskInterrupted, TaskReceive, TaskExit, TaskDispatch, TaskPing, TaskBlock,
      TaskUnblock, TaskAdd, TaskDiscard, Queue!Put, queueVars, Requested
<1>4. CASE \E t \in Controllers : StartCheck(t) \/ StartCreate(t) \/ StopCheck(t) \/ StopStep(t)
  BY <1>4
  DEF StartCheck, StartCreate, StopCheck, StopStep, StopShutdown, StopCloseFd, StopForgetFd,
      StopQueue, StopJoin, Queue!CloseBox, queueVars, Requested
<1>5. CASE \E a \in Apps : ReceiveAsk(a) \/ ReceiveReply(a) \/ ReceiveReturn(a)
  BY <1>5 DEF ReceiveAsk, ReceiveReply, ReceiveReturn, history, Requested
<1> QED BY <1>1, <1>2, <1>3, <1>4, <1>5 DEF Next

LEMMA AnswerNext ==
  ASSUME ServerInv, HandInv, OrderInv, AnswerInv, ArrivalOrder, [Next]_vars
  PROVE  AnswerInv' /\ ArrivalOrder'
<1>0. /\ QueueTypes /\ arrived \in Seq(Datagrams) /\ box \in Seq(Datagrams)
      /\ NoDatagram \notin Datagrams /\ Injective(arrived)
  BY DatagramAssumption DEF ServerInv, ServerTypes, QueueTypes, OrderInv
<1>1. /\ Moves /\ Requested
      /\ \/ UNCHANGED arrived /\ Ahead' \subseteq Ahead
         \/ \E d \in Datagrams :
              /\ arrived' = Append(arrived, d) /\ d \notin ToSet(arrived)
              /\ Ahead' = Ahead \union {d}
  BY StepMoves, StepRequests, AheadShrinks
<1>2. /\ ToSet(arrived) \subseteq ToSet(arrived')
      /\ arrived' \in Seq(Datagrams)
  <2>1. ASSUME NEW d \in Datagrams, arrived' = Append(arrived, d)
        PROVE  ToSet(arrived) \subseteq ToSet(arrived') /\ arrived' \in Seq(Datagrams)
    <3>1. ToSet(arrived') = ToSet(arrived) \union {d}
      BY <1>0, <2>1, AppendKeeps
    <3>2. arrived' \in Seq(Datagrams)
      BY <1>0, <2>1
    <3> QED BY <3>1, <3>2
  <2> QED BY <1>0, <1>1, <2>1
<1> DEFINE Ordered(a) ==
      \A j \in DOMAIN arrived :
        answer[a] = arrived[j] =>
          \A i \in 1..(j - 1) : Matches(arrived[i], asked[a].filter) => arrived[i] \notin Ahead
<1>3. ArrivalOrder <=> \A a \in Apps : Ordered(a)
  BY DEF ArrivalOrder, Ahead
<1>4. ArrivalOrder' <=> \A a \in Apps : Ordered(a)'
  BY DEF ArrivalOrder, Ahead
<1>5. ASSUME NEW a \in Apps, answer'[a] = answer[a], asked'[a] = asked[a] PROVE Ordered(a)'
  <2>1. CASE UNCHANGED arrived /\ Ahead' \subseteq Ahead
    BY <1>3, <1>5, <2>1
  <2>2. ASSUME NEW d \in Datagrams, arrived' = Append(arrived, d), d \notin ToSet(arrived),
               Ahead' = Ahead \union {d}
        PROVE  Ordered(a)'
    <3> SUFFICES ASSUME NEW j \in DOMAIN arrived', answer'[a] = arrived'[j],
                        NEW i \in 1..(j - 1), Matches(arrived'[i], asked'[a].filter)
                 PROVE  arrived'[i] \notin Ahead'
      OBVIOUS
    <3>1. /\ Len(arrived) \in Nat /\ DOMAIN arrived = 1..Len(arrived)
          /\ DOMAIN arrived' = 1..(Len(arrived) + 1)
          /\ \A k \in 1..Len(arrived) : arrived'[k] = arrived[k]
          /\ arrived'[Len(arrived) + 1] = d
      BY <1>0, <2>2
    <3>2. arrived'[j] \in Datagrams
      BY <1>0, <2>2, <3>1
    <3>3. answer[a] \in ToSet(arrived)
      BY <1>0, <1>5, <3>2 DEF AnswerInv, Answers
    <3>4. j \in 1..Len(arrived)
      <4>1. arrived'[j] # d
        BY <1>5, <2>2, <3>3
      <4>2. j # Len(arrived) + 1
        BY <3>1, <4>1
      <4> QED BY <3>1, <4>2
    <3>5. i \in 1..Len(arrived) /\ arrived'[i] = arrived[i] /\ arrived[i] # d
      BY <2>2, <3>1, <3>4 DEF ToSet
    <3>6. arrived[i] \notin Ahead
      BY <1>3, <1>5, <3>1, <3>4, <3>5
    <3> QED BY <2>2, <3>5, <3>6
  <2> QED BY <1>1, <2>1, <2>2
<1>6. ASSUME NEW a \in Apps, answer'[a] = NoDatagram PROVE Ordered(a)'
  BY <1>0, <1>2, <1>6
<1>7. CASE UNCHANGED <<phase, asked, answer>>
  BY <1>2, <1>4, <1>5, <1>7 DEF AnswerInv, Answers
<1>8. ASSUME NEW a \in Apps, NEW r \in Requests, Queue!Ask(a, r) PROVE AnswerInv' /\ ArrivalOrder'
  <2>1. /\ UNCHANGED answer /\ phase[a] = "idle" /\ answer'[a] = NoDatagram
        /\ \A b \in Apps : b # a => phase'[b] = phase[b] /\ asked'[b] = asked[b]
    BY <1>0, <1>8 DEF Queue!Ask, QueueTypes, AnswerInv
  <2>2. AnswerInv'
    BY <1>2, <2>1 DEF AnswerInv, Answers
  <2>3. \A b \in Apps : Ordered(b)'
    BY <1>5, <1>6, <2>1
  <2> QED BY <1>4, <2>2, <2>3
<1>9. ASSUME NEW a \in Apps, Queue!Miss(a) PROVE AnswerInv' /\ ArrivalOrder'
  <2>1. UNCHANGED <<answer, asked>> /\ \A b \in Apps : b # a => phase'[b] = phase[b]
    BY <1>0, <1>9 DEF Queue!Miss, QueueTypes
  <2>2. phase'[a] = "answered"
    BY <1>0, <1>9 DEF Queue!Miss, QueueTypes
  <2>3. AnswerInv'
    BY <1>2, <2>1, <2>2 DEF AnswerInv, Answers
  <2> QED BY <1>4, <1>5, <2>1, <2>3
<1>10. ASSUME NEW a \in Apps, Queue!Collect(a) PROVE AnswerInv' /\ ArrivalOrder'
  <2>1. /\ answer'[a] = NoDatagram
        /\ \A b \in Apps : b # a =>
             phase'[b] = phase[b] /\ asked'[b] = asked[b] /\ answer'[b] = answer[b]
    BY <1>0, <1>10 DEF Queue!Collect, QueueTypes
  <2>2. AnswerInv'
    BY <1>2, <2>1 DEF AnswerInv, Answers
  <2>3. \A b \in Apps : Ordered(b)'
    BY <1>5, <1>6, <2>1
  <2> QED BY <1>4, <2>2, <2>3
<1>11. ASSUME NEW a \in Apps, Queue!Take(a), UNCHANGED <<socketVars, arrived>>
       PROVE  AnswerInv' /\ ArrivalOrder'
  <2> DEFINE k == FirstMatch(box, asked[a].filter)
  <2>1. k # 0 /\ answer' = [answer EXCEPT ![a] = box[k]] /\ box' = RemoveAt(box, k)
        /\ UNCHANGED asked /\ phase' = [phase EXCEPT ![a] = "answered"]
    BY <1>11, SameOperators DEF Queue!Take
  <2>2. /\ k \in 1..Len(box)
        /\ \A m \in 1..Len(box) : m < k => ~Matches(box[m], asked[a].filter)
    BY <1>0, <2>1, FirstMatchProperties, FirstMatchIsFirst
  <2> HIDE DEF k
  <2>3. /\ answer'[a] = box[k] /\ phase'[a] = "answered" /\ asked'[a] = asked[a]
        /\ \A b \in Apps : b # a =>
             phase'[b] = phase[b] /\ asked'[b] = asked[b] /\ answer'[b] = answer[b]
    BY <1>0, <2>1 DEF QueueTypes
  <2>4. box[k] \in ToSet(box) /\ box[k] \in ToSet(arrived)
    <3>1. DOMAIN box = 1..Len(box)
      BY <1>0
    <3>2. box[k] \in ToSet(box)
      BY <2>2, <3>1 DEF ToSet
    <3> QED BY <3>2 DEF OrderInv
  <2>5. AnswerInv'
    BY <1>2, <2>3, <2>4 DEF AnswerInv, Answers
  <2>6. UNCHANGED arrived /\ Ahead' = ToSet(inbox) \union InHand \union (ToSet(box) \ {box[k]})
    <3>1. Injective(box)
      BY <1>0, OrderedIsInjective DEF OrderInv
    <3>2. ToSet(box') = ToSet(box) \ {box[k]}
      BY <1>0, <2>1, <2>2, <3>1, RemoveKeeps
    <3>3. UNCHANGED <<arrived, inbox>> /\ InHand' = InHand
      BY <1>11 DEF socketVars, InHand
    <3> QED BY <3>2, <3>3 DEF Ahead
  <2>7. Ordered(a)'
    <3> SUFFICES ASSUME NEW j \in DOMAIN arrived, box[k] = arrived[j],
                        NEW i \in 1..(j - 1), Matches(arrived[i], asked[a].filter),
                        arrived[i] \in ToSet(inbox) \union InHand \union (ToSet(box) \ {box[k]})
                 PROVE  FALSE
      BY <2>3, <2>6
    <3>1. Earlier(arrived, arrived[i], arrived[j])
      BY <1>0 DEF Earlier
    <3>2. ~Earlier(arrived, arrived[j], arrived[i])
      BY <1>0, <3>1, EarlierIsStrict
    <3>3. arrived[i] \in ToSet(box) \ {box[k]}
      BY <2>4, <3>2 DEF OrderInv
    <3>4. PICK m \in DOMAIN box : box[m] = arrived[i] /\ m # k
      BY <3>3 DEF ToSet
    <3>5. m > k
      <4>1. m \in 1..Len(box) /\ m \in Int /\ k \in Int
        BY <1>0, <2>2, <3>4
      <4>2. ~(m < k)
        <5>1. Matches(box[m], asked[a].filter)
          BY <3>4
        <5> QED BY <2>2, <4>1, <5>1
      <4> QED BY ONLY <3>4, <4>1, <4>2
    <3> QED BY <1>0, <2>2, <3>2, <3>4, <3>5 DEF OrderInv, InOrder
  <2> QED BY <1>4, <1>5, <2>3, <2>5, <2>7
<1> QED BY <1>1, <1>7, <1>8, <1>9, <1>10, <1>11 DEF Requested

-----------------------------------------------------------------------------
(* Nothing is lost                                                         *)

Open == fd = Sock!Fd /\ sock = "open" /\ ~closed

\* While the socket is open, the worker measures and takes a datagram that is there.
FirstInv ==
  fd = Sock!Fd /\ sock = "open" =>
    /\ at[Worker] \in {"ioctl", "recv", "receiving"} => inbox # <<>>
    /\ at[Worker] \in {"recv", "receiving"} => avail[Worker] = Head(inbox).size

LEMMA FirstNext == ServerInv /\ FirstInv /\ [Next]_vars => FirstInv' /\ (Open' => Open)
<1> SUFFICES ASSUME ServerInv, FirstInv, [Next]_vars PROVE FirstInv' /\ (Open' => Open)
  OBVIOUS
<1>0. SocketInv /\ SocketTypes
  BY DEF ServerInv, SocketInv
<1> USE DEF FirstInv, Open, Sock!Fd, Sock!NoFd
<1>1. CASE UNCHANGED <<fd, sock, inbox, at, avail>> /\ (UNCHANGED closed \/ closed')
  BY <1>1
<1>2. CASE Sock!ReceiveLeave(Worker) /\ UNCHANGED closed
  BY <1>0, <1>2 DEF Sock!ReceiveLeave, SocketTypes
<1>3. CASE UNCHANGED closed /\ (TaskReceive \/ TaskInterrupted)
  <2> USE DEF Sock!Goto, Sock!Return, SocketTypes
  <2>1. CASE \/ Sock!ReceiveOnClosed(Worker) \/ Sock!Interrupted(Worker)
             \/ Sock!RecvBadFd(Worker) \/ Sock!RecvEnd(Worker)
    BY <1>0, <1>3, <2>1
    DEF Sock!ReceiveOnClosed, Sock!Interrupted, Sock!RecvBadFd, Sock!RecvEnd
  <2>2. CASE \/ Sock!ReceiveCheck(Worker) \/ Sock!LoadFd(Worker) \/ Sock!PollInvalid(Worker)
             \/ Sock!PollEnter(Worker) \/ Sock!PollReady(Worker)
    BY <1>0, <1>3, <2>2
    DEF Sock!ReceiveCheck, Sock!LoadFd, Sock!PollInvalid, Sock!PollEnter, Sock!PollReady,
        Sock!Readable
  <2>3. CASE Sock!Ioctl(Worker) \/ Sock!RecvEnter(Worker)
    BY <1>0, <1>3, <2>3 DEF Sock!Ioctl, Sock!RecvEnter
  <2>4. CASE Sock!RecvDatagram(Worker)
    BY <1>0, <1>3, <2>4, RecvWhole
  <2> QED BY <1>3, <2>1, <2>2, <2>3, <2>4 DEF TaskReceive, TaskInterrupted, Sock!ReceiveStep
<1>4. ASSUME NEW d \in Datagrams, ClientSend(d) PROVE FirstInv' /\ (Open' => Open)
  <2>1. UNCHANGED <<fd, sock, at, avail, closed>> /\ inbox' = Append(inbox, d)
    BY <1>4 DEF ClientSend, Sock!Arrive, Sock!callVars, queueVars
  <2>2. inbox' # <<>> /\ (inbox # <<>> => Head(inbox') = Head(inbox))
    <3>1. inbox \in Seq(Datagrams)
      BY <1>0 DEF SocketTypes
    <3> QED BY ONLY <2>1, <3>1
  <2> QED BY <2>1, <2>2
<1>5. CASE TaskReceive \/ TaskInterrupted
  BY <1>3, <1>5 DEF TaskReceive, TaskInterrupted, queueVars
<1>6. CASE TaskExit \/ TaskPing \/ TaskUnblock \/ TaskDiscard \/ TaskAdd
  BY <1>2, <1>6 DEF TaskExit, TaskPing, TaskUnblock, TaskDiscard, TaskAdd, Queue!Put, queueVars
<1>7. CASE TaskDispatch \/ TaskBlock \/ ClientFillsOrReads \/ UNCHANGED vars
  BY <1>1, <1>7 DEF TaskDispatch, TaskBlock, ClientFillsOrReads, vars, socketVars, queueVars
<1>8. ASSUME NEW t \in Controllers, StartCheck(t) \/ StartCreate(t) \/ StopCheck(t) \/ StopJoin(t)
      PROVE  FirstInv' /\ (Open' => Open)
  BY <1>1, <1>8 DEF StartCheck, StartCreate, StopCheck, StopJoin, socketVars, queueVars
<1>9. ASSUME NEW t \in Controllers, StopShutdown(t) \/ StopCloseFd(t) \/ StopForgetFd(t)
      PROVE  FirstInv' /\ (Open' => Open)
  BY <1>9 DEF StopShutdown, StopCloseFd, StopForgetFd, Sock!Shutdown, Sock!CloseFd, Sock!ForgetFd
<1>10. ASSUME NEW t \in Controllers, StopQueue(t) PROVE FirstInv' /\ (Open' => Open)
  BY <1>1, <1>10 DEF StopQueue, Queue!CloseBox, socketVars
<1>11. ASSUME NEW a \in Apps, ReceiveAsk(a) \/ ReceiveReply(a) \/ ReceiveReturn(a)
       PROVE  FirstInv' /\ (Open' => Open)
  BY <1>1, <1>11
  DEF ReceiveAsk, ReceiveReply, ReceiveReturn, Queue!Ask, Queue!Take, Queue!Miss, Queue!Collect,
      socketVars
<1> QED
  BY <1>4, <1>5, <1>6, <1>7, <1>8, <1>9, <1>10, <1>11 DEF Next, Task, StopStep

\* What a step does to the places where a datagram can be.
Stays == Ahead' = Ahead /\ UNCHANGED <<arrived, answer, replied, discarded, delivered>>
Comes(d) ==
  /\ arrived' = Append(arrived, d) /\ d \notin ToSet(arrived) /\ Ahead' = Ahead \union {d}
  /\ UNCHANGED <<answer, replied, discarded, delivered>>
Leaves ==
  /\ Ahead' \subseteq Ahead /\ UNCHANGED <<arrived, answer, replied, discarded, delivered>>
  /\ ~Open' \/ \A x \in Ahead \ Ahead' : x.size < Sock!HeaderSize
Answered(x) ==
  /\ x \in Ahead /\ Ahead' = Ahead \ {x}
  /\ replied' = replied \union {x} \/ (UNCHANGED replied /\ ~Open')
  /\ UNCHANGED <<arrived, answer, discarded, delivered>>
Discarded(x) ==
  /\ x \in Ahead /\ Ahead' = Ahead \ {x} /\ discarded' = discarded \union {x}
  /\ UNCHANGED <<arrived, answer, replied, delivered>>
Given(a, x) ==
  /\ x \in Ahead /\ Ahead' = Ahead \ {x}
  /\ answer[a] = NoDatagram /\ answer' = [answer EXCEPT ![a] = x]
  /\ UNCHANGED <<arrived, replied, discarded, delivered>>
Delivered(a) ==
  /\ Ahead' = Ahead
  /\ answer' = [answer EXCEPT ![a] = NoDatagram]
  /\ delivered' = delivered \union ({answer[a]} \ {NoDatagram})
  /\ UNCHANGED <<arrived, replied, discarded>>

Effect ==
  \/ Stays \/ Leaves
  \/ \E d \in Datagrams : Comes(d) \/ Answered(d) \/ Discarded(d)
  \/ \E a \in Apps : Delivered(a) \/ \E x \in Datagrams : Given(a, x)

LEMMA ReceiveEffect ==
  ASSUME ServerInv, HandInv, OrderInv, FirstInv, TaskReceive \/ TaskInterrupted
  PROVE  Effect
<1>0. /\ SocketInv /\ SocketTypes /\ inbox \in Seq(Datagrams) /\ arrived \in Seq(Datagrams)
      /\ Injective(inbox)
  BY OrderedIsInjective DEF ServerInv, SocketInv, SocketTypes, ServerTypes, OrderInv
<1>1. UNCHANGED <<arrived, box, answer, replied, discarded, delivered, closed>>
  BY DEF TaskReceive, TaskInterrupted, history, queueVars
<1>2. CASE UNCHANGED inbox /\ InHand' = InHand
  BY <1>1, <1>2 DEF Effect, Stays, Ahead
<1>3. CASE Sock!RecvDatagram(Worker)
  <2> DEFINE d == Head(inbox)
  <2>1. /\ inbox # <<>> /\ d \in Datagrams /\ inbox' = Tail(inbox) /\ UNCHANGED <<fd, sock>>
        /\ at[Worker] = "receiving" /\ InHand = {}
    BY <1>3, <1>0, RecvWhole DEF HandInv, InHand
  <2>2. ToSet(inbox') = ToSet(inbox) \ {d} /\ d \in ToSet(inbox)
    BY <1>0, <2>1, TailKeeps
  <2>3. CASE Sock!Return(Worker, d.size, d)
    <3>1. InHand' = {d}
      BY <1>0, <2>1, <2>3, DatagramAssumption DEF Sock!Return, SocketTypes, InHand
    <3> QED BY <1>1, <2>1, <2>2, <3>1 DEF Effect, Stays, Ahead
  <2>4. ASSUME NEW r, Sock!Return(Worker, r, NoDatagram),
               Open => d.size < Sock!HeaderSize
        PROVE  Effect
    <3>1. InHand' = {}
      BY <1>0, <2>4 DEF Sock!Return, SocketTypes, InHand
    <3>2. Ahead' \subseteq Ahead /\ \A x \in Ahead \ Ahead' : x = d
      BY <1>1, <2>1, <2>2, <3>1 DEF Ahead
    <3>3. Open' => Open
      BY <1>1, <2>1 DEF Open
    <3> QED BY <1>1, <2>4, <3>2, <3>3 DEF Effect, Leaves
  <2>5. Open => avail[Worker] = d.size
    BY <2>1 DEF Open, FirstInv
  <2> HIDE DEF d
  <2>6. \/ Sock!Return(Worker, -5, NoDatagram) /\ avail[Worker] # d.size
        \/ /\ Sock!Return(Worker, -6, NoDatagram)
           /\ avail[Worker] # d.size \/ d.size < Sock!HeaderSize
        \/ Sock!Return(Worker, d.size, d)
    BY <1>0, <1>3, RecvWhole DEF d
  <2> QED BY <2>3, <2>4, <2>5, <2>6
<1>4. CASE UNCHANGED inbox /\ at[Worker] # "done" /\ \E r : Sock!Return(Worker, r, NoDatagram)
  <2>1. InHand = {} /\ InHand' = {}
    BY <1>0, <1>4 DEF Sock!Return, SocketTypes, HandInv, InHand
  <2> QED BY <1>2, <1>4, <2>1
<1>5. CASE UNCHANGED <<inbox, got>>
  BY <1>2, <1>5 DEF InHand
<1> QED
  BY <1>3, <1>4, <1>5
  DEF TaskReceive, TaskInterrupted, Sock!ReceiveStep, Sock!ReceiveOnClosed, Sock!Interrupted,
      Sock!RecvBadFd, Sock!RecvEnd, Sock!ReceiveCheck, Sock!LoadFd, Sock!PollInvalid,
      Sock!PollEnter, Sock!PollReady, Sock!Ioctl, Sock!RecvEnter, Sock!Goto

LEMMA StepEffect ==
  ASSUME ServerInv, HandInv, OrderInv, AnswerInv, FirstInv, [Next]_vars
  PROVE  Effect
<1>0. /\ SocketInv /\ SocketTypes /\ QueueTypes /\ ServerTypes
      /\ inbox \in Seq(Datagrams) /\ arrived \in Seq(Datagrams) /\ box \in Seq(Datagrams)
      /\ NoDatagram \notin Datagrams
  BY DatagramAssumption DEF ServerInv, SocketInv, SocketTypes, QueueTypes, ServerTypes
<1>1. CASE UNCHANGED <<arrived, inbox, box, got, answer, replied, discarded, delivered>>
  BY <1>1 DEF Effect, Stays, Ahead, InHand
<1>2. ASSUME NEW d \in Datagrams, ClientSend(d) PROVE Effect
  <2>1. /\ UNCHANGED <<box, got, answer, replied, discarded, delivered>> /\ d \notin ToSet(arrived)
        /\ arrived' = Append(arrived, d) /\ inbox' = Append(inbox, d)
    BY <1>2 DEF ClientSend, Sock!Arrive, Sock!callVars, queueVars
  <2>2. ToSet(inbox') = ToSet(inbox) \union {d}
    BY <1>0, <2>1, AppendKeeps
  <2>3. Ahead' = Ahead \union {d}
    BY <2>1, <2>2 DEF Ahead, InHand
  <2> QED BY <2>1, <2>3 DEF Effect, Comes
<1>3. CASE TaskReceive \/ TaskInterrupted
  BY <1>3, ReceiveEffect
<1>4. ASSUME Sock!ReceiveLeave(Worker), InHand = {}, UNCHANGED <<box, arrived>>,
             UNCHANGED <<answer, replied, discarded, delivered>>
      PROVE  Effect
  BY <1>0, <1>4, LeaveMoves DEF Effect, Stays, Ahead
<1>5. CASE TaskExit
  BY <1>4, <1>5 DEF TaskExit, HandInv, InHand, queueVars, history
<1>6. ASSUME task \in {"ping", "sending", "add"}, Sock!ReceiveLeave(Worker)
      PROVE  /\ got[Worker] \in Datagrams /\ InHand = {got[Worker]} /\ InHand' = {}
             /\ UNCHANGED <<fd, sock, inbox>>
             /\ got[Worker] \notin ToSet(inbox) \union ToSet(box)
  <2>1. got[Worker] \in Datagrams /\ InHand = {got[Worker]}
    BY <1>0, <1>6 DEF ServerTypes, InHand
  <2>2. got[Worker] \notin ToSet(inbox) \union ToSet(box)
    BY <1>0, <2>1, EarlierIsStrict DEF OrderInv
  <2> QED BY <1>0, <1>6, <2>1, <2>2, LeaveMoves, LeaveTypes
<1>7. CASE TaskPing \/ TaskUnblock
  <2>1. /\ task \in {"ping", "sending", "add"} /\ Sock!ReceiveLeave(Worker)
        /\ UNCHANGED <<box, closed, arrived, answer, discarded, delivered>>
        /\ \/ replied' = replied \union {got[Worker]}
           \/ UNCHANGED replied /\ (fd = Sock!NoFd \/ sock # "open")
    BY <1>7 DEF TaskPing, TaskUnblock, queueVars
  <2>2. Ahead' = Ahead \ {got[Worker]} /\ got[Worker] \in Ahead /\ got[Worker] \in Datagrams
    BY <1>6, <2>1 DEF Ahead
  <2>4. fd = Sock!NoFd \/ sock # "open" => ~Open'
    BY <1>6, <2>1 DEF Open, Sock!NoFd, Sock!Fd
  <2>3. Answered(got[Worker])
    <3>1. replied' = replied \union {got[Worker]} \/ (UNCHANGED replied /\ ~Open')
      BY <2>1, <2>4
    <3> QED BY <2>1, <2>2, <3>1 DEF Answered
  <2> QED BY <2>2, <2>3 DEF Effect
<1>8. CASE TaskDiscard
  <2>1. /\ task \in {"ping", "sending", "add"} /\ Sock!ReceiveLeave(Worker)
        /\ UNCHANGED <<box, arrived, answer, replied, delivered>>
        /\ discarded' = discarded \union {got[Worker]}
    BY <1>8 DEF TaskDiscard, queueVars
  <2>2. Ahead' = Ahead \ {got[Worker]} /\ got[Worker] \in Ahead /\ got[Worker] \in Datagrams
    BY <1>6, <2>1 DEF Ahead
  <2> QED BY <2>1, <2>2 DEF Effect, Discarded
<1>9. CASE TaskAdd
  <2>1. /\ task \in {"ping", "sending", "add"} /\ Sock!ReceiveLeave(Worker)
        /\ box' = Append(box, got[Worker])
        /\ UNCHANGED <<arrived, answer, replied, discarded, delivered>>
    BY <1>9 DEF TaskAdd, history, Queue!Put
  <2>2. ToSet(box') = ToSet(box) \union {got[Worker]}
    BY <1>0, <1>6, <2>1, AppendKeeps
  <2>3. Ahead' = Ahead
    BY <1>6, <2>1, <2>2 DEF Ahead
  <2> QED BY <2>1, <2>3 DEF Effect, Stays
<1>10. CASE TaskDispatch \/ TaskBlock \/ ClientFillsOrReads \/ UNCHANGED vars
  BY <1>1, <1>10
  DEF TaskDispatch, TaskBlock, ClientFillsOrReads, vars, socketVars, queueVars, history
<1>11. ASSUME NEW t \in Controllers,
              \/ StartCheck(t) \/ StartCreate(t) \/ StopCheck(t) \/ StopJoin(t)
              \/ StopShutdown(t) \/ StopForgetFd(t)
       PROVE  Effect
  BY <1>1, <1>11
  DEF StartCheck, StartCreate, StopCheck, StopJoin, StopShutdown, StopForgetFd, Sock!Shutdown,
      Sock!ForgetFd, Sock!callVars, socketVars, queueVars, history
<1>12. ASSUME NEW t \in Controllers, StopCloseFd(t) \/ StopQueue(t) PROVE Effect
  <2>1. /\ UNCHANGED <<arrived, got, answer, replied, discarded, delivered>>
        /\ inbox' \in {inbox, <<>>} /\ box' \in {box, <<>>}
        /\ sock' = "closed" \/ closed'
    BY <1>12 DEF StopCloseFd, StopQueue, Sock!CloseFd, Queue!CloseBox, Sock!callVars, socketVars,
                 queueVars, history
  <2>2. Ahead' \subseteq Ahead
    BY <2>1, EmptyKeeps DEF Ahead, InHand
  <2> QED BY <2>1, <2>2 DEF Effect, Leaves, Open
<1>13. ASSUME NEW a \in Apps, ReceiveAsk(a) \/ (ReceiveReply(a) /\ ~Queue!Take(a)) PROVE Effect
  BY <1>1, <1>13 DEF ReceiveAsk, ReceiveReply, Queue!Ask, Queue!Miss, socketVars, history
<1>14. ASSUME NEW a \in Apps, ReceiveReturn(a) PROVE Effect
  <2>1. Delivered(a)
    BY <1>14 DEF ReceiveReturn, Queue!Collect, socketVars, Delivered, Ahead, InHand
  <2> QED BY <2>1 DEF Effect
<1>15. ASSUME NEW a \in Apps, ReceiveReply(a), Queue!Take(a) PROVE Effect
  <2> DEFINE k == FirstMatch(box, asked[a].filter)
  <2>1. k # 0 /\ answer' = [answer EXCEPT ![a] = box[k]] /\ box' = RemoveAt(box, k)
        /\ phase[a] = "asking"
    BY <1>15, SameOperators DEF Queue!Take
  <2>2. k \in 1..Len(box) /\ DOMAIN box = 1..Len(box)
    BY <1>0, <2>1, FirstMatchProperties
  <2> HIDE DEF k
  <2>3. /\ ToSet(box') = ToSet(box) \ {box[k]} /\ box[k] \in ToSet(box) /\ box[k] \in Datagrams
    <3>1. Injective(box)
      BY <1>0, OrderedIsInjective DEF OrderInv
    <3>2. ToSet(box') = ToSet(box) \ {box[k]}
      BY <1>0, <2>1, <2>2, <3>1, RemoveKeeps
    <3>3. box[k] \in Datagrams
      BY <1>0, <2>2
    <3>4. box[k] \in ToSet(box)
      BY <2>2 DEF ToSet
    <3> QED BY <3>2, <3>3, <3>4
  <2>4. UNCHANGED <<inbox, got, arrived, replied, discarded, delivered>>
    BY <1>15 DEF ReceiveReply, socketVars, history
  <2>5. box[k] \notin ToSet(inbox) \union InHand
    BY <1>0, <2>3, EarlierIsStrict DEF OrderInv
  <2>6. Ahead' = Ahead \ {box[k]} /\ box[k] \in Ahead
    BY <2>3, <2>4, <2>5 DEF Ahead, InHand
  <2>7. Given(a, box[k])
    BY <2>1, <2>4, <2>6 DEF Given, AnswerInv
  <2> QED BY <2>3, <2>7 DEF Effect
<1> QED
  BY <1>2, <1>3, <1>5, <1>7, <1>8, <1>9, <1>10, <1>11, <1>12, <1>13, <1>14, <1>15
  DEF Next, Task, StopStep

\* A datagram is in one place only.
ApartInv ==
  /\ Ahead \intersect (Answers \union replied \union discarded \union delivered) = {}
  /\ Answers \intersect (replied \union discarded \union delivered) = {}
  /\ replied \intersect (discarded \union delivered) = {}
  /\ discarded \intersect delivered = {}
  /\ replied \union discarded \union delivered \subseteq ToSet(arrived)
  /\ \A a, b \in Apps : answer[a] = answer[b] /\ answer[a] # NoDatagram => a = b

\* While the server is open, it is in some place.
KeptInv ==
  Open => \A d \in ToSet(arrived) : d.size >= Sock!HeaderSize =>
            d \in Ahead \union Answers \union replied \union discarded \union delivered

LEMMA LossNext ==
  ASSUME ServerInv, OrderInv, AnswerInv, ApartInv, KeptInv, Effect, Open' => Open
  PROVE  ApartInv' /\ KeptInv'
<1>0. /\ answer \in [Apps -> Datagrams \union {NoDatagram}] /\ arrived \in Seq(Datagrams)
      /\ NoDatagram \notin Datagrams
      /\ Ahead \union Answers \subseteq ToSet(arrived)
  BY DatagramAssumption DEF ServerInv, QueueTypes, ServerTypes, OrderInv, AnswerInv, Ahead
<1>1. CASE Stays \/ Leaves
  <2>1. Answers' = Answers /\ UNCHANGED <<arrived, answer, replied, discarded, delivered>>
        /\ Ahead' \subseteq Ahead
    BY <1>1 DEF Stays, Leaves, Answers
  <2>2. ApartInv'
    BY <2>1 DEF ApartInv
  <2>3. KeptInv'
    <3>1. Open' => \A x \in Ahead \ Ahead' : x.size < Sock!HeaderSize
      BY <1>1 DEF Stays, Leaves
    <3> SUFFICES ASSUME Open', NEW d \in ToSet(arrived), d.size >= Sock!HeaderSize
                 PROVE  d \in Ahead' \union Answers \union replied \union discarded \union delivered
      BY <2>1 DEF KeptInv
    <3>2. d \in Ahead \union Answers \union replied \union discarded \union delivered
      BY DEF KeptInv
    <3>3. d.size \in Nat
      BY <1>0, DatagramAssumption DEF ToSet
    <3> QED BY <3>1, <3>2, <3>3 DEF Sock!HeaderSize
  <2> QED BY <2>2, <2>3
<1>2. ASSUME NEW d \in Datagrams, Comes(d) PROVE ApartInv' /\ KeptInv'
  <2>1. /\ Answers' = Answers /\ UNCHANGED <<answer, replied, discarded, delivered>>
        /\ ToSet(arrived') = ToSet(arrived) \union {d} /\ d \notin ToSet(arrived)
        /\ Ahead' = Ahead \union {d}
    BY <1>0, <1>2, AppendKeeps DEF Comes, Answers
  <2>2. ApartInv'
    BY <1>0, <2>1 DEF ApartInv
  <2>3. KeptInv'
    BY <2>1 DEF KeptInv
  <2> QED BY <2>2, <2>3
<1>3. ASSUME NEW d \in Datagrams, Answered(d) \/ Discarded(d) PROVE ApartInv' /\ KeptInv'
  <2>1. /\ Answers' = Answers /\ UNCHANGED <<arrived, answer, delivered>>
        /\ d \in Ahead /\ Ahead' = Ahead \ {d}
        /\ \/ replied' = replied \union {d} /\ UNCHANGED discarded
           \/ UNCHANGED <<replied, discarded>> /\ ~Open'
           \/ discarded' = discarded \union {d} /\ UNCHANGED replied
    BY <1>3 DEF Answered, Discarded, Answers
  <2>2. ApartInv'
    BY <1>0, <2>1 DEF ApartInv
  <2>3. KeptInv'
    BY <2>1 DEF KeptInv
  <2> QED BY <2>2, <2>3
<1>4. ASSUME NEW a \in Apps, NEW d \in Datagrams, Given(a, d) PROVE ApartInv' /\ KeptInv'
  <2>1. /\ UNCHANGED <<arrived, replied, discarded, delivered>>
        /\ d \in Ahead /\ Ahead' = Ahead \ {d} /\ answer[a] = NoDatagram
        /\ answer'[a] = d /\ \A b \in Apps : b # a => answer'[b] = answer[b]
    BY <1>0, <1>4 DEF Given
  <2>2. Answers' = Answers \union {d}
    BY <1>0, <2>1 DEF Answers
  <2>3. \A b \in Apps : answer[b] # d
    BY <1>0, <2>1 DEF ApartInv, Answers
  <2>4. ApartInv'
    BY <1>0, <2>1, <2>2, <2>3 DEF ApartInv
  <2>5. KeptInv'
    BY <2>1, <2>2 DEF KeptInv
  <2> QED BY <2>4, <2>5
<1>5. ASSUME NEW a \in Apps, Delivered(a) PROVE ApartInv' /\ KeptInv'
  <2>1. /\ UNCHANGED <<arrived, replied, discarded>> /\ Ahead' = Ahead
        /\ answer'[a] = NoDatagram /\ \A b \in Apps : b # a => answer'[b] = answer[b]
        /\ delivered' = delivered \union ({answer[a]} \ {NoDatagram})
    BY <1>0, <1>5 DEF Delivered
  <2>2. Answers' = Answers \ {answer[a]}
    BY <1>0, <2>1 DEF Answers, ApartInv
  <2>3. answer[a] = NoDatagram \/ answer[a] \in Answers
    BY DEF Answers
  <2>4. ApartInv'
    BY <1>0, <2>1, <2>2, <2>3 DEF ApartInv
  <2>5. KeptInv'
    BY <2>1, <2>2, <2>3 DEF KeptInv, Answers
  <2> QED BY <2>4, <2>5
<1> QED BY <1>1, <1>2, <1>3, <1>4, <1>5 DEF Effect

DeliveryInv ==
  /\ ServerInv /\ HandInv /\ OrderInv /\ AnswerInv /\ ArrivalOrder
  /\ FirstInv /\ ApartInv /\ KeptInv

LEMMA DeliveryInit == Init => DeliveryInv
<1> SUFFICES ASSUME Init PROVE DeliveryInv
  OBVIOUS
<1>1. /\ arrived = <<>> /\ inbox = <<>> /\ box = <<>> /\ replied = {} /\ discarded = {}
      /\ delivered = {} /\ got[Worker] = NoDatagram /\ at[Worker] = "idle"
      /\ \A a \in Apps : answer[a] = NoDatagram
  BY DEF Init, Sock!SocketInit, Queue!MailboxInit
<1>2. InHand = {} /\ Answers = {} /\ ToSet(arrived) = {} /\ ToSet(inbox) = {} /\ ToSet(box) = {}
  BY <1>1, EmptyKeeps DEF InHand, Answers
<1>3. HandInv /\ FirstInv
  BY <1>1 DEF HandInv, FirstInv
<1>4. OrderInv
  BY <1>1, <1>2, EmptyKeeps DEF OrderInv, Injective, HandInv
<1>5. AnswerInv /\ ArrivalOrder
  BY <1>1, <1>2 DEF AnswerInv, ArrivalOrder
<1>6. ApartInv /\ KeptInv
  BY <1>1, <1>2 DEF ApartInv, KeptInv, Ahead
<1> QED BY <1>3, <1>4, <1>5, <1>6, ServerInit DEF DeliveryInv

LEMMA DeliveryNext == DeliveryInv /\ [Next]_vars => DeliveryInv'
<1> SUFFICES ASSUME DeliveryInv, [Next]_vars PROVE DeliveryInv'
  OBVIOUS
<1> USE DEF DeliveryInv
<1>1. ServerInv' /\ HandInv' /\ Moves
  BY ServerNext, StepMoves
<1>2. OrderInv'
  BY <1>1, OrderKept
<1>3. AnswerInv' /\ ArrivalOrder'
  BY AnswerNext
<1>4. FirstInv' /\ (Open' => Open)
  BY FirstNext
<1>5. ApartInv' /\ KeptInv'
  BY <1>4, StepEffect, LossNext
<1> QED BY <1>1, <1>2, <1>3, <1>4, <1>5

LEMMA DeliveryInvariant == Spec => []DeliveryInv
BY DeliveryInit, DeliveryNext, PTL DEF Spec

\* A caller of receive() gets the oldest message that passes its filter, wherever the
\* worker is between the socket and the queue, and whatever stop() empties.
THEOREM OldestFirst == Spec => []ArrivalOrder
<1>1. DeliveryInv => ArrivalOrder
  BY DEF DeliveryInv
<1> QED BY <1>1, DeliveryInvariant, PTL

\* Until somebody stops the server, the worker and the callers of receive() neither
\* lose nor duplicate a datagram that holds a signal number.
THEOREM NothingIsLost == Spec => []NothingLostWhileOpen
<1>1. DeliveryInv => NothingLostWhileOpen
  <2> SUFFICES ASSUME DeliveryInv, Open, NEW d \in ToSet(arrived), d.size >= Sock!HeaderSize
               PROVE  Cardinality({i \in DOMAIN inbox : inbox[i] = d})
                        + (IF d \in InHand THEN 1 ELSE 0) + (IF d \in replied THEN 1 ELSE 0)
                        + (IF d \in discarded THEN 1 ELSE 0)
                        + Cardinality({i \in DOMAIN box : box[i] = d})
                        + Cardinality({a \in Apps : answer[a] = d})
                        + (IF d \in delivered THEN 1 ELSE 0)
                      = 1
    BY DEF NothingLostWhileOpen, Open
  <2>0. /\ inbox \in Seq(Datagrams) /\ box \in Seq(Datagrams) /\ arrived \in Seq(Datagrams)
        /\ Injective(inbox) /\ Injective(box) /\ d \in Datagrams /\ NoDatagram \notin Datagrams
    BY OrderedIsInjective, DatagramAssumption
    DEF DeliveryInv, ServerInv, SocketInv, SocketTypes, QueueTypes, ServerTypes, OrderInv, ToSet
  <2>1. Cardinality({i \in DOMAIN inbox : inbox[i] = d}) = IF d \in ToSet(inbox) THEN 1 ELSE 0
    BY <2>0, CopiesOf
  <2>2. Cardinality({i \in DOMAIN box : box[i] = d}) = IF d \in ToSet(box) THEN 1 ELSE 0
    BY <2>0, CopiesOf
  <2>3. Cardinality({a \in Apps : answer[a] = d}) = IF d \in Answers THEN 1 ELSE 0
    <3>1. CASE d \in Answers
      <4>1. PICK a \in Apps : answer[a] = d
        BY <3>1 DEF Answers
      <4>2. {b \in Apps : answer[b] = d} = {a}
        BY <2>0, <4>1 DEF DeliveryInv, ApartInv
      <4> QED BY <3>1, <4>2, FS_Singleton
    <3>2. CASE d \notin Answers
      <4>1. {b \in Apps : answer[b] = d} = {}
        BY <2>0, <3>2 DEF Answers
      <4> QED BY <3>2, <4>1, FS_EmptySet
    <3> QED BY <3>1, <3>2
  <2>4. /\ ~(d \in ToSet(inbox) /\ d \in InHand)
        /\ ~(d \in ToSet(inbox) /\ d \in ToSet(box))
        /\ ~(d \in InHand /\ d \in ToSet(box))
    BY <2>0, EarlierIsStrict DEF DeliveryInv, OrderInv
  <2>5. /\ d \in Ahead \union Answers \union replied \union discarded \union delivered
        /\ d \in Ahead <=> d \in ToSet(inbox) \/ d \in InHand \/ d \in ToSet(box)
    BY DEF DeliveryInv, KeptInv, Ahead
  <2>6. /\ d \in Ahead => d \notin Answers \union replied \union discarded \union delivered
        /\ d \in Answers => d \notin replied \union discarded \union delivered
        /\ d \in replied => d \notin discarded \union delivered
        /\ d \in discarded => d \notin delivered
    BY DEF DeliveryInv, ApartInv
  <2> QED BY <2>1, <2>2, <2>3, <2>4, <2>5, <2>6
<1> QED BY <1>1, DeliveryInvariant, PTL

-----------------------------------------------------------------------------
(* LinxServer                                                              *)

\* The instance has its own copies of the operators it extends.
LEMMA PromisedMailbox ==
  /\ \A m : Queue!Put(m) => Promised!Put(m)
  /\ Queue!HasRoom <=> Promised!HasRoom
  /\ Queue!CloseBox => Promised!CloseBox
  /\ \A a, r : Queue!Ask(a, r) => Promised!Ask(a, r)
  /\ \A a : Queue!Take(a) \/ Queue!Miss(a) \/ Queue!Collect(a) => Promised!Reply(a)
<1>1. /\ \A s, f : Promised!FirstMatch(s, f) = Queue!FirstMatch(s, f)
      /\ \A s, i : Promised!RemoveAt(s, i) = Queue!RemoveAt(s, i)
  BY DEF Queue!FirstMatch, Queue!SelectInSeq, Queue!Min, Queue!Matches, Queue!matchesFrom,
         Queue!matchesSignalSelector, Queue!SameIdentifier, Queue!isEqual, Queue!AnyFrom,
         Queue!RemoveAt, Promised!FirstMatch, Promised!SelectInSeq, Promised!Min,
         Promised!Matches, Promised!matchesFrom, Promised!matchesSignalSelector,
         Promised!SameIdentifier, Promised!isEqual, Promised!AnyFrom, Promised!RemoveAt
<1>2. \A a : Queue!Take(a) => Promised!Take(a)
  BY <1>1 DEF Queue!Take, Promised!Take
<1>3. \A a : Queue!Miss(a) => Promised!Miss(a)
  BY <1>1 DEF Queue!Miss, Promised!Miss
<1>4. \A a : Queue!Collect(a) => Promised!Collect(a)
  BY DEF Queue!Collect, Promised!Collect
<1>5. /\ \A m : Queue!Put(m) => Promised!Put(m)
      /\ Queue!HasRoom <=> Promised!HasRoom
  BY DEF Queue!Put, Promised!Put, Queue!HasRoom, Promised!HasRoom
<1>6. \A a, r : Queue!Ask(a, r) => Promised!Ask(a, r)
  BY DEF Queue!Ask, Promised!Ask
<1>7. Queue!CloseBox => Promised!CloseBox
  BY DEF Queue!CloseBox, Promised!CloseBox
<1> QED BY <1>2, <1>3, <1>4, <1>5, <1>6, <1>7 DEF Promised!Reply

\* What LinxServer sees of the worker outside receive(), inside it, and after it.
Seen(w, d) == SeenAt = w /\ SeenHand = d

SeenCases ==
  /\ task \in {"none", "exited"} => Seen(task, NoDatagram)
  /\ task \in {"ping", "sending"} => Seen("waiting", NoDatagram)
  /\ task = "add" => Seen("add", got[Worker])
  /\ task = "receive" /\ at[Worker] = "idle" => Seen("receive", NoDatagram)
  /\ task = "receive" /\ at[Worker] \notin {"idle", "done"} => Seen("waiting", NoDatagram)
  /\ task = "receive" /\ at[Worker] = "done" /\ ret[Worker] \in Int =>
       IF ret[Worker] <= 0 THEN Seen("exited", NoDatagram)
       ELSE IF got[Worker].reqId = IPC_PING_REQ THEN Seen("waiting", NoDatagram)
       ELSE Seen("add", got[Worker])

LEMMA SeenIs == SeenCases /\ SeenCases'
<1> USE DEF SeenAt, SeenHand, Holds, Seen
<1>1. SeenCases
  BY DEF SeenCases
<1>2. SeenCases'
  BY DEF SeenCases
<1> QED BY <1>1, <1>2

\* The worker takes what is first in the socket.
LEMMA TailIsTaken ==
  ASSUME ServerInv, OrderInv, inbox # <<>>, inbox' = Tail(inbox), UNCHANGED arrived
  PROVE  /\ Head(inbox) \in SeenComing /\ Head(inbox) \in Datagrams
         /\ SeenComing' = SeenComing \ {Head(inbox)}
<1>0. /\ inbox \in Seq(Datagrams) /\ Injective(inbox) /\ arrived \in Seq(Datagrams)
      /\ ToSet(inbox) \subseteq ToSet(arrived)
  BY OrderedIsInjective DEF ServerInv, SocketInv, SocketTypes, ServerTypes, OrderInv
<1>1. /\ Head(inbox) \in ToSet(inbox) /\ Head(inbox) \in Datagrams
      /\ ToSet(inbox') = ToSet(inbox) \ {Head(inbox)}
  BY <1>0, TailKeeps
<1> QED BY <1>0, <1>1 DEF SeenComing

\* One call of receive(), as it goes on.
LEMMA ReceiveIsPromised ==
  ASSUME ServerInv, HandInv, OrderInv, task = "receive",
         UNCHANGED <<queueVars, thread, task, arrived>>,
         \/ Sock!ReceiveOnClosed(Worker) \/ Sock!ReceiveCheck(Worker)
         \/ Sock!ReceiveStep(Worker) \/ Sock!Interrupted(Worker)
  PROVE  \/ Promised!TaskCheck \/ Promised!TaskExit
         \/ \E m \in Datagrams : Promised!TaskReceive(m)
         \/ Promised!Lose
<1>0. SocketInv /\ SocketTypes /\ SocketInv' /\ UNCHANGED <<fd, sock>>
  BY ReceiveTypes DEF ServerInv, SocketInv
<1>1. SeenCases /\ SeenCases' /\ ret[Worker] \in Int /\ ret'[Worker] \in Int
  BY <1>0, SeenIs DEF SocketInv, SocketTypes
<1>2. UNCHANGED inbox => UNCHANGED SeenComing
  BY DEF SeenComing
<1> USE DEF queueVars, Promised!mboxVars
<1>3. ASSUME NEW label, Sock!Goto(Worker, label), at[Worker] \notin {"idle", "done"},
             label \notin {"idle", "done"}, UNCHANGED inbox
      PROVE  Promised!Lose
  <2>1. at'[Worker] = label
    BY <1>0, <1>3 DEF Sock!Goto, SocketTypes
  <2>2. Seen("waiting", NoDatagram) /\ Seen("waiting", NoDatagram)'
    BY <1>1, <1>3, <2>1 DEF SeenCases
  <2> QED BY <1>0, <1>2, <1>3, <2>2 DEF Promised!Lose, Seen
<1>4. ASSUME NEW r \in Int, r <= 0, Sock!Return(Worker, r, NoDatagram),
             at[Worker] \notin {"idle", "done"}, SeenComing' \subseteq SeenComing
      PROVE  Promised!TaskExit
  <2>1. at'[Worker] = "done" /\ ret'[Worker] = r
    BY <1>0, <1>4 DEF Sock!Return, SocketTypes
  <2>2. Seen("waiting", NoDatagram) /\ Seen("exited", NoDatagram)'
    BY <1>1, <1>4, <2>1 DEF SeenCases
  <2> QED BY <1>0, <1>4, <2>2 DEF Promised!TaskExit, Seen
<1>5. CASE Sock!ReceiveOnClosed(Worker)
  <2>1. /\ at[Worker] = "idle" /\ at'[Worker] = "done" /\ ret'[Worker] = -1
        /\ fd # Sock!Fd /\ UNCHANGED inbox
    BY <1>0, <1>5 DEF Sock!ReceiveOnClosed, Sock!Return, SocketTypes, Sock!NoFd, Sock!Fd
  <2>2. Seen("receive", NoDatagram) /\ Seen("exited", NoDatagram)'
    BY <1>1, <2>1 DEF SeenCases
  <2>3. Promised!TaskCheck
    BY <1>0, <1>2, <2>1, <2>2 DEF Promised!TaskCheck, Seen
  <2> QED BY <2>3
<1>6. CASE Sock!ReceiveCheck(Worker)
  <2>1. /\ at[Worker] = "idle" /\ at'[Worker] \in {"load", "poll"}
        /\ fd = Sock!Fd /\ UNCHANGED inbox
    BY <1>0, <1>6 DEF Sock!ReceiveCheck, Sock!Goto, SocketTypes, Sock!NoFd, Sock!Fd
  <2>2. Seen("receive", NoDatagram) /\ Seen("waiting", NoDatagram)'
    BY <1>1, <2>1 DEF SeenCases
  <2>3. Promised!TaskCheck
    BY <1>0, <1>2, <2>1, <2>2 DEF Promised!TaskCheck, Seen
  <2> QED BY <2>3
<1>7. CASE \/ Sock!LoadFd(Worker) \/ Sock!PollInvalid(Worker) \/ Sock!PollEnter(Worker)
           \/ Sock!PollReady(Worker) \/ Sock!Ioctl(Worker) \/ Sock!RecvEnter(Worker)
  BY <1>3, <1>7
  DEF Sock!LoadFd, Sock!PollInvalid, Sock!PollEnter, Sock!PollReady, Sock!Ioctl, Sock!RecvEnter
<1>8. CASE Sock!Interrupted(Worker) \/ Sock!RecvBadFd(Worker) \/ Sock!RecvEnd(Worker)
  BY <1>2, <1>4, <1>8 DEF Sock!Interrupted, Sock!RecvBadFd, Sock!RecvEnd
<1>9. CASE Sock!RecvDatagram(Worker)
  <2> DEFINE d == Head(inbox)
  <2>1. /\ at[Worker] = "receiving" /\ inbox # <<>> /\ inbox' = Tail(inbox)
        /\ \/ Sock!Return(Worker, -5, NoDatagram) \/ Sock!Return(Worker, -6, NoDatagram)
           \/ Sock!Return(Worker, d.size, d) /\ d.size >= Sock!HeaderSize
    BY <1>0, <1>9, RecvWhole
  <2>2. d \in SeenComing /\ d \in Datagrams /\ SeenComing' = SeenComing \ {d} /\ d.size \in Nat
    BY <2>1, TailIsTaken, UncutIsWhole
  <2> HIDE DEF d
  <2>3. CASE Sock!Return(Worker, -5, NoDatagram) \/ Sock!Return(Worker, -6, NoDatagram)
    BY <1>4, <2>1, <2>2, <2>3
  <2>4. CASE Sock!Return(Worker, d.size, d) /\ d.size >= Sock!HeaderSize
    <3>1. at'[Worker] = "done" /\ ret'[Worker] = d.size /\ got'[Worker] = d /\ d.size > 0
      BY <1>0, <2>2, <2>4 DEF Sock!Return, SocketTypes, Sock!HeaderSize
    <3>2. Seen("waiting", NoDatagram)
      BY <1>1, <2>1 DEF SeenCases
    <3>3. CASE d.reqId = IPC_PING_REQ
      <4>1. Seen("waiting", NoDatagram)'
        BY <1>1, <2>2, <3>1, <3>3 DEF SeenCases
      <4>2. Promised!Lose
        BY <1>0, <2>2, <3>2, <4>1 DEF Promised!Lose, Seen
      <4> QED BY <4>2
    <3>4. CASE d.reqId # IPC_PING_REQ
      <4>1. SeenAt' = "add" /\ SeenHand' = d
        BY <1>1, <2>2, <3>1, <3>4 DEF SeenCases, Seen
      <4>2. Promised!TaskReceive(d)
        BY <1>0, <2>2, <3>2, <4>1 DEF Promised!TaskReceive, Seen
      <4> QED BY <2>2, <4>2
    <3> QED BY <3>3, <3>4
  <2> QED BY <2>1, <2>3, <2>4
<1> QED BY <1>5, <1>6, <1>7, <1>8, <1>9 DEF Sock!ReceiveStep

\* What is sent is no longer to come, and is in the socket.
LEMMA SendingIsNotSeen ==
  ASSUME ServerInv, NEW d \in Datagrams, ClientSend(d)
  PROVE  UNCHANGED SeenComing
<1>1. /\ inbox \in Seq(Datagrams) /\ arrived \in Seq(Datagrams) /\ d \notin ToSet(arrived)
      /\ inbox' = Append(inbox, d) /\ arrived' = Append(arrived, d)
  BY DEF ServerInv, SocketInv, SocketTypes, ServerTypes, ClientSend, Sock!Arrive
<1>2. ToSet(inbox') = ToSet(inbox) \union {d} /\ ToSet(arrived') = ToSet(arrived) \union {d}
  BY <1>1, AppendKeeps
<1> QED BY <1>1, <1>2 DEF SeenComing

\* What is in the hands of the worker it answers, adds or discards.
LEMMA TaskIsPromised ==
  ASSUME ServerInv, HandInv, Task, ~TaskReceive
  PROVE  \/ Promised!TaskAdd \/ Promised!TaskPing
         \/ UNCHANGED Promised!serverVars
<1>0. /\ SocketInv /\ SocketTypes /\ ServerTypes /\ SeenCases /\ SeenCases'
      /\ ret[Worker] \in Int /\ NoDatagram \notin Datagrams
  BY SeenIs, DatagramAssumption DEF ServerInv, SocketInv, SocketTypes
<1> USE DEF queueVars, history, Promised!mboxVars
<1>1. ASSUME NEW w, Seen(w, NoDatagram), Seen(w, NoDatagram)',
             UNCHANGED <<queueVars, fd, thread, arrived, inbox>>
      PROVE  UNCHANGED Promised!serverVars
  BY <1>1 DEF Seen, SeenComing, Promised!serverVars, Promised!workerVars
<1>2. ASSUME Sock!ReceiveLeave(Worker)
      PROVE  UNCHANGED <<fd, inbox>> /\ at'[Worker] = "idle"
  BY <1>0, <1>2 DEF Sock!ReceiveLeave, SocketTypes
<1>3. CASE TaskExit
  <2>1. Seen("exited", NoDatagram) /\ Seen("exited", NoDatagram)'
    BY <1>0, <1>3 DEF TaskExit, SeenCases
  <2> QED BY <1>1, <1>2, <1>3, <2>1 DEF TaskExit
<1>4. CASE TaskDispatch
  <2>1. /\ UNCHANGED <<queueVars, fd, thread, arrived, inbox>>
        /\ got' = got /\ at' = at /\ task = "receive" /\ at[Worker] = "done" /\ ret[Worker] > 0
        /\ task' = (IF got[Worker].reqId = IPC_PING_REQ THEN "ping" ELSE "add")
    BY <1>4 DEF TaskDispatch, socketVars
  <2>2. CASE got[Worker].reqId = IPC_PING_REQ
    <3>1. Seen("waiting", NoDatagram) /\ Seen("waiting", NoDatagram)'
      BY <1>0, <2>1, <2>2 DEF SeenCases
    <3> QED BY <1>1, <2>1, <3>1
  <2>3. CASE got[Worker].reqId # IPC_PING_REQ
    <3>1. Seen("add", got[Worker]) /\ Seen("add", got[Worker])'
      BY <1>0, <2>1, <2>3 DEF SeenCases
    <3> QED BY <2>1, <3>1 DEF Seen, SeenComing, Promised!serverVars, Promised!workerVars
  <2> QED BY <2>2, <2>3
<1>5. CASE TaskPing \/ TaskUnblock
  <2>1. /\ UNCHANGED <<queueVars, thread, arrived>> /\ Sock!ReceiveLeave(Worker)
        /\ task \in {"ping", "sending"} /\ task' = "receive"
    BY <1>5 DEF TaskPing, TaskUnblock
  <2>2. Seen("waiting", NoDatagram) /\ Seen("receive", NoDatagram)'
    BY <1>0, <1>2, <2>1 DEF SeenCases
  <2>3. Promised!TaskPing
    BY <1>2, <2>1, <2>2 DEF Promised!TaskPing, Seen, SeenComing
  <2> QED BY <2>3
<1>6. CASE TaskBlock
  <2>1. /\ UNCHANGED <<queueVars, fd, thread, arrived, inbox>> /\ task = "ping" /\ task' = "sending"
    BY <1>6 DEF TaskBlock, socketVars
  <2>2. Seen("waiting", NoDatagram) /\ Seen("waiting", NoDatagram)'
    BY <1>0, <2>1 DEF SeenCases
  <2> QED BY <1>1, <2>1, <2>2
<1>7. CASE TaskAdd \/ TaskDiscard
  <2>1. /\ UNCHANGED <<thread, arrived>> /\ Sock!ReceiveLeave(Worker)
        /\ task = "add" /\ task' = "receive"
        /\ Queue!Put(got[Worker]) \/ (~Queue!HasRoom /\ UNCHANGED queueVars)
    BY <1>7 DEF TaskAdd, TaskDiscard
  <2>2. Seen("add", got[Worker]) /\ Seen("receive", NoDatagram)'
    BY <1>0, <1>2, <2>1 DEF SeenCases
  <2>3. SeenHand = got[Worker] /\ SeenHand' = NoDatagram
    BY <2>2 DEF Seen
  <2>4. Promised!Put(SeenHand) \/ (~Promised!HasRoom /\ UNCHANGED queueVars)
    BY <2>1, <2>3, PromisedMailbox
  <2>5. Promised!TaskAdd
    BY <1>2, <2>1, <2>2, <2>3, <2>4 DEF Promised!TaskAdd, Seen, SeenComing
  <2> QED BY <2>5
<1> QED BY <1>3, <1>4, <1>5, <1>6, <1>7 DEF Task

\* start() and stop() do what LinxServer does when the worker is created, the socket
\* is forgotten, the queue is closed, and the worker is joined.
LEMMA ControlIsPromised ==
  ASSUME ServerInv, StopInv, NEW t \in Controllers,
         StartCheck(t) \/ StartCreate(t) \/ StopCheck(t) \/ StopStep(t)
  PROVE  \/ Promised!StartWorker \/ Promised!Stop \/ Promised!Lose
         \/ UNCHANGED Promised!serverVars
<1>0. /\ ServerTypes /\ SeenCases /\ SeenCases' /\ NoDatagram \notin Datagrams
  BY SeenIs, DatagramAssumption DEF ServerInv
<1> USE DEF queueVars, history, Promised!mboxVars, StopLabels, Control, StopInv
<1>1. ASSUME UNCHANGED <<at, ret, got, task>> PROVE UNCHANGED <<SeenAt, SeenHand>>
  BY <1>1 DEF SeenAt, SeenHand, Holds
<1>2. CASE StartCheck(t) \/ StopCheck(t) \/ StopShutdown(t)
  <2>1. UNCHANGED <<queueVars, fd, inbox, at, ret, got, thread, task, arrived>>
    BY <1>2 DEF StartCheck, StopCheck, StopShutdown, Sock!Shutdown, Sock!callVars, socketVars
  <2> QED BY <1>1, <2>1 DEF SeenComing, Promised!serverVars, Promised!workerVars
<1>3. CASE StartCreate(t)
  <2>1. /\ UNCHANGED <<queueVars, fd, inbox, at, arrived>>
        /\ thread = "none" /\ thread' = "joinable" /\ task = "none" /\ task' = "receive"
        /\ at[Worker] = "idle"
    BY <1>3 DEF StartCreate, socketVars
  <2>2. Seen("none", NoDatagram) /\ Seen("receive", NoDatagram)'
    BY <1>0, <2>1 DEF SeenCases
  <2>3. Promised!StartWorker
    BY <2>1, <2>2 DEF Promised!StartWorker, Seen, SeenComing
  <2> QED BY <2>3
<1>4. CASE StopCloseFd(t)
  <2>1. /\ UNCHANGED <<queueVars, fd, at, ret, got, thread, task, arrived>>
        /\ inbox' \in {inbox, <<>>}
    BY <1>4 DEF StopCloseFd, Sock!CloseFd, Sock!callVars
  <2>2. SeenComing' \subseteq SeenComing
    BY <2>1, EmptyKeeps DEF SeenComing
  <2>3. Promised!Lose
    BY <1>1, <2>1, <2>2 DEF Promised!Lose
  <2> QED BY <2>3
<1>5. CASE StopForgetFd(t)
  <2>1. /\ UNCHANGED <<queueVars, inbox, at, ret, got, thread, task, arrived>>
        /\ fd' # Sock!Fd /\ thread = "joinable"
    BY <1>5 DEF StopForgetFd, Sock!ForgetFd, Sock!callVars, Sock!NoFd, Sock!Fd
  <2>2. Promised!CloseSocket
    BY <1>1, <2>1 DEF Promised!CloseSocket, SeenComing
  <2> QED BY <2>1, <2>2 DEF Promised!Stop
<1>6. CASE StopQueue(t)
  <2>1. /\ UNCHANGED <<fd, inbox, at, ret, got, thread, task, arrived>>
        /\ Promised!CloseBox /\ fd # Sock!Fd /\ thread = "joinable"
    BY <1>6, PromisedMailbox DEF StopQueue, socketVars, Sock!NoFd, Sock!Fd
  <2>2. Promised!CloseQueue
    BY <1>1, <2>1 DEF Promised!CloseQueue, Promised!workerVars, SeenComing
  <2> QED BY <2>1, <2>2 DEF Promised!Stop
<1>7. CASE StopJoin(t)
  <2>1. /\ UNCHANGED <<queueVars, fd, inbox, arrived>> /\ thread = "joinable" /\ closed
        /\ task = "exited" /\ task' = "none" /\ thread' = "none"
    BY <1>7 DEF StopJoin, socketVars
  <2>2. Seen("exited", NoDatagram) /\ Seen("none", NoDatagram)'
    BY <1>0, <2>1 DEF SeenCases
  <2>3. Promised!Join
    BY <2>1, <2>2 DEF Promised!Join, Seen, SeenComing
  <2> QED BY <2>1, <2>3 DEF Promised!Stop
<1> QED BY <1>2, <1>3, <1>4, <1>5, <1>6, <1>7 DEF StopStep

\* Each step of the server is one of LinxServer, or none that LinxServer sees.
LEMMA StepIsPromised ==
  ASSUME ServerInv, StopInv, HandInv, OrderInv, [Next]_vars
  PROVE  [Promised!ServerNext]_(Promised!serverVars)
<1> USE DEF Promised!ServerNext
<1>1. CASE UNCHANGED <<queueVars, fd, at, ret, got, thread, task, SeenComing>>
  BY <1>1 DEF SeenAt, SeenHand, Holds, queueVars, Promised!serverVars, Promised!mboxVars,
     Promised!workerVars
<1>2. CASE UNCHANGED vars \/ ClientFillsOrReads
  BY <1>1, <1>2 DEF vars, ClientFillsOrReads, socketVars, history, SeenComing
<1>3. ASSUME NEW d \in Datagrams, ClientSend(d) PROVE [Promised!ServerNext]_(Promised!serverVars)
  BY <1>1, <1>3, SendingIsNotSeen DEF ClientSend, Sock!Arrive, Sock!callVars
<1>4. CASE TaskReceive \/ TaskInterrupted
  <2>1. /\ task = "receive" /\ UNCHANGED <<queueVars, thread, task, arrived>>
        /\ \/ Sock!ReceiveOnClosed(Worker) \/ Sock!ReceiveCheck(Worker)
           \/ Sock!ReceiveStep(Worker) \/ Sock!Interrupted(Worker)
    BY <1>4 DEF TaskReceive, TaskInterrupted, history
  <2> QED BY <2>1, ReceiveIsPromised DEF Promised!Task
<1>5. CASE Task /\ ~TaskReceive
  BY <1>5, TaskIsPromised DEF Promised!Task
<1>6. ASSUME NEW t \in Controllers, StartCheck(t) \/ StartCreate(t) \/ StopCheck(t) \/ StopStep(t)
      PROVE  [Promised!ServerNext]_(Promised!serverVars)
  BY <1>6, ControlIsPromised
<1>7. ASSUME NEW a \in Apps, ReceiveAsk(a) \/ ReceiveReply(a) \/ ReceiveReturn(a)
      PROVE  [Promised!ServerNext]_(Promised!serverVars)
  <2>1. Promised!Receive(a)
    BY <1>7, PromisedMailbox DEF ReceiveAsk, ReceiveReply, ReceiveReturn, Promised!Receive
  <2>2. UNCHANGED Promised!workerVars
    BY <1>7 DEF ReceiveAsk, ReceiveReply, ReceiveReturn, socketVars, history, SeenAt, SeenHand,
       Holds, SeenComing, Promised!workerVars
  <2> QED BY <2>1, <2>2
<1> QED BY <1>2, <1>3, <1>4, <1>5, <1>6, <1>7 DEF Next

\* For one controlling thread, the server with its socket, one system call at a time,
\* implements LinxServer, the server the handler is built on.
THEOREM ServerIsPromised ==
  ASSUME OneController
  PROVE  Spec => ImplementsServer
<1> DEFINE Inv == DeliveryInv /\ StopInv
<1>1. Init => Inv
  BY DeliveryInit, StopInit
<1>2. Inv /\ [Next]_vars => Inv'
  BY DeliveryNext, StopNext DEF DeliveryInv
<1>3. Init => Promised!ServerInit
  <2> SUFFICES ASSUME Init PROVE Promised!ServerInit
    OBVIOUS
  <2>1. /\ task = "none" /\ thread = "none" /\ fd = Sock!Fd /\ inbox = <<>> /\ arrived = <<>>
        /\ Queue!MailboxInit
    BY DEF Init, Sock!SocketInit
  <2>2. Seen("none", NoDatagram)
    BY <2>1, SeenIs DEF SeenCases
  <2>3. SeenComing = Datagrams
    BY <2>1, EmptyKeeps DEF SeenComing
  <2> QED BY <2>1, <2>2, <2>3 DEF Promised!ServerInit, Promised!MailboxInit, Queue!MailboxInit, Seen
<1>4. Inv /\ [Next]_vars => [Promised!ServerNext]_(Promised!serverVars)
  BY StepIsPromised DEF DeliveryInv
<1> HIDE DEF Inv
<1> QED BY <1>1, <1>2, <1>3, <1>4, PTL DEF Spec, ImplementsServer, Promised!ServerSpec
=============================================================================
