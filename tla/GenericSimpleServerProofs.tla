------------------------ MODULE GenericSimpleServerProofs ------------------------
(***************************************************************************)
(* Theorems about GenericSimpleServer, for any datagrams, requests and     *)
(* room in the socket: two of them for any receivers, the others for one.  *)
(***************************************************************************)
EXTENDS GenericSimpleServerProperties, LinxMessageFilterProofs

-----------------------------------------------------------------------------
(* The socket, which nobody closes                                         *)

\* What a receiver can get of a datagram.
Cut(d, size) == [d EXCEPT !.size = size]
Pieces == {NoDatagram} \union UNION {{Cut(d, size) : size \in 0..d.size} : d \in Datagrams}

ReceivePoints == {"idle", "poll", "polling", "ioctl", "recv", "receiving", "done"}

SocketTypes ==
  /\ fd = Sock!Fd /\ sock = "open"
  /\ inbox \in Seq(Datagrams) /\ Len(inbox) <= SocketRoom
  /\ at \in [Receivers -> ReceivePoints]
  /\ pollFd \in [Receivers -> {Sock!NoFd, Sock!Fd}]
  /\ avail \in [Receivers -> Nat]
  /\ ret \in [Receivers -> Int]
  /\ got \in [Receivers -> Pieces]

\* receive() has a message in hand exactly when it returns a length, which is
\* that of a signal number at least.
GotInv ==
  \A t \in Receivers :
    /\ at[t] = "done" /\ ret[t] > 0 => ret[t] >= Sock!HeaderSize /\ got[t] # NoDatagram
    /\ at[t] # "done" \/ ret[t] <= 0 => got[t] = NoDatagram

SocketInv == SocketTypes /\ GotInv

LEMMA PiecesOfDatagrams ==
  /\ NoDatagram \in Pieces
  /\ \A d \in Datagrams : d.size \in Nat /\ Cut(d, d.size) = d
  /\ \A d \in Datagrams : \A size \in 0..d.size :
       Cut(d, size) \in Pieces /\ Cut(d, size) # NoDatagram
BY SimpleDatagramAssumption DEF Pieces, Cut

\* recvfrom: nothing, or a piece that holds a signal number.
LEMMA RecvPiece ==
  ASSUME SocketInv, NEW t \in Receivers, Sock!RecvDatagram(t)
  PROVE  /\ at[t] = "receiving" /\ inbox # <<>> /\ Head(inbox) \in Datagrams
         /\ inbox' = Tail(inbox) /\ inbox' \in Seq(Datagrams) /\ Len(inbox') <= SocketRoom
         /\ UNCHANGED <<fd, sock>>
         /\ \/ /\ Sock!Return(t, -5, NoDatagram)
               /\ avail[t] # Head(inbox).size
            \/ /\ Sock!Return(t, -6, NoDatagram)
               /\ avail[t] # Head(inbox).size \/ Head(inbox).size < Sock!HeaderSize
            \/ \E size \in 0..Head(inbox).size :
                 /\ size >= Sock!HeaderSize /\ size = avail[t]
                 /\ Sock!Return(t, size, Cut(Head(inbox), size))
<1> DEFINE d == Head(inbox)
           len == IF d.size <= avail[t] THEN d.size ELSE avail[t]
<1>1. /\ at[t] = "receiving" /\ inbox # <<>>
      /\ inbox' = Tail(inbox) /\ UNCHANGED <<fd, sock>>
      /\ IF len # avail[t] THEN Sock!Return(t, -5, NoDatagram)
         ELSE IF len < Sock!HeaderSize THEN Sock!Return(t, -6, NoDatagram)
         ELSE Sock!Return(t, len, Cut(d, len))
  BY DEF Sock!RecvDatagram, Cut
<1>2. d \in Datagrams /\ inbox' \in Seq(Datagrams) /\ Len(inbox') <= SocketRoom
  BY <1>1, SimpleSocketAssumption DEF SocketInv, SocketTypes
<1>3. d.size \in Nat /\ avail[t] \in Nat
  BY <1>2, PiecesOfDatagrams DEF SocketInv, SocketTypes
<1> HIDE DEF d
<1>4. \/ Sock!Return(t, -5, NoDatagram) /\ avail[t] # d.size
      \/ /\ Sock!Return(t, -6, NoDatagram)
         /\ avail[t] # d.size \/ d.size < Sock!HeaderSize
      \/ \E size \in 0..d.size :
           /\ size >= Sock!HeaderSize /\ size = avail[t]
           /\ Sock!Return(t, size, Cut(d, size))
  <2>1. len \in 0..d.size /\ (len = avail[t] \/ len = d.size)
    BY <1>3
  <2>2. CASE len # avail[t]
    BY <1>1, <1>3, <2>2
  <2>3. CASE len = avail[t] /\ len < Sock!HeaderSize
    BY <1>1, <1>3, <2>3 DEF Sock!HeaderSize
  <2>4. CASE len = avail[t] /\ ~(len < Sock!HeaderSize)
    <3>1. Sock!Return(t, len, Cut(d, len))
      BY <1>1, <2>4
    <3> HIDE DEF len
    <3>2. len >= Sock!HeaderSize
      BY <2>1, <2>4 DEF Sock!HeaderSize
    <3> QED BY <2>1, <2>4, <3>1, <3>2
  <2> QED BY <2>2, <2>3, <2>4
<1> QED BY <1>1, <1>2, <1>4 DEF d

LEMMA ReturnTypes ==
  ASSUME SocketInv, NEW t \in Receivers, NEW r \in Int, NEW p \in Pieces,
         Sock!Return(t, r, p), UNCHANGED <<fd, sock>>,
         inbox' \in Seq(Datagrams), Len(inbox') <= SocketRoom,
         r > 0 => r >= Sock!HeaderSize /\ p # NoDatagram,
         r <= 0 => p = NoDatagram
  PROVE  SocketInv'
<1>1. /\ at' = [at EXCEPT ![t] = "done"]
      /\ ret' = [ret EXCEPT ![t] = r]
      /\ got' = [got EXCEPT ![t] = p]
      /\ pollFd' = [pollFd EXCEPT ![t] = Sock!NoFd]
      /\ avail' = [avail EXCEPT ![t] = 0]
  BY DEF Sock!Return
<1>2. SocketTypes'
  BY <1>1 DEF SocketInv, SocketTypes, ReceivePoints
<1>3. GotInv'
  BY <1>1 DEF SocketInv, SocketTypes, GotInv
<1> QED BY <1>2, <1>3 DEF SocketInv

LEMMA ReceiveTypes ==
  ASSUME SocketInv, NEW t \in Receivers,
         \/ Sock!ReceiveCheck(t) \/ Sock!PollTimeout(t) \/ Sock!Interrupted(t)
         \/ Sock!PollEnter(t) \/ Sock!PollReady(t) \/ Sock!Ioctl(t)
         \/ Sock!RecvEnter(t) \/ Sock!RecvDatagram(t)
  PROVE  SocketInv'
<1> USE DEF SocketInv, SocketTypes, GotInv, ReceivePoints, Sock!NoFd, Sock!Fd, Sock!Goto
<1>1. CASE Sock!ReceiveCheck(t)
  BY <1>1 DEF Sock!ReceiveCheck
<1>2. CASE Sock!PollTimeout(t) \/ Sock!Interrupted(t)
  <2>1. \E r \in {0, -2, -4} : Sock!Return(t, r, NoDatagram)
    BY <1>2 DEF Sock!PollTimeout, Sock!Interrupted
  <2>2. UNCHANGED <<fd, sock, inbox>>
    BY <1>2 DEF Sock!PollTimeout, Sock!Interrupted
  <2> HIDE DEF SocketInv
  <2> QED BY <2>1, <2>2, ReturnTypes, PiecesOfDatagrams DEF SocketInv
<1>3. CASE Sock!PollEnter(t) \/ Sock!PollReady(t)
  BY <1>3 DEF Sock!PollEnter, Sock!PollReady
<1>4. CASE Sock!Ioctl(t)
  <2>1. inbox # <<>> => Head(inbox).size \in Nat
    BY PiecesOfDatagrams
  <2> QED BY <1>4, <2>1 DEF Sock!Ioctl
<1>5. CASE Sock!RecvEnter(t)
  BY <1>5 DEF Sock!RecvEnter
<1>6. CASE Sock!RecvDatagram(t)
  <2> HIDE DEF SocketInv
  <2>1. Head(inbox) \in Datagrams /\ Head(inbox).size \in Nat
    BY <1>6, RecvPiece, PiecesOfDatagrams
  <2>2. \E r \in Int, p \in Pieces :
          /\ Sock!Return(t, r, p)
          /\ r > 0 => r >= Sock!HeaderSize /\ p # NoDatagram
          /\ r <= 0 => p = NoDatagram
    <3>1. CASE Sock!Return(t, -5, NoDatagram) \/ Sock!Return(t, -6, NoDatagram)
      BY <3>1, PiecesOfDatagrams
    <3>2. CASE \E size \in 0..Head(inbox).size :
                 /\ size >= Sock!HeaderSize
                 /\ Sock!Return(t, size, Cut(Head(inbox), size))
      BY <2>1, <3>2, PiecesOfDatagrams DEF Sock!HeaderSize
    <3> QED BY <1>6, RecvPiece, <3>1, <3>2
  <2> QED BY <1>6, <2>2, RecvPiece, ReturnTypes
<1> QED BY <1>1, <1>2, <1>3, <1>4, <1>5, <1>6

LEMMA LeaveTypes ==
  ASSUME SocketInv, NEW t \in Receivers, Sock!ReceiveLeave(t)
  PROVE  SocketInv'
BY PiecesOfDatagrams
DEF SocketInv, SocketTypes, GotInv, ReceivePoints, Sock!ReceiveLeave

LEMMA ArriveTypes ==
  ASSUME SocketInv, NEW d \in Datagrams, Sock!Arrive(d)
  PROVE  SocketInv'
<1>1. /\ inbox' = Append(inbox, d) /\ inbox \in Seq(Datagrams) /\ Len(inbox) < SocketRoom
      /\ UNCHANGED <<fd, sock, at, pollFd, avail, ret, got>>
  BY DEF Sock!Arrive, Sock!callVars, SocketInv, SocketTypes
<1>2. inbox' \in Seq(Datagrams) /\ Len(inbox') <= SocketRoom
  BY <1>1, SimpleSocketAssumption
<1> QED BY <1>1, <1>2 DEF SocketInv, SocketTypes, GotInv

-----------------------------------------------------------------------------
(* The loop of receive()                                                   *)

CallTypes ==
  /\ loop \in [Receivers -> {"idle", "top", "receive", "sending", "test", "return"}]
  /\ asked \in [Receivers -> Requests \union {NoRequest}]
  /\ deadline \in [Receivers -> Distances]
  /\ timeout \in [Receivers -> {"infinite", "finite", "zero"}]
  /\ failed \in [Receivers -> BOOLEAN]
  /\ result \in [Receivers -> Pieces]
  /\ arrived \subseteq Datagrams \ Repeatable

Due(t) == deadline[t] \in {"near", "past"}

\* The loop is in the socket where the socket is in receive(); the deadline is
\* that of the request, and an empty hand without an error means that it is due.
\* While an answer waits to go out the ping it answers is in hand.
LoopInv ==
  \A t \in Receivers :
    /\ loop[t] \in {"receive", "sending"} <=> at[t] # "idle"
    /\ loop[t] = "sending" => at[t] = "done" /\ ret[t] > 0 /\ IsPing(t)
    /\ loop[t] = "idle" <=> asked[t] = NoRequest
    /\ loop[t] # "idle" => (deadline[t] = "never" <=> Infinite(t))
    /\ loop[t] = "receive" /\ timeout[t] = "zero" => Due(t)
    /\ loop[t] = "receive" /\ timeout[t] = "infinite" => Infinite(t)
    /\ at[t] = "done" /\ ret[t] = 0 => Due(t)
    /\ loop[t] # "return" => result[t] = NoDatagram /\ ~failed[t]
    /\ loop[t] = "return" /\ result[t] = NoDatagram /\ ~failed[t] => Due(t)

TypeInv == SocketInv /\ CallTypes

Inv == TypeInv /\ LoopInv

LEMMA Starts == Init => Inv
<1>1. Init => SocketInv
  BY EmptySeq, PiecesOfDatagrams, SimpleSocketAssumption
  DEF Init, Sock!SocketInit, SocketInv, SocketTypes, GotInv, ReceivePoints, Sock!NoFd, Sock!Fd
<1>2. Init => CallTypes
  BY PiecesOfDatagrams DEF Init, CallTypes, Distances
<1>3. Init => LoopInv
  BY SimpleRequestAssumption DEF Init, LoopInv, Sock!SocketInit
<1> QED BY <1>1, <1>2, <1>3 DEF Inv, TypeInv

LEMMA DeadlineTypes ==
  /\ \A ms \in Int : DeadlineOf(ms) \in Distances
                     /\ (DeadlineOf(ms) = "never" <=> ms = INFINITE_TIMEOUT)
  /\ \A d \in Distances :
       /\ getRemainingTimeMs(d) \in {"infinite", "finite", "zero"}
       /\ getRemainingTimeMs(d) = "zero" => d \in {"near", "past"}
       /\ getRemainingTimeMs(d) = "infinite" => d = "never"
       /\ Nearer(d) \in Distances
       /\ Nearer(d) = "never" <=> d = "never"
       /\ d \in {"near", "past"} => Nearer(d) \in {"near", "past"}
       /\ isExpired(d) => d \in {"near", "past"}
BY DEF DeadlineOf, Distances, getRemainingTimeMs, Nearer, isExpired, INFINITE_TIMEOUT

\* Where the steps inside the socket leave a receiver, and with what.
LEMMA SocketMoves ==
  ASSUME SocketInv, NEW t \in Receivers,
         \/ Sock!ReceiveCheck(t) \/ Sock!PollTimeout(t) \/ Sock!Interrupted(t)
         \/ Sock!PollEnter(t) \/ Sock!PollReady(t) \/ Sock!Ioctl(t)
         \/ Sock!RecvEnter(t) \/ Sock!RecvDatagram(t)
  PROVE  /\ at'[t] # "idle"
         /\ \A u \in Receivers \ {t} : at'[u] = at[u] /\ ret'[u] = ret[u] /\ got'[u] = got[u]
         /\ at'[t] = "done" /\ ret'[t] = 0 => Sock!PollTimeout(t)
<1> USE DEF SocketInv, SocketTypes, Sock!Goto
<1>1. CASE Sock!ReceiveCheck(t)
  BY <1>1 DEF Sock!ReceiveCheck
<1>2. CASE Sock!PollTimeout(t)
  BY <1>2 DEF Sock!PollTimeout, Sock!Return
<1>3. CASE Sock!Interrupted(t)
  BY <1>3 DEF Sock!Interrupted, Sock!Return
<1>4. CASE Sock!PollEnter(t) \/ Sock!PollReady(t)
  BY <1>4 DEF Sock!PollEnter, Sock!PollReady
<1>5. CASE Sock!Ioctl(t)
  BY <1>5 DEF Sock!Ioctl
<1>6. CASE Sock!RecvEnter(t)
  BY <1>6 DEF Sock!RecvEnter
<1>7. CASE Sock!RecvDatagram(t)
  <2>1. \E r \in Int : r # 0 /\ \E p : Sock!Return(t, r, p)
    <3>1. Head(inbox).size \in Nat
      BY <1>7, RecvPiece, PiecesOfDatagrams
    <3>2. CASE Sock!Return(t, -5, NoDatagram) \/ Sock!Return(t, -6, NoDatagram)
      BY <3>2
    <3>3. CASE \E size \in 0..Head(inbox).size :
                 /\ size >= Sock!HeaderSize
                 /\ Sock!Return(t, size, Cut(Head(inbox), size))
      BY <3>1, <3>3 DEF Sock!HeaderSize
    <3> QED BY <1>7, <3>2, <3>3, RecvPiece
  <2> QED BY <2>1 DEF Sock!Return
<1> QED BY <1>1, <1>2, <1>3, <1>4, <1>5, <1>6, <1>7

\* receive() goes on in the socket.
LEMMA InSocket ==
  ASSUME Inv, NEW t \in Receivers, loop[t] = "receive",
         \/ Sock!PollTimeout(t) /\ Due(t)
         \/ Sock!Interrupted(t)
         \/ Sock!PollEnter(t) \/ Sock!PollReady(t) \/ Sock!Ioctl(t)
         \/ Sock!RecvEnter(t) \/ Sock!RecvDatagram(t),
         UNCHANGED <<loop, callVars, history>>
  PROVE  Inv'
<1>1. SocketInv'
  BY ReceiveTypes DEF Inv, TypeInv
<1>2. CallTypes'
  BY DEF Inv, TypeInv, CallTypes, callVars, history
<1>3. /\ at'[t] # "idle"
      /\ \A u \in Receivers \ {t} : at'[u] = at[u] /\ ret'[u] = ret[u] /\ got'[u] = got[u]
      /\ at'[t] = "done" /\ ret'[t] = 0 => Due(t)
  <2>1. at'[t] = "done" /\ ret'[t] = 0 => Sock!PollTimeout(t)
    BY SocketMoves DEF Inv, TypeInv
  <2>2. Sock!PollTimeout(t) => Due(t)
    BY DEF Sock!PollTimeout, Sock!Interrupted, Sock!PollEnter, Sock!PollReady, Sock!Ioctl,
           Sock!RecvEnter, Sock!RecvDatagram, Sock!Return, Inv, TypeInv, SocketInv, SocketTypes
  <2> QED BY <2>1, <2>2, SocketMoves DEF Inv, TypeInv
<1>4. LoopInv'
  BY <1>3 DEF Inv, TypeInv, CallTypes, LoopInv, Due, Infinite, IsPing, callVars
<1> QED BY <1>1, <1>2, <1>4 DEF Inv, TypeInv

LEMMA Steps == Inv /\ [Next]_vars => Inv'
<1> SUFFICES ASSUME Inv, [Next]_vars PROVE Inv'
  OBVIOUS
<1>0. SocketInv /\ CallTypes /\ LoopInv /\ TypeInv
  BY DEF Inv, TypeInv
<1> USE <1>0 DEF CallTypes, LoopInv, Infinite, Due, IsPing, callVars, history, Move
<1>1. CASE UNCHANGED vars
  BY <1>1 DEF vars, socketVars, Inv, TypeInv, SocketInv, SocketTypes, GotInv
<1>2. ASSUME NEW d \in Datagrams, ClientSend(d) PROVE Inv'
  <2>1. SocketInv'
    BY <1>2, ArriveTypes DEF ClientSend
  <2>2. UNCHANGED <<at, ret, got>>
    BY <1>2 DEF ClientSend, Sock!Arrive, Sock!callVars
  <2>3. CallTypes' /\ LoopInv'
    BY <1>2, <2>2 DEF ClientSend, Once
  <2> QED BY <2>1, <2>3 DEF Inv, TypeInv
<1>3. ASSUME NEW t \in Receivers, NEW r \in Requests, CallReceive(t, r) PROVE Inv'
  <2>1. SocketInv' /\ at' = at /\ ret' = ret /\ got' = got
    BY <1>3 DEF CallReceive, socketVars, SocketInv, SocketTypes, GotInv
  <2>2. r.timeoutMs \in Int /\ r # NoRequest
    BY SimpleRequestAssumption
  <2>3. CallTypes' /\ LoopInv'
    BY <1>3, <2>1, <2>2, DeadlineTypes DEF CallReceive
  <2> QED BY <2>1, <2>3 DEF Inv, TypeInv
<1>4. ASSUME NEW t \in Receivers, LoopTop(t) PROVE Inv'
  <2>1. SocketInv'
    BY <1>4, ReceiveTypes DEF LoopTop
  <2>2. /\ at[t] = "idle" /\ at'[t] # "idle"
        /\ \A u \in Receivers \ {t} : at'[u] = at[u] /\ ret'[u] = ret[u] /\ got'[u] = got[u]
        /\ ~(at'[t] = "done")
    BY <1>4 DEF LoopTop, Sock!ReceiveCheck, Sock!Goto, SocketInv, SocketTypes
  <2>3. CallTypes' /\ LoopInv'
    BY <1>4, <2>2, DeadlineTypes DEF LoopTop
  <2> QED BY <2>1, <2>3 DEF Inv, TypeInv
<1>5. ASSUME NEW t \in Receivers, PollTimeout(t) PROVE Inv'
  <2>1. Due(t)
    BY <1>5 DEF PollTimeout
  <2> QED BY <1>5, <2>1, InSocket DEF PollTimeout
<1>6. ASSUME NEW t \in Receivers, SocketReceive(t) \/ Interrupt(t) PROVE Inv'
  BY <1>6, InSocket DEF SocketReceive, Interrupt
<1>7. ASSUME NEW t \in Receivers, Sock!ReceiveLeave(t), loop[t] \in {"receive", "sending"},
             loop' = [loop EXCEPT ![t] = "return"] \/ loop' = [loop EXCEPT ![t] = "test"],
             CallTypes', asked' = asked, deadline' = deadline, timeout' = timeout,
             \A u \in Receivers \ {t} : failed'[u] = failed[u] /\ result'[u] = result[u],
             loop'[t] # "return" => result' = result /\ failed' = failed,
             loop'[t] = "return" /\ result'[t] = NoDatagram /\ ~failed'[t] => Due(t)
      PROVE  Inv'
  <2>1. SocketInv'
    BY <1>7, LeaveTypes
  <2>2. /\ at'[t] = "idle"
        /\ \A u \in Receivers \ {t} : at'[u] = at[u] /\ ret'[u] = ret[u] /\ got'[u] = got[u]
    BY <1>7 DEF Sock!ReceiveLeave, SocketInv, SocketTypes
  <2>3. LoopInv'
    BY <1>7, <2>2
  <2> QED BY <1>7, <2>1, <2>3 DEF Inv, TypeInv
<1>8. ASSUME NEW t \in Receivers, ReceiveNothing(t) PROVE Inv'
  <2>1. CallTypes'
    BY <1>8 DEF ReceiveNothing
  <2>2. ~failed'[t] => Due(t)
    <3>1. CASE ret[t] < 0
      <4>1. failed'[t] = TRUE
        BY <1>8, <3>1 DEF ReceiveNothing
      <4> QED BY <4>1
    <3>2. CASE ~(ret[t] < 0)
      <4>1. at[t] = "done" /\ ret[t] = 0
        BY <1>8, <3>2 DEF ReceiveNothing, SocketInv, SocketTypes
      <4> QED BY <4>1
    <3> QED BY <3>1, <3>2
  <2>3. /\ Sock!ReceiveLeave(t) /\ loop[t] = "receive"
        /\ loop' = [loop EXCEPT ![t] = "return"] /\ loop'[t] = "return"
        /\ asked' = asked /\ deadline' = deadline /\ timeout' = timeout /\ result' = result
        /\ \A u \in Receivers \ {t} : failed'[u] = failed[u]
    BY <1>8 DEF ReceiveNothing
  <2> QED BY <1>7, <2>1, <2>2, <2>3
<1>9. ASSUME NEW t \in Receivers, AnswerPing(t) \/ AnswerGoesOut(t) \/ SkipMessage(t)
      PROVE  Inv'
  <2>1. CallTypes'
    BY <1>9 DEF AnswerPing, AnswerGoesOut, SkipMessage
  <2>2. /\ Sock!ReceiveLeave(t) /\ loop[t] \in {"receive", "sending"}
        /\ loop' = [loop EXCEPT ![t] = "test"] /\ loop'[t] = "test" /\ UNCHANGED callVars
    BY <1>9 DEF AnswerPing, AnswerGoesOut, SkipMessage
  <2> QED BY <1>7, <2>1, <2>2
<1>10. ASSUME NEW t \in Receivers, ReturnMessage(t) PROVE Inv'
  <2>1. got[t] \in Pieces /\ got[t] # NoDatagram
    BY <1>10 DEF ReturnMessage, SocketInv, SocketTypes, GotInv
  <2>2. CallTypes'
    BY <1>10, <2>1 DEF ReturnMessage
  <2> QED BY <1>7, <1>10, <2>1, <2>2 DEF ReturnMessage
<1>11. ASSUME NEW t \in Receivers, LoopTest(t) PROVE Inv'
  <2>1. SocketInv' /\ at' = at /\ ret' = ret /\ got' = got
    BY <1>11 DEF LoopTest, socketVars, SocketInv, SocketTypes, GotInv
  <2>2. CallTypes' /\ LoopInv'
    BY <1>11, <2>1, DeadlineTypes DEF LoopTest
  <2> QED BY <2>1, <2>2 DEF Inv, TypeInv
<1>12. ASSUME NEW t \in Receivers, Return(t) PROVE Inv'
  <2>1. SocketInv' /\ at' = at /\ ret' = ret /\ got' = got
    BY <1>12 DEF Return, socketVars, SocketInv, SocketTypes, GotInv
  <2>2. CallTypes' /\ LoopInv'
    BY <1>12, <2>1, PiecesOfDatagrams DEF Return, Distances
  <2> QED BY <2>1, <2>2 DEF Inv, TypeInv
<1>13. ASSUME NEW t \in Receivers, Elapse(t) PROVE Inv'
  <2>1. SocketInv' /\ at' = at /\ ret' = ret /\ got' = got
    BY <1>13 DEF Elapse, socketVars, SocketInv, SocketTypes, GotInv
  <2>2. CallTypes' /\ LoopInv'
    BY <1>13, <2>1, DeadlineTypes DEF Elapse
  <2> QED BY <2>1, <2>2 DEF Inv, TypeInv
<1>14. ASSUME NEW t \in Receivers, AnswerBlocks(t) PROVE Inv'
  <2>1. SocketInv' /\ at' = at /\ ret' = ret /\ got' = got
    BY <1>14 DEF AnswerBlocks, socketVars, SocketInv, SocketTypes, GotInv
  <2>2. CallTypes' /\ LoopInv'
    BY <1>14, <2>1 DEF AnswerBlocks
  <2> QED BY <2>1, <2>2 DEF Inv, TypeInv
<1> QED
  BY <1>1, <1>2, <1>3, <1>4, <1>5, <1>6, <1>8, <1>9, <1>10, <1>11, <1>12, <1>13, <1>14
  DEF Next, Step

LEMMA InvHolds == Spec => []Inv
BY Starts, Steps, PTL DEF Spec

\* The socket stays what start() and stop(), which do nothing, leave it; the
\* local variables of every receive() have their types, and a message in hand
\* holds a signal number.
THEOREM SimpleServerTypes == Spec => []TypeOK
<1>1. Inv => TypeOK
  BY DEF Inv, TypeInv, SocketInv, SocketTypes, GotInv, CallTypes, LoopInv, TypeOK
<1> QED BY <1>1, InvHolds, PTL

\* However many receivers there are: no ping, no message that does not pass and
\* no share of the time another receiver took makes receive() give up early.
THEOREM NullMeansTimeIsUp == Spec => []NothingMeansTimeIsUp
<1>1. Inv => NothingMeansTimeIsUp
  BY DEF Inv, LoopInv, Due, Infinite, NothingMeansTimeIsUp
<1> QED BY <1>1, InvHolds, PTL

-----------------------------------------------------------------------------
(* One receiver                                                            *)

\* The datagram that was measured is the first one until it is taken.
MeasuredInv(t) ==
  /\ at[t] \in {"ioctl", "recv", "receiving"} => inbox # <<>>
  /\ at[t] \in {"recv", "receiving"} => avail[t] = Head(inbox).size

Taken(d) == d \in replied \union skipped \union delivered

\* A datagram that is sent once is in one place at most, in none before it
\* arrived, and from then on in one, if it holds a signal number.
FateInv(t) ==
  \A d \in Datagrams \ Repeatable :
    /\ Single(inbox, d)
    /\ Occurs(inbox, d) => got[t] # d /\ result[t] # d /\ ~Taken(d)
    /\ got[t] = d => result[t] # d /\ ~Taken(d)
    /\ result[t] = d => ~Taken(d)
    /\ d \in replied => d \notin skipped \union delivered
    /\ d \in skipped => d \notin delivered
    /\ Occurs(inbox, d) \/ got[t] = d \/ result[t] = d \/ Taken(d) => d \in arrived
    /\ d \in arrived /\ d.size >= Sock!HeaderSize =>
         Occurs(inbox, d) \/ got[t] = d \/ result[t] = d \/ Taken(d)

LEMMA OneStarts ==
  ASSUME NEW t, Receivers = {t}, Init
  PROVE  MeasuredInv(t) /\ FateInv(t)
BY EmptyOccurs, SimpleDatagramAssumption
DEF Init, Sock!SocketInit, MeasuredInv, FateInv, Taken

\* What a step does to the datagrams.
Arrives(d) ==
  /\ d \notin arrived
  /\ inbox' = Append(inbox, d)
  /\ arrived' = arrived \union Once(d)
  /\ UNCHANGED <<got, result, replied, skipped, delivered>>

Received(t) ==
  /\ inbox # <<>> /\ inbox' = Tail(inbox)
  /\ got[t] = NoDatagram
  /\ \/ got'[t] = Head(inbox)
     \/ got'[t] = NoDatagram /\ Head(inbox).size < Sock!HeaderSize
  /\ UNCHANGED <<result, arrived, replied, skipped, delivered>>

Decided(t) ==
  /\ got'[t] = NoDatagram
  /\ \/ /\ replied' = replied \union Once(got[t])
        /\ UNCHANGED <<result, skipped>>
     \/ /\ skipped' = skipped \union Once(got[t])
        /\ UNCHANGED <<result, replied>>
     \/ /\ result[t] = NoDatagram /\ result'[t] = got[t]
        /\ UNCHANGED <<replied, skipped>>
  /\ UNCHANGED <<inbox, arrived, delivered>>

GivenBack(t) ==
  /\ result'[t] = NoDatagram
  /\ delivered' = delivered \union Once(result[t])
  /\ UNCHANGED <<inbox, got, arrived, replied, skipped>>

Untouched(t) ==
  /\ got'[t] = got[t]
  /\ UNCHANGED <<inbox, result, arrived, replied, skipped, delivered>>

LEMMA Effects ==
  ASSUME NEW t, Receivers = {t}, Inv, MeasuredInv(t), [Next]_vars
  PROVE  /\ \/ \E d \in Datagrams : Arrives(d)
            \/ Received(t) \/ Decided(t) \/ GivenBack(t) \/ Untouched(t)
         /\ MeasuredInv(t)'
<1>0. SocketInv /\ CallTypes /\ LoopInv /\ t \in Receivers
  BY DEF Inv, TypeInv
<1> USE <1>0 DEF CallTypes, LoopInv, SocketInv, SocketTypes, GotInv, MeasuredInv,
                 callVars, history, Move, Sock!Goto
<1>1. CASE UNCHANGED vars
  BY <1>1 DEF vars, socketVars, Untouched
<1>2. ASSUME NEW d \in Datagrams, ClientSend(d)
      PROVE  Arrives(d) /\ MeasuredInv(t)'
  <2>1. Arrives(d) /\ UNCHANGED <<at, avail>>
    BY <1>2 DEF ClientSend, Arrives, Sock!Arrive, Sock!callVars
  <2>2. inbox # <<>> => inbox' # <<>> /\ Head(inbox') = Head(inbox)
    BY <2>1 DEF Arrives
  <2> QED BY <2>1, <2>2
<1>3. ASSUME NEW r \in Requests, CallReceive(t, r)
      PROVE  Untouched(t) /\ MeasuredInv(t)'
  BY <1>3 DEF CallReceive, socketVars, Untouched
<1>4. ASSUME LoopTop(t) PROVE Untouched(t) /\ MeasuredInv(t)'
  BY <1>4 DEF LoopTop, Sock!ReceiveCheck, Untouched
<1>5. ASSUME Sock!PollTimeout(t) \/ Sock!Interrupted(t),
             UNCHANGED <<result, history>>
      PROVE  Untouched(t) /\ MeasuredInv(t)'
  BY <1>5 DEF Sock!PollTimeout, Sock!Interrupted, Sock!Return, Untouched
<1>6. ASSUME Sock!PollEnter(t) \/ Sock!PollReady(t) \/ Sock!Ioctl(t) \/ Sock!RecvEnter(t),
             UNCHANGED <<result, history>>
      PROVE  Untouched(t) /\ MeasuredInv(t)'
  <2>1. CASE Sock!PollEnter(t)
    BY <1>6, <2>1 DEF Sock!PollEnter, Untouched
  <2>2. CASE Sock!PollReady(t)
    BY <1>6, <2>2 DEF Sock!PollReady, Sock!Readable, Untouched
  <2>3. CASE Sock!Ioctl(t)
    BY <1>6, <2>3 DEF Sock!Ioctl, Untouched
  <2>4. CASE Sock!RecvEnter(t)
    BY <1>6, <2>4 DEF Sock!RecvEnter, Untouched
  <2> QED BY <1>6, <2>1, <2>2, <2>3, <2>4
<1>7. ASSUME Sock!RecvDatagram(t), UNCHANGED <<result, history>>
      PROVE  Received(t) /\ MeasuredInv(t)'
  <2>1. /\ at[t] = "receiving" /\ inbox # <<>> /\ inbox' = Tail(inbox)
        /\ avail[t] = Head(inbox).size /\ Head(inbox) \in Datagrams
    BY <1>7, RecvPiece
  <2>2. \E r, p : /\ Sock!Return(t, r, p)
                  /\ p = Head(inbox) \/ (p = NoDatagram /\ Head(inbox).size < Sock!HeaderSize)
    BY <1>7, <2>1, RecvPiece, PiecesOfDatagrams
  <2>3. /\ at'[t] = "done"
        /\ got'[t] = Head(inbox)
           \/ (got'[t] = NoDatagram /\ Head(inbox).size < Sock!HeaderSize)
    BY <2>2 DEF Sock!Return
  <2> QED BY <1>7, <2>1, <2>3 DEF Received
<1>8. ASSUME Sock!ReceiveLeave(t) PROVE MeasuredInv(t)' /\ got'[t] = NoDatagram /\ inbox' = inbox
  BY <1>8 DEF Sock!ReceiveLeave
<1>9. ASSUME ReceiveNothing(t) PROVE Decided(t) /\ MeasuredInv(t)'
  <2>1. got[t] = NoDatagram
    BY <1>9 DEF ReceiveNothing
  <2> QED BY <1>8, <1>9, <2>1 DEF ReceiveNothing, Decided
<1>10. ASSUME AnswerPing(t) \/ AnswerGoesOut(t) \/ SkipMessage(t)
       PROVE  Decided(t) /\ MeasuredInv(t)'
  BY <1>8, <1>10 DEF AnswerPing, AnswerGoesOut, SkipMessage, Decided
<1>11. ASSUME ReturnMessage(t) PROVE Decided(t) /\ MeasuredInv(t)'
  BY <1>8, <1>11 DEF ReturnMessage, Decided
<1>12. ASSUME LoopTest(t) PROVE Untouched(t) /\ MeasuredInv(t)'
  BY <1>12 DEF LoopTest, socketVars, Untouched
<1>16. ASSUME AnswerBlocks(t) PROVE Untouched(t) /\ MeasuredInv(t)'
  BY <1>16 DEF AnswerBlocks, socketVars, Untouched
<1>13. ASSUME Return(t) PROVE GivenBack(t) /\ MeasuredInv(t)'
  BY <1>13 DEF Return, socketVars, GivenBack
<1>14. ASSUME Elapse(t) PROVE Untouched(t) /\ MeasuredInv(t)'
  BY <1>14 DEF Elapse, socketVars, Untouched
<1> HIDE DEF CallTypes, LoopInv, SocketInv, SocketTypes, GotInv, MeasuredInv, history, Move
<1>15. ASSUME SocketReceive(t) \/ Interrupt(t) \/ PollTimeout(t)
       PROVE  (Received(t) \/ Untouched(t)) /\ MeasuredInv(t)'
  BY <1>5, <1>6, <1>7, <1>15 DEF SocketReceive, Interrupt, PollTimeout
<1> QED
  BY <1>1, <1>2, <1>3, <1>4, <1>9, <1>10, <1>11, <1>12, <1>13, <1>14, <1>15, <1>16
  DEF Next, Step

LEMMA FateSteps ==
  ASSUME NEW t, Receivers = {t}, Inv, FateInv(t),
         \/ \E d \in Datagrams : Arrives(d)
         \/ Received(t) \/ Decided(t) \/ GivenBack(t) \/ Untouched(t)
  PROVE  FateInv(t)'
<1>0. inbox \in Seq(Datagrams) /\ t \in Receivers
  BY DEF Inv, TypeInv, SocketInv, SocketTypes
<1>1. ASSUME NEW d \in Datagrams, Arrives(d) PROVE FateInv(t)'
  <2>1. \A x : /\ Occurs(inbox', x) <=> Occurs(inbox, x) \/ d = x
               /\ Single(inbox, x) /\ (d = x => ~Occurs(inbox, x)) => Single(inbox', x)
    BY <1>0, <1>1, AppendOccurs DEF Arrives
  <2> QED BY <1>1, <2>1, SimpleDatagramAssumption DEF Arrives, FateInv, Taken, Once
<1>2. CASE Received(t)
  <2>1. \A x : /\ Occurs(inbox, x) <=> Occurs(inbox', x) \/ Head(inbox) = x
               /\ Single(inbox, x) =>
                    Single(inbox', x) /\ (Head(inbox) = x => ~Occurs(inbox', x))
    BY <1>0, <1>2, TailOccurs DEF Received
  <2>2. NoDatagram \notin Datagrams /\ \A d \in Datagrams : d.size \in Nat
    BY SimpleDatagramAssumption
  <2> QED BY <1>2, <2>1, <2>2 DEF Received, FateInv, Taken, Sock!HeaderSize
<1>3. CASE Decided(t)
  BY <1>3, SimpleDatagramAssumption DEF Decided, FateInv, Taken, Once
<1>4. CASE GivenBack(t)
  BY <1>4, SimpleDatagramAssumption DEF GivenBack, FateInv, Taken, Once
<1>5. CASE Untouched(t)
  BY <1>5 DEF Untouched, FateInv, Taken
<1> QED BY <1>1, <1>2, <1>3, <1>4, <1>5

LEMMA FateCounts ==
  ASSUME NEW t, Receivers = {t}, Inv, FateInv(t)
  PROVE  EachTakenOnce
<1> SUFFICES ASSUME NEW d \in arrived, d.size >= Sock!HeaderSize
             PROVE  LET One(b) == IF b THEN 1 ELSE 0
                    IN  Cardinality({i \in DOMAIN inbox : inbox[i] = d})
                          + Cardinality({u \in Receivers : got[u] = d})
                          + Cardinality({u \in Receivers : result[u] = d})
                          + One(d \in replied) + One(d \in skipped) + One(d \in delivered)
                        = 1
  BY DEF EachTakenOnce
<1>1. d \in Datagrams \ Repeatable
  BY DEF Inv, TypeInv, CallTypes
<1>2. Cardinality({i \in DOMAIN inbox : inbox[i] = d}) = IF Occurs(inbox, d) THEN 1 ELSE 0
  BY <1>1, CopiesOfSingle DEF FateInv
<1>3. Cardinality({u \in Receivers : got[u] = d}) = IF got[t] = d THEN 1 ELSE 0
  <2>1. {u \in Receivers : got[u] = d} = IF got[t] = d THEN {t} ELSE {}
    OBVIOUS
  <2> QED BY <2>1, FS_Singleton, FS_EmptySet
<1>4. Cardinality({u \in Receivers : result[u] = d}) = IF result[t] = d THEN 1 ELSE 0
  <2>1. {u \in Receivers : result[u] = d} = IF result[t] = d THEN {t} ELSE {}
    OBVIOUS
  <2> QED BY <2>1, FS_Singleton, FS_EmptySet
<1> QED BY <1>1, <1>2, <1>3, <1>4 DEF FateInv, Taken

\* A receiver that is alone loses no datagram with a signal number and takes
\* none twice, whatever else comes in between: the one it measured is the one it
\* takes.  With two receivers it need not be.
THEOREM OneReceiverTakesEachOnce ==
  ASSUME NEW t, Receivers = {t}
  PROVE  Spec => []EachTakenOnce
<1>1. Init => Inv /\ MeasuredInv(t) /\ FateInv(t)
  BY Starts, OneStarts
<1>2. Inv /\ MeasuredInv(t) /\ FateInv(t) /\ [Next]_vars
        => (Inv /\ MeasuredInv(t) /\ FateInv(t))'
  BY Steps, Effects, FateSteps
<1>3. Inv /\ FateInv(t) => EachTakenOnce
  BY FateCounts
<1> QED BY <1>1, <1>2, <1>3, PTL DEF Spec

\* A receiver that is alone finds in the socket what it measured, so that recvfrom()
\* does not wait; and poll() waits without end only if the caller said so.
THEOREM OneReceiverKeepsToItsTime ==
  ASSUME NEW t, Receivers = {t}
  PROVE  Spec => []HeldOnlyWithoutTimeout
<1>1. Init => Inv /\ MeasuredInv(t)
  BY Starts, OneStarts
<1>2. Inv /\ MeasuredInv(t) /\ [Next]_vars => (Inv /\ MeasuredInv(t))'
  BY Steps, Effects
<1>3. Inv /\ MeasuredInv(t) => HeldOnlyWithoutTimeout
  BY DEF Inv, LoopInv, MeasuredInv, Held, HeldOnlyWithoutTimeout
<1> QED BY <1>1, <1>2, <1>3, PTL DEF Spec

-----------------------------------------------------------------------------
(* What one receiver promises                                              *)

\* The instance has its own copies of the operators it extends.
LEMMA SameOperators ==
  /\ \A d, f : Promised!Matches(d, f) = Matches(d, f)
  /\ \A ms : Promised!DeadlineOf(ms) = DeadlineOf(ms)
  /\ \A d : Promised!Nearer(d) = Nearer(d)
BY DEF Promised!Matches, Promised!matchesFrom, Promised!matchesSignalSelector,
       Promised!SameIdentifier, Promised!isEqual, Promised!AnyFrom, Promised!DeadlineOf,
       Promised!INFINITE_TIMEOUT, Promised!Nearer, Matches, matchesFrom,
       matchesSignalSelector, SameIdentifier, isEqual, AnyFrom, DeadlineOf,
       INFINITE_TIMEOUT, Nearer

\* How far the receiver is, as its caller can tell.
PhaseOf(t) ==
  IF loop[t] = "idle" THEN "idle"
  ELSE IF loop[t] = "return" \/ (at[t] = "done" /\ ret[t] <= 0) \/ Found(t)
  THEN "answered" ELSE "asking"
AnswerOf(t) == IF Found(t) THEN got[t] ELSE result[t]
FailedOf(t) == failed[t] \/ (at[t] = "done" /\ ret[t] < 0)
PingOf(t) == IF Got(t) /\ IsPing(t) THEN Once(got[t]) ELSE {}
WasteOf(t) == IF Got(t) /\ ~IsPing(t) /\ ~Found(t) THEN Once(got[t]) ELSE {}

SeenBy(t) ==
  /\ SeenPhase = [u \in {t} |-> PhaseOf(t)]
  /\ SeenAnswer = [u \in {t} |-> AnswerOf(t)]
  /\ SeenFailed = [u \in {t} |-> FailedOf(t)]
  /\ SeenReplied = replied \union PingOf(t)
  /\ SeenSkipped = skipped \union WasteOf(t)

LEMMA SeenNow ==
  ASSUME NEW t, Receivers = {t}
  PROVE  SeenBy(t)
<1>1. SeenPhase = [u \in {t} |-> PhaseOf(t)]
  BY DEF SeenPhase, PhaseOf
<1>2. SeenAnswer = [u \in {t} |-> AnswerOf(t)]
  BY DEF SeenAnswer, AnswerOf
<1>3. SeenFailed = [u \in {t} |-> FailedOf(t)]
  BY DEF SeenFailed, FailedOf
<1>4. SeenReplied = replied \union PingOf(t)
  <2>1. CASE Got(t) /\ IsPing(t)
    <3>1. {u \in Receivers : Got(u) /\ IsPing(u)} = {t}
      BY <2>1
    <3> QED BY <2>1, <3>1 DEF SeenReplied, PingOf
  <2>2. CASE ~(Got(t) /\ IsPing(t))
    <3>1. {u \in Receivers : Got(u) /\ IsPing(u)} = {}
      BY <2>2
    <3> QED BY <2>2, <3>1 DEF SeenReplied, PingOf
  <2> QED BY <2>1, <2>2
<1>5. SeenSkipped = skipped \union WasteOf(t)
  <2>1. CASE Got(t) /\ ~IsPing(t) /\ ~Found(t)
    <3>1. {u \in Receivers : Got(u) /\ ~IsPing(u) /\ ~Found(u)} = {t}
      BY <2>1
    <3> QED BY <2>1, <3>1 DEF SeenSkipped, WasteOf
  <2>2. CASE ~(Got(t) /\ ~IsPing(t) /\ ~Found(t))
    <3>1. {u \in Receivers : Got(u) /\ ~IsPing(u) /\ ~Found(u)} = {}
      BY <2>2
    <3> QED BY <2>2, <3>1 DEF SeenSkipped, WasteOf
  <2> QED BY <2>1, <2>2
<1> QED BY <1>1, <1>2, <1>3, <1>4, <1>5 DEF SeenBy

LEMMA SeenOfOne ==
  ASSUME NEW t, Receivers = {t}
  PROVE  SeenBy(t) /\ SeenBy(t)'
<1>1. SeenBy(t)
  BY SeenNow
<1> QED BY <1>1, PTL

\* A step that the caller does not see, and one that changes what it sees of the call.
SameCall(t) ==
  /\ PhaseOf(t)' = PhaseOf(t) /\ AnswerOf(t)' = AnswerOf(t) /\ FailedOf(t)' = FailedOf(t)
  /\ UNCHANGED <<asked, deadline>>
SameFate(t) ==
  /\ (replied \union PingOf(t))' = replied \union PingOf(t)
  /\ (skipped \union WasteOf(t))' = skipped \union WasteOf(t)

LEMMA Unseen ==
  ASSUME NEW t, Receivers = {t}, SameCall(t), SameFate(t), UNCHANGED <<inbox, arrived>>
  PROVE  UNCHANGED Promised!vars
<1>0. SeenBy(t) /\ SeenBy(t)'
  BY SeenOfOne
<1>1. SeenPhase' = SeenPhase /\ SeenAnswer' = SeenAnswer /\ SeenFailed' = SeenFailed
  BY <1>0 DEF SeenBy, SameCall
<1>2. SeenReplied' = SeenReplied /\ SeenSkipped' = SeenSkipped
  BY <1>0 DEF SeenBy, SameFate
<1> QED BY <1>1, <1>2 DEF Promised!vars, Promised!callVars, Promised!fates, SameCall

LEMMA SeenAnswered ==
  ASSUME NEW t, Receivers = {t}, NEW d, NEW f,
         PhaseOf(t) = "asking", PhaseOf(t)' = "answered",
         AnswerOf(t)' = d, FailedOf(t)' = f, UNCHANGED <<asked, deadline>>
  PROVE  Promised!Answer(t, d, f)
<1>0. SeenBy(t) /\ SeenBy(t)'
  BY SeenOfOne
<1> HIDE DEF PhaseOf, AnswerOf, FailedOf
<1>1. SeenPhase[t] = "asking" /\ SeenPhase' = [SeenPhase EXCEPT ![t] = "answered"]
  BY <1>0 DEF SeenBy
<1>2. SeenAnswer' = [SeenAnswer EXCEPT ![t] = d] /\ SeenFailed' = [SeenFailed EXCEPT ![t] = f]
  BY <1>0 DEF SeenBy
<1> QED BY <1>1, <1>2 DEF Promised!Answer

\* The socket of the caller changes while receive() waits: of the system calls only the
\* last one is seen, and a poll that ends with nothing.
LEMMA SocketIsPromised ==
  ASSUME NEW t, Receivers = {t}, Inv, MeasuredInv(t), loop[t] = "receive",
         \/ (Sock!PollTimeout(t) /\ Due(t)) \/ Sock!Interrupted(t)
         \/ Sock!PollEnter(t) \/ Sock!PollReady(t) \/ Sock!Ioctl(t)
         \/ Sock!RecvEnter(t) \/ Sock!RecvDatagram(t),
         UNCHANGED <<loop, callVars, history>>
  PROVE  [Promised!Next]_(Promised!vars)
<1>0. /\ t \in Receivers /\ at \in [Receivers -> ReceivePoints]
      /\ ret \in [Receivers -> Int] /\ got \in [Receivers -> Pieces]
      /\ result[t] = NoDatagram /\ failed[t] = FALSE
      /\ UNCHANGED <<asked, deadline, result, failed, arrived, replied, skipped>>
  BY DEF Inv, TypeInv, SocketInv, SocketTypes, CallTypes, LoopInv, callVars, history
<1> DEFINE Before ==
      /\ PhaseOf(t) = "asking" /\ AnswerOf(t) = NoDatagram /\ FailedOf(t) = FALSE
      /\ PingOf(t) = {} /\ WasteOf(t) = {}
<1>1. at[t] # "done" => Before
  BY <1>0 DEF PhaseOf, AnswerOf, FailedOf, PingOf, WasteOf, Got, Found
<1>2. \A r \in Int : r <= 0 /\ Sock!Return(t, r, NoDatagram) /\ at[t] # "done" =>
        /\ r = 0 => Promised!Answer(t, NoDatagram, FALSE)
        /\ r < 0 => Promised!Answer(t, NoDatagram, TRUE)
        /\ UNCHANGED <<SeenReplied, SeenSkipped>>
  <2> SUFFICES ASSUME NEW r \in Int, r <= 0, Sock!Return(t, r, NoDatagram), at[t] # "done"
               PROVE  /\ r = 0 => Promised!Answer(t, NoDatagram, FALSE)
                      /\ r < 0 => Promised!Answer(t, NoDatagram, TRUE)
                      /\ UNCHANGED <<SeenReplied, SeenSkipped>>
    OBVIOUS
  <2>1. at'[t] = "done" /\ ret'[t] = r /\ loop'[t] = "receive"
    BY <1>0 DEF Sock!Return
  <2>2. /\ PhaseOf(t)' = "answered" /\ AnswerOf(t)' = NoDatagram
        /\ r = 0 => FailedOf(t)' = FALSE
        /\ r < 0 => FailedOf(t)' = TRUE
        /\ PingOf(t)' = {} /\ WasteOf(t)' = {}
    BY <1>0, <2>1 DEF PhaseOf, AnswerOf, FailedOf, PingOf, WasteOf, Got, Found
  <2>3. UNCHANGED <<SeenReplied, SeenSkipped>>
    BY <1>0, <1>1, <2>2, SeenOfOne DEF SeenBy
  <2> HIDE DEF PhaseOf, AnswerOf, FailedOf, PingOf, WasteOf
  <2>4. r = 0 => Promised!Answer(t, NoDatagram, FALSE)
    BY <1>0, <1>1, <2>2, SeenAnswered
  <2>5. r < 0 => Promised!Answer(t, NoDatagram, TRUE)
    BY <1>0, <1>1, <2>2, SeenAnswered
  <2> QED BY <2>3, <2>4, <2>5
<1>3. CASE Sock!PollTimeout(t) /\ Due(t)
  <2>1. Promised!Answer(t, NoDatagram, FALSE) /\ UNCHANGED <<inbox, SeenReplied, SeenSkipped>>
    <3>1. Sock!Return(t, 0, NoDatagram) /\ at[t] # "done" /\ inbox' = inbox
      BY <1>3 DEF Sock!PollTimeout
    <3>2. Sock!Return(t, 0, NoDatagram) /\ at[t] # "done" =>
            Promised!Answer(t, NoDatagram, FALSE) /\ UNCHANGED <<SeenReplied, SeenSkipped>>
      <4>1. 0 \in Int /\ 0 <= 0
        OBVIOUS
      <4> QED BY <1>2, <4>1
    <3> QED BY <3>1, <3>2
  <2>2. Promised!GiveUp(t)
    BY <1>0, <1>3, <2>1 DEF Promised!GiveUp, Promised!fates, Due
  <2> QED BY <1>0, <2>2 DEF Promised!Next
<1>4. CASE Sock!Interrupted(t)
  <2>1. Promised!Answer(t, NoDatagram, TRUE) /\ UNCHANGED <<inbox, SeenReplied, SeenSkipped>>
    <3>1. PICK r \in {-2, -4} : Sock!Return(t, r, NoDatagram)
      BY <1>4 DEF Sock!Interrupted
    <3>2. at[t] # "done" /\ inbox' = inbox /\ r \in Int /\ r < 0 /\ r <= 0
      BY <1>4, <3>1 DEF Sock!Interrupted
    <3> QED BY <1>2, <3>1, <3>2
  <2>2. Promised!Fail(t)
    BY <1>0, <2>1 DEF Promised!Fail, Promised!fates
  <2> QED BY <1>0, <2>2 DEF Promised!Next
<1>5. CASE Sock!PollEnter(t) \/ Sock!PollReady(t) \/ Sock!Ioctl(t) \/ Sock!RecvEnter(t)
  <2>1. at[t] # "done" /\ at'[t] # "done" /\ UNCHANGED <<inbox, got, ret>>
    BY <1>0, <1>5 DEF Sock!PollEnter, Sock!PollReady, Sock!Ioctl, Sock!RecvEnter, Sock!Goto
  <2>2. Before'
    BY <1>0, <2>1 DEF PhaseOf, AnswerOf, FailedOf, PingOf, WasteOf, Got, Found
  <2>3. SameCall(t) /\ SameFate(t)
    BY <1>0, <1>1, <2>1, <2>2 DEF SameCall, SameFate
  <2> QED BY <1>0, <2>1, <2>3, Unseen
<1>6. CASE Sock!RecvDatagram(t)
  <2> DEFINE d == Head(inbox)
  <2>1. /\ at[t] = "receiving" /\ inbox # <<>> /\ d \in Datagrams /\ inbox' = Tail(inbox)
        /\ avail[t] = d.size /\ d.size \in Nat /\ Cut(d, d.size) = d /\ d # NoDatagram
    BY <1>6, RecvPiece, PiecesOfDatagrams, SimpleDatagramAssumption DEF Inv, TypeInv, MeasuredInv
  <2>2. \/ Sock!Return(t, -6, NoDatagram) /\ ~(d.size >= Sock!HeaderSize)
        \/ Sock!Return(t, d.size, d) /\ d.size >= Sock!HeaderSize
    BY <1>6, <2>1, RecvPiece DEF Inv, TypeInv, Sock!HeaderSize
  <2>3. Promised!Taken
    BY <1>0, <2>1 DEF Promised!Taken
  <2> HIDE DEF d
  <2>4. CASE Sock!Return(t, -6, NoDatagram) /\ ~(d.size >= Sock!HeaderSize)
    <3>1. Promised!Answer(t, NoDatagram, TRUE) /\ UNCHANGED <<SeenReplied, SeenSkipped>>
      <4>1. -6 \in Int /\ -6 < 0 /\ -6 <= 0 /\ at[t] # "done"
        BY <2>1
      <4> QED BY <1>2, <2>4, <4>1
    <3>2. Promised!Refuse(t)
      BY <2>3, <2>4, <3>1 DEF d, Promised!Refuse, Promised!Whole, Promised!fates,
         Promised!HeaderSize, Sock!HeaderSize
    <3> QED BY <1>0, <3>2 DEF Promised!Next
  <2>5. CASE Sock!Return(t, d.size, d) /\ d.size >= Sock!HeaderSize
    <3>1. /\ at'[t] = "done" /\ ret'[t] = d.size /\ got'[t] = d /\ loop'[t] = "receive"
          /\ ret'[t] > 0 /\ ~(ret'[t] <= 0) /\ ~(ret'[t] < 0)
      BY <1>0, <2>1, <2>5 DEF Sock!Return, Sock!HeaderSize
    <3>2. Promised!Whole(Head(inbox))
      BY <2>5 DEF d, Promised!Whole, Promised!HeaderSize, Sock!HeaderSize
    <3>3. FailedOf(t)' = FALSE /\ Got(t)'
      BY <1>0, <3>1 DEF FailedOf, Got
    <3>4. Promised!Once(d) = Once(d)
      BY <2>1 DEF Promised!Once, Once
    <3>5. CASE d.reqId = IPC_PING_REQ
      <4>1. PingOf(t)' = Once(d) /\ WasteOf(t)' = {} /\ ~Found(t)'
        BY <3>1, <3>3, <3>5 DEF PingOf, WasteOf, Found, IsPing
      <4>2. PhaseOf(t)' = "asking" /\ AnswerOf(t)' = NoDatagram
        BY <1>0, <3>1, <4>1 DEF PhaseOf, AnswerOf
      <4>3. SeenReplied' = SeenReplied \union Once(d) /\ SeenSkipped' = SeenSkipped
        BY <1>0, <1>1, <2>1, <4>1, SeenOfOne DEF SeenBy
      <4>4. SeenPhase[t] = "asking" /\ UNCHANGED <<SeenPhase, SeenAnswer, SeenFailed>>
        <5>1. SeenBy(t) /\ SeenBy(t)'
          BY SeenOfOne
        <5>2. Before
          BY <1>1, <2>1
        <5> HIDE DEF PhaseOf, AnswerOf, FailedOf
        <5>3. SeenPhase[t] = "asking" /\ SeenPhase' = SeenPhase
          BY <4>2, <5>1, <5>2 DEF SeenBy
        <5>4. SeenAnswer' = SeenAnswer
          BY <4>2, <5>1, <5>2 DEF SeenBy
        <5>5. SeenFailed' = SeenFailed
          BY <3>3, <5>1, <5>2 DEF SeenBy
        <5> QED BY <5>3, <5>4, <5>5
      <4>5. Promised!AnswerPing(t)
        BY <1>0, <2>3, <3>2, <3>4, <3>5, <4>3, <4>4 DEF d, Promised!AnswerPing, Promised!callVars,
           Promised!IPC_PING_REQ, IPC_PING_REQ
      <4> QED BY <1>0, <4>5 DEF Promised!Next
    <3>6. CASE d.reqId # IPC_PING_REQ /\ ~Matches(d, asked[t].filter)
      <4>1. PingOf(t)' = {} /\ WasteOf(t)' = Once(d) /\ ~Found(t)'
        BY <1>0, <3>1, <3>3, <3>6 DEF PingOf, WasteOf, Found, IsPing
      <4>2. PhaseOf(t)' = "asking" /\ AnswerOf(t)' = NoDatagram
        BY <1>0, <3>1, <4>1 DEF PhaseOf, AnswerOf
      <4>3. SeenSkipped' = SeenSkipped \union Once(d) /\ SeenReplied' = SeenReplied
        BY <1>0, <1>1, <2>1, <4>1, SeenOfOne DEF SeenBy
      <4>4. SeenPhase[t] = "asking" /\ UNCHANGED <<SeenPhase, SeenAnswer, SeenFailed>>
        <5>1. SeenBy(t) /\ SeenBy(t)'
          BY SeenOfOne
        <5>2. Before
          BY <1>1, <2>1
        <5> HIDE DEF PhaseOf, AnswerOf, FailedOf
        <5>3. SeenPhase[t] = "asking" /\ SeenPhase' = SeenPhase
          BY <4>2, <5>1, <5>2 DEF SeenBy
        <5>4. SeenAnswer' = SeenAnswer
          BY <4>2, <5>1, <5>2 DEF SeenBy
        <5>5. SeenFailed' = SeenFailed
          BY <3>3, <5>1, <5>2 DEF SeenBy
        <5> QED BY <5>3, <5>4, <5>5
      <4>5. Promised!Skip(t)
        BY <1>0, <2>3, <3>2, <3>4, <3>6, <4>3, <4>4, SameOperators
        DEF d, Promised!Skip, Promised!callVars, Promised!Wanted, Promised!IPC_PING_REQ, IPC_PING_REQ
      <4> QED BY <1>0, <4>5 DEF Promised!Next
    <3>7. CASE d.reqId # IPC_PING_REQ /\ Matches(d, asked[t].filter)
      <4>1. PingOf(t)' = {} /\ WasteOf(t)' = {} /\ Found(t)'
        BY <1>0, <3>1, <3>3, <3>7 DEF PingOf, WasteOf, Found, IsPing
      <4>2. PhaseOf(t)' = "answered" /\ AnswerOf(t)' = d
        BY <1>0, <3>1, <4>1 DEF PhaseOf, AnswerOf
      <4>3. UNCHANGED <<SeenReplied, SeenSkipped>>
        BY <1>0, <1>1, <2>1, <4>1, SeenOfOne DEF SeenBy
      <4>4. Promised!Answer(t, d, FALSE)
        BY <1>0, <1>1, <2>1, <3>3, <4>2, SeenAnswered
      <4>5. Promised!Give(t)
        BY <2>3, <3>2, <3>7, <4>3, <4>4, SameOperators
        DEF d, Promised!Give, Promised!fates, Promised!Wanted, Promised!IPC_PING_REQ, IPC_PING_REQ
      <4> QED BY <1>0, <4>5 DEF Promised!Next
    <3> QED BY <3>5, <3>6, <3>7
  <2> QED BY <2>2, <2>4, <2>5
<1> QED BY <1>3, <1>4, <1>5, <1>6

\* Outside the socket the caller sees its call begin, its time come to an end, and the
\* call return.
LEMMA StepIsPromised ==
  ASSUME NEW t, Receivers = {t}, Inv, MeasuredInv(t), [Next]_vars
  PROVE  [Promised!Next]_(Promised!vars)
<1>0. /\ SocketInv /\ LoopInv /\ t \in Receivers /\ at \in [Receivers -> ReceivePoints]
      /\ ret \in [Receivers -> Int] /\ got \in [Receivers -> Pieces]
      /\ loop \in [Receivers -> {"idle", "top", "receive", "sending", "test", "return"}]
      /\ asked \in [Receivers -> Requests \union {NoRequest}]
      /\ deadline \in [Receivers -> Distances]
      /\ failed \in [Receivers -> BOOLEAN] /\ result \in [Receivers -> Pieces]
  BY DEF Inv, TypeInv, SocketInv, SocketTypes, CallTypes
<1>s. SeenBy(t) /\ SeenBy(t)'
  BY SeenOfOne
<1> USE DEF callVars, history, Move
<1>1. CASE UNCHANGED vars
  <2>1. SameCall(t) /\ SameFate(t) /\ UNCHANGED <<inbox, arrived>>
    BY <1>1 DEF vars, socketVars, SameCall, SameFate, PhaseOf, AnswerOf, FailedOf, PingOf,
       WasteOf, Got, Found, IsPing
  <2> QED BY <2>1, Unseen
<1>2. ASSUME NEW d \in Datagrams, ClientSend(d) PROVE Promised!Arrive(d)
  <2>1. /\ d \notin arrived /\ Len(inbox) < SocketRoom /\ inbox' = Append(inbox, d)
        /\ UNCHANGED <<at, ret, got, loop, asked, deadline, failed, result, replied, skipped>>
        /\ arrived' = arrived \union Once(d)
    BY <1>2 DEF ClientSend, Sock!Arrive, Sock!callVars
  <2>2. Promised!Once(d) = Once(d)
    BY SimpleDatagramAssumption DEF Promised!Once, Once
  <2>3. /\ UNCHANGED <<SeenPhase, SeenAnswer, SeenFailed>>
        /\ UNCHANGED <<SeenReplied, SeenSkipped>>
    BY <2>1 DEF SeenPhase, SeenAnswer, SeenFailed, SeenReplied, SeenSkipped, Got, Found, IsPing
  <2> QED BY <2>1, <2>2, <2>3 DEF Promised!Arrive, Promised!callVars, Promised!fates
<1>3. ASSUME NEW r \in Requests, CallReceive(t, r) PROVE Promised!Ask(t, r)
  <2>1. /\ loop[t] = "idle" /\ loop'[t] = "top" /\ at[t] = "idle"
        /\ UNCHANGED <<inbox, at, ret, got, failed, result, arrived, replied, skipped>>
        /\ asked' = [asked EXCEPT ![t] = r]
        /\ deadline' = [deadline EXCEPT ![t] = DeadlineOf(r.timeoutMs)]
    BY <1>0, <1>3 DEF CallReceive, socketVars, LoopInv
  <2>2. /\ PhaseOf(t) = "idle" /\ PhaseOf(t)' = "asking" /\ AnswerOf(t)' = AnswerOf(t)
        /\ FailedOf(t)' = FailedOf(t) /\ SameFate(t)
    BY <2>1 DEF PhaseOf, AnswerOf, FailedOf, SameFate, PingOf, WasteOf, Got, Found
  <2>3. SeenPhase[t] = "idle" /\ SeenPhase' = [SeenPhase EXCEPT ![t] = "asking"]
    BY <1>s, <2>2 DEF SeenBy
  <2>4. UNCHANGED <<SeenAnswer, SeenFailed>>
    BY <1>s, <2>2 DEF SeenBy
  <2>5. UNCHANGED <<SeenReplied, SeenSkipped>>
    BY <1>s, <2>2 DEF SeenBy, SameFate
  <2> QED BY <2>1, <2>3, <2>4, <2>5, SameOperators DEF Promised!Ask, Promised!fates
<1>4. ASSUME LoopTop(t) PROVE UNCHANGED Promised!vars
  <2>1. /\ loop[t] = "top" /\ loop'[t] = "receive" /\ at[t] = "idle" /\ at'[t] = "poll"
        /\ UNCHANGED <<inbox, got, ret, asked, deadline, failed, result, arrived, replied, skipped>>
    BY <1>0, <1>4 DEF LoopTop, Sock!ReceiveCheck, Sock!Goto
  <2>2. SameCall(t) /\ SameFate(t)
    BY <2>1 DEF SameCall, SameFate, PhaseOf, AnswerOf, FailedOf, PingOf, WasteOf, Got, Found
  <2> QED BY <2>1, <2>2, Unseen
<1>5. ASSUME PollTimeout(t) \/ SocketReceive(t) \/ Interrupt(t)
      PROVE  [Promised!Next]_(Promised!vars)
  <2>1. PollTimeout(t) => Due(t)
    BY <1>0 DEF PollTimeout, LoopInv, Due
  <2> QED BY <1>5, <2>1, SocketIsPromised DEF PollTimeout, SocketReceive, Interrupt
<1>6. ASSUME NEW to \in {"return", "test"}, Sock!ReceiveLeave(t), at[t] = "done",
             loop[t] \in {"receive", "sending"}, loop' = [loop EXCEPT ![t] = to]
      PROVE  /\ at'[t] = "idle" /\ loop'[t] = to /\ inbox' = inbox
             /\ PingOf(t)' = {} /\ WasteOf(t)' = {} /\ ~Found(t)' /\ result[t] = NoDatagram
             /\ failed[t] = FALSE
  BY <1>0, <1>6 DEF Sock!ReceiveLeave, PingOf, WasteOf, Found, Got, LoopInv
<1>7. ASSUME ReceiveNothing(t) PROVE UNCHANGED Promised!vars
  <2>1. /\ at[t] = "done" /\ ret[t] <= 0 /\ ~(ret[t] > 0) /\ loop'[t] = "return"
        /\ failed'[t] = (ret[t] < 0)
        /\ UNCHANGED <<asked, deadline, result, arrived, replied, skipped>>
    BY <1>0, <1>7 DEF ReceiveNothing
  <2>2. /\ at'[t] = "idle" /\ inbox' = inbox /\ PingOf(t)' = {} /\ WasteOf(t)' = {}
        /\ ~Found(t)' /\ loop[t] = "receive" /\ failed[t] = FALSE
    BY <1>6, <1>7 DEF ReceiveNothing
  <2>3. PingOf(t) = {} /\ WasteOf(t) = {} /\ ~Found(t)
    BY <2>1 DEF PingOf, WasteOf, Found, Got
  <2>4. SameCall(t)
    <3>1. PhaseOf(t)' = PhaseOf(t) /\ AnswerOf(t)' = AnswerOf(t)
      BY <2>1, <2>2, <2>3 DEF PhaseOf, AnswerOf
    <3>2. FailedOf(t)' = FailedOf(t)
      BY <1>0, <2>1, <2>2 DEF FailedOf
    <3> QED BY <2>1, <3>1, <3>2 DEF SameCall
  <2>5. SameFate(t)
    BY <2>1, <2>2, <2>3 DEF SameFate
  <2> QED BY <2>1, <2>2, <2>4, <2>5, Unseen
<1>8. ASSUME AnswerPing(t) \/ AnswerGoesOut(t) \/ SkipMessage(t) PROVE UNCHANGED Promised!vars
  <2>1. /\ at[t] = "done" /\ ret[t] > 0 /\ ~(ret[t] <= 0) /\ ~(ret[t] < 0) /\ ~Found(t)
        /\ UNCHANGED <<asked, deadline, failed, result, arrived>>
        /\ loop[t] \in {"receive", "sending"} /\ loop'[t] = "test"
    BY <1>0, <1>8 DEF AnswerPing, AnswerGoesOut, SkipMessage, Found, LoopInv
  <2>2. /\ at'[t] = "idle" /\ inbox' = inbox /\ PingOf(t)' = {} /\ WasteOf(t)' = {} /\ ~Found(t)'
    BY <1>6, <1>8, <2>1 DEF AnswerPing, AnswerGoesOut, SkipMessage
  <2>3. SameCall(t)
    BY <2>1, <2>2 DEF SameCall, PhaseOf, AnswerOf, FailedOf
  <2>4. SameFate(t)
    <3>1. CASE AnswerPing(t) \/ AnswerGoesOut(t)
      <4>1. IsPing(t) /\ replied' = replied \union Once(got[t]) /\ skipped' = skipped
        BY <1>0, <3>1 DEF AnswerPing, AnswerGoesOut, LoopInv
      <4>2. PingOf(t) = Once(got[t]) /\ WasteOf(t) = {}
        BY <2>1, <4>1 DEF PingOf, WasteOf, Got
      <4> QED BY <2>2, <4>1, <4>2 DEF SameFate
    <3>2. CASE SkipMessage(t)
      <4>1. ~IsPing(t) /\ skipped' = skipped \union Once(got[t]) /\ replied' = replied
        BY <3>2 DEF SkipMessage
      <4>2. PingOf(t) = {} /\ WasteOf(t) = Once(got[t])
        BY <2>1, <4>1 DEF PingOf, WasteOf, Got
      <4> QED BY <2>2, <4>1, <4>2 DEF SameFate
    <3> QED BY <1>8, <3>1, <3>2
  <2> QED BY <2>1, <2>2, <2>3, <2>4, Unseen
<1>9. ASSUME ReturnMessage(t) PROVE UNCHANGED Promised!vars
  <2>1. /\ at[t] = "done" /\ ret[t] > 0 /\ ~(ret[t] <= 0) /\ ~(ret[t] < 0) /\ Found(t) /\ ~IsPing(t)
        /\ UNCHANGED <<asked, deadline, failed, arrived, replied, skipped>>
        /\ loop[t] = "receive" /\ loop'[t] = "return" /\ result'[t] = got[t]
    BY <1>0, <1>9 DEF ReturnMessage, Found, Got
  <2>2. /\ at'[t] = "idle" /\ inbox' = inbox /\ PingOf(t)' = {} /\ WasteOf(t)' = {} /\ ~Found(t)'
    BY <1>6, <1>9 DEF ReturnMessage
  <2>3. SameCall(t)
    BY <2>1, <2>2 DEF SameCall, PhaseOf, AnswerOf, FailedOf
  <2>4. PingOf(t) = {} /\ WasteOf(t) = {}
    BY <2>1 DEF PingOf, WasteOf
  <2>5. SameFate(t)
    BY <2>1, <2>2, <2>4 DEF SameFate
  <2> QED BY <2>1, <2>2, <2>3, <2>5, Unseen
<1>10. ASSUME LoopTest(t) PROVE [Promised!Next]_(Promised!vars)
  <2>1. /\ loop[t] = "test" /\ at[t] = "idle" /\ result[t] = NoDatagram /\ failed[t] = FALSE
        /\ UNCHANGED <<inbox, at, ret, got, asked, deadline, failed, result, arrived, replied, skipped>>
    BY <1>0, <1>10 DEF LoopTest, socketVars, LoopInv
  <2>2. SameFate(t) /\ UNCHANGED <<SeenReplied, SeenSkipped>>
    <3>1. SameFate(t)
      BY <2>1 DEF SameFate, PingOf, WasteOf, Got
    <3> QED BY <1>s, <3>1 DEF SeenBy, SameFate
  <2>3. CASE isExpired(deadline[t])
    <3>1. loop'[t] = "return"
      BY <1>0, <1>10, <2>3 DEF LoopTest
    <3>2. PhaseOf(t) = "asking" /\ PhaseOf(t)' = "answered"
      BY <2>1, <3>1 DEF PhaseOf, Found, Got
    <3>3. AnswerOf(t)' = NoDatagram /\ FailedOf(t)' = FALSE
      BY <2>1 DEF AnswerOf, FailedOf, Found, Got
    <3>4. Promised!Answer(t, NoDatagram, FALSE)
      BY <2>1, <3>2, <3>3, SeenAnswered
    <3>5. Promised!GiveUp(t)
      BY <2>1, <2>2, <2>3, <3>4 DEF Promised!GiveUp, Promised!fates, isExpired
    <3> QED BY <1>0, <3>5 DEF Promised!Next
  <2>4. CASE ~isExpired(deadline[t])
    <3>1. loop'[t] = "top"
      BY <1>0, <1>10, <2>4 DEF LoopTest
    <3>2. SameCall(t)
      BY <2>1, <3>1 DEF SameCall, PhaseOf, AnswerOf, FailedOf, Found, Got
    <3> QED BY <2>1, <2>2, <3>2, Unseen
  <2> QED BY <2>3, <2>4
<1>11. ASSUME Return(t) PROVE Promised!Collect(t)
  <2>1. /\ loop[t] = "return" /\ loop'[t] = "idle" /\ at[t] = "idle"
        /\ UNCHANGED <<inbox, at, ret, got, arrived, replied, skipped>>
        /\ asked' = [asked EXCEPT ![t] = NoRequest]
        /\ deadline' = [deadline EXCEPT ![t] = "never"]
        /\ failed'[t] = FALSE /\ result'[t] = NoDatagram
    BY <1>0, <1>11 DEF Return, socketVars, LoopInv
  <2>2. /\ PhaseOf(t) = "answered" /\ PhaseOf(t)' = "idle" /\ AnswerOf(t)' = NoDatagram
        /\ FailedOf(t)' = FALSE
    BY <2>1 DEF PhaseOf, AnswerOf, FailedOf, Got, Found
  <2>3. SameFate(t)
    BY <2>1 DEF SameFate, PingOf, WasteOf, Got
  <2>4. /\ SeenPhase[t] = "answered" /\ SeenPhase' = [SeenPhase EXCEPT ![t] = "idle"]
        /\ SeenAnswer' = [SeenAnswer EXCEPT ![t] = NoDatagram]
        /\ SeenFailed' = [SeenFailed EXCEPT ![t] = FALSE]
    BY <1>s, <2>2 DEF SeenBy
  <2>5. UNCHANGED <<SeenReplied, SeenSkipped>>
    BY <1>s, <2>3 DEF SeenBy, SameFate
  <2> QED BY <2>1, <2>4, <2>5 DEF Promised!Collect, Promised!fates
<1>12. ASSUME Elapse(t) PROVE Promised!Elapse(t)
  <2>1. /\ loop[t] # "idle"
        /\ UNCHANGED <<inbox, at, ret, got, loop, asked, failed, result, arrived, replied, skipped>>
        /\ deadline' = [deadline EXCEPT ![t] = Nearer(deadline[t])]
    BY <1>12 DEF Elapse, socketVars
  <2>2. UNCHANGED <<SeenPhase, SeenAnswer, SeenFailed, SeenReplied, SeenSkipped>>
    BY <2>1 DEF SeenPhase, SeenAnswer, SeenFailed, SeenReplied, SeenSkipped, Got, Found, IsPing
  <2>3. SeenPhase[t] # "idle"
    <3>1. PhaseOf(t) # "idle"
      BY <2>1 DEF PhaseOf
    <3> QED BY <1>s, <3>1 DEF SeenBy
  <2> QED BY <2>1, <2>2, <2>3, SameOperators DEF Promised!Elapse, Promised!fates
<1>13. ASSUME AnswerBlocks(t) PROVE UNCHANGED Promised!vars
  <2>1. /\ at[t] = "done" /\ loop[t] = "receive" /\ loop'[t] = "sending"
        /\ UNCHANGED <<inbox, at, ret, got, asked, deadline, failed, result, arrived, replied, skipped>>
    BY <1>0, <1>13 DEF AnswerBlocks, socketVars
  <2>2. SameCall(t) /\ SameFate(t)
    BY <2>1 DEF SameCall, SameFate, PhaseOf, AnswerOf, FailedOf, PingOf, WasteOf, Got, Found, IsPing
  <2> QED BY <2>1, <2>2, Unseen
<1> QED
  BY <1>0, <1>1, <1>2, <1>3, <1>4, <1>5, <1>7, <1>8, <1>9, <1>10, <1>11, <1>12, <1>13
  DEF Next, Step, Promised!Next

LEMMA InitIsPromised ==
  ASSUME NEW t, Receivers = {t}, Init
  PROVE  Promised!Init
<1>1. /\ loop[t] = "idle" /\ at[t] = "idle" /\ result[t] = NoDatagram /\ failed[t] = FALSE
      /\ replied = {} /\ skipped = {} /\ arrived = {} /\ inbox = <<>>
      /\ asked = [u \in Receivers |-> NoRequest] /\ deadline = [u \in Receivers |-> "never"]
  BY DEF Init, Sock!SocketInit
<1>2. /\ PhaseOf(t) = "idle" /\ AnswerOf(t) = NoDatagram /\ FailedOf(t) = FALSE
      /\ PingOf(t) = {} /\ WasteOf(t) = {}
  BY <1>1 DEF PhaseOf, AnswerOf, FailedOf, PingOf, WasteOf, Got, Found
<1>3. SeenBy(t)
  BY SeenNow
<1> QED BY <1>1, <1>2, <1>3 DEF SeenBy, Promised!Init

\* A receiver that is alone has what SelectiveReceive promises: the system calls of the
\* socket and the loop around them are one atomic step for each datagram.
THEOREM OneReceiverIsPromised ==
  ASSUME NEW t, Receivers = {t}
  PROVE  Spec => ImplementsSelectiveReceive
<1>1. Init => Inv /\ MeasuredInv(t) /\ Promised!Init
  BY Starts, OneStarts, InitIsPromised
<1>2. Inv /\ MeasuredInv(t) /\ [Next]_vars => (Inv /\ MeasuredInv(t))'
  BY Steps, Effects
<1>3. Inv /\ MeasuredInv(t) /\ [Next]_vars => [Promised!Next]_(Promised!vars)
  BY StepIsPromised
<1> QED BY <1>1, <1>2, <1>3, PTL DEF Spec, ImplementsSelectiveReceive, Promised!Spec
=============================================================================
