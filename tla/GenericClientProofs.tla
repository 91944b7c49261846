-------------------------- MODULE GenericClientProofs --------------------------
(***************************************************************************)
(* Theorems about GenericClient, for any calls, identifiers, room in the   *)
(* two sockets and number of requests, whatever the server does.           *)
(***************************************************************************)
EXTENDS GenericClientProperties, LinxMessageFilterProofs

Replies == {Answer(n) : n \in 0..MaxRequests}
Wire == Replies \union {Stray}
Pong == Answer(0)

LEMMA Fields ==
  /\ \A n \in 0..MaxRequests :
       /\ Answer(n).n = n /\ Answer(n).from = Server
       /\ Answer(n).reqId = IF n = 0 THEN IPC_PING_RSP ELSE RESPONSE
  /\ Stray.n = 0 /\ Stray.from = Stranger /\ Stray.reqId = RESPONSE
  /\ \A m \in Wire : /\ m.n \in 0..MaxRequests /\ m # NoDatagram
                     /\ m.size \in Nat /\ m.size >= Sock!HeaderSize
                     /\ [m EXCEPT !.size = m.size] = m
BY ClientAssumption, NoReplyAssumption
   DEF Answer, Stray, Wire, Replies, Sock!HeaderSize, IPC_PING_RSP, RESPONSE

\* Only the server's messages pass, and only pongs in connect().
LEMMA PassingIsReply ==
  ASSUME NEW m \in Wire, Passes(m)
  PROVE  m \in Replies /\ (call.op = "connect" => m = Pong)
<1>1. matchesFrom(m.from, Server) /\ matchesSignalSelector(m, sigsel)
  BY DEF Passes, Matches
<1>2. m # Stray
  BY <1>1, Fields, ClientAssumption DEF matchesFrom
<1>3. m \in Replies
  BY <1>2 DEF Wire
<1>4. ASSUME call.op = "connect" PROVE m = Pong
  <2>1. m.reqId = IPC_PING_RSP
    BY <1>1, <1>4 DEF sigsel, matchesSignalSelector
  <2>2. PICK n \in 0..MaxRequests : m = Answer(n)
    BY <1>3 DEF Replies
  <2> QED BY <2>1, <2>2, Fields DEF Pong, IPC_PING_RSP, RESPONSE
<1> QED BY <1>3, <1>4

-----------------------------------------------------------------------------
(* The socket: one thread reads it, nobody closes it                       *)

SocketLabels == {"idle", "poll", "polling", "ioctl", "recv", "receiving", "done"}

SocketInv ==
  /\ fd = Sock!Fd /\ sock = "open"
  /\ inbox \in Seq(Wire) /\ Len(inbox) <= SocketRoom
  /\ at \in [{User} -> SocketLabels]
  /\ pollFd \in [{User} -> {Sock!NoFd, Sock!Fd}]
  /\ avail \in [{User} -> Nat]
  /\ ret \in [{User} -> Int]
  /\ got \in [{User} -> Wire \union {NoDatagram}]
  /\ at[User] \in {"ioctl", "recv", "receiving"} => inbox # <<>>
  /\ at[User] \in {"recv", "receiving"} => avail[User] = Head(inbox).size
  /\ got[User] # NoDatagram <=> at[User] = "done" /\ ret[User] > 0

\* What one step of the socket does to its receive queue and to the caller.
LEMMA SocketSteps ==
  ASSUME SocketInv
  PROVE  /\ \A m \in Wire : Sock!Arrive(m) =>
              SocketInv' /\ inbox' = Append(inbox, m) /\ UNCHANGED <<at, got>>
         /\ Sock!ReceiveCheck(User) =>
              SocketInv' /\ at[User] = "idle" /\ at'[User] = "poll" /\ UNCHANGED <<inbox, got>>
         /\ (\/ Sock!PollEnter(User) \/ Sock!PollReady(User) \/ Sock!Ioctl(User)
             \/ Sock!RecvEnter(User) \/ Sock!PollTimeout(User) \/ Sock!Interrupted(User))
            => SocketInv' /\ at'[User] # "idle" /\ UNCHANGED <<inbox, got>>
         /\ Sock!RecvDatagram(User) =>
              /\ SocketInv' /\ at'[User] # "idle"
              /\ inbox # <<>> /\ inbox' = Tail(inbox)
              /\ got[User] = NoDatagram /\ got'[User] = Head(inbox)
         /\ Sock!ReceiveLeave(User) =>
              SocketInv' /\ at'[User] = "idle" /\ inbox' = inbox /\ got'[User] = NoDatagram
<1> USE DEF SocketInv, SocketLabels, Sock!NoFd, Sock!Fd, Sock!Goto, Sock!Return, Sock!callVars
<1>1. ASSUME NEW m \in Wire, Sock!Arrive(m)
      PROVE  SocketInv' /\ inbox' = Append(inbox, m) /\ UNCHANGED <<at, got>>
  <2>1. /\ inbox' = Append(inbox, m) /\ Len(inbox) < SocketRoom
        /\ UNCHANGED <<fd, sock, at, pollFd, avail, ret, got>>
    BY <1>1 DEF Sock!Arrive
  <2>2. /\ inbox' \in Seq(Wire) /\ Len(inbox') <= SocketRoom /\ inbox' # <<>>
        /\ inbox # <<>> => Head(inbox') = Head(inbox)
    BY <2>1, ClientAssumption
  <2> QED BY <2>1, <2>2
<1>2. ASSUME Sock!ReceiveCheck(User)
      PROVE  SocketInv' /\ at[User] = "idle" /\ at'[User] = "poll" /\ UNCHANGED <<inbox, got>>
  BY <1>2 DEF Sock!ReceiveCheck
<1>3. ASSUME Sock!PollEnter(User) \/ Sock!PollReady(User) \/ Sock!RecvEnter(User)
      PROVE  SocketInv' /\ at'[User] # "idle" /\ UNCHANGED <<inbox, got>>
  BY <1>3 DEF Sock!PollEnter, Sock!PollReady, Sock!RecvEnter, Sock!Readable
<1>4. ASSUME Sock!Ioctl(User)
      PROVE  SocketInv' /\ at'[User] # "idle" /\ UNCHANGED <<inbox, got>>
  <2>1. inbox # <<>> => Head(inbox).size \in Nat
    BY Fields
  <2> QED BY <1>4, <2>1 DEF Sock!Ioctl
<1>5. ASSUME Sock!PollTimeout(User) \/ Sock!Interrupted(User)
      PROVE  SocketInv' /\ at'[User] # "idle" /\ UNCHANGED <<inbox, got>>
  <2>1. got[User] = NoDatagram /\ got' = [got EXCEPT ![User] = NoDatagram]
    BY <1>5 DEF Sock!PollTimeout, Sock!Interrupted
  <2> QED BY <1>5, <2>1 DEF Sock!PollTimeout, Sock!Interrupted
<1>6. ASSUME Sock!RecvDatagram(User)
      PROVE  /\ SocketInv' /\ at'[User] # "idle"
             /\ inbox # <<>> /\ inbox' = Tail(inbox)
             /\ got[User] = NoDatagram /\ got'[User] = Head(inbox)
  <2>1. /\ at[User] = "receiving" /\ inbox # <<>> /\ Head(inbox) \in Wire
        /\ inbox' = Tail(inbox) /\ inbox' \in Seq(Wire) /\ Len(inbox') <= SocketRoom
        /\ avail[User] = Head(inbox).size
        /\ UNCHANGED <<fd, sock>>
    BY <1>6, ClientAssumption DEF Sock!RecvDatagram
  <2>2. /\ Head(inbox).size \in Nat /\ Head(inbox).size > 0 /\ Head(inbox) # NoDatagram
        /\ [Head(inbox) EXCEPT !.size = Head(inbox).size] = Head(inbox)
        /\ ~(Head(inbox).size < Sock!HeaderSize)
    BY <2>1, Fields DEF Sock!HeaderSize
  <2>3. Sock!Return(User, Head(inbox).size, Head(inbox))
    BY <1>6, <2>1, <2>2 DEF Sock!RecvDatagram
  <2> HIDE DEF Sock!HeaderSize
  <2> QED BY <2>1, <2>2, <2>3
<1>7. ASSUME Sock!ReceiveLeave(User)
      PROVE  SocketInv' /\ at'[User] = "idle" /\ inbox' = inbox /\ got'[User] = NoDatagram
  BY <1>7 DEF Sock!ReceiveLeave
<1> QED BY <1>1, <1>2, <1>3, <1>4, <1>5, <1>6, <1>7

-----------------------------------------------------------------------------
(* The types                                                               *)

CallTypes ==
  /\ transport \in {"unix", "udp"} /\ up \in BOOLEAN
  /\ serverBox \in Seq(0..MaxRequests) /\ Len(serverBox) <= ServerRoom
  /\ hand \in -1..MaxRequests
  /\ call \in Calls \union {NoCall}
  /\ step \in {"idle", "send", "top", "receive", "test", "retry", "return"}
  /\ call = NoCall <=> step = "idle"
  /\ outer \in Distances /\ deadline \in Distances
  /\ timeout \in {"infinite", "finite", "zero"}
  /\ result \in Replies \union {NoDatagram}
  /\ sent \in 0..MaxRequests
  /\ answers \in Seq(0..MaxRequests)
  /\ unanswered \subseteq 1..sent
  /\ retried \in BOOLEAN

\* Where a call is, and what it has in hand there.
StepInv ==
  /\ step = "receive" <=> at[User] # "idle"
  /\ result # NoDatagram => step = "return"
  /\ step = "send" => Sends(call)
  /\ step = "retry" => call.op = "connect"
  /\ step # "idle" /\ IsRequest(call) => sent > 0

TypeInv == SocketInv /\ CallTypes /\ StepInv

LEMMA DeadlineTypes ==
  /\ \A timeoutMs : DeadlineOf(timeoutMs) \in Distances
  /\ \A d \in Distances : Nearer(d) \in Distances
  /\ \A d \in Distances : getRemainingTimeMs(d) \in {"infinite", "finite", "zero"}
  /\ "never" \in Distances
BY DEF DeadlineOf, Distances, Nearer, getRemainingTimeMs

LEMMA TypeInit == Init => TypeInv
<1> SUFFICES ASSUME Init PROVE TypeInv
  OBVIOUS
<1>1. SocketInv
  BY EmptySeq, ClientAssumption DEF Init, Sock!SocketInit, SocketInv, SocketLabels
<1>2. CallTypes
  <2>1. MaxRequests \in Nat /\ {} \subseteq 1..0 /\ <<>> \in Seq(0..MaxRequests)
    BY EmptySeq, ClientAssumption
  <2>2. transport \in {"unix", "udp"} /\ ServerRoom \in Nat /\ Len(<<>>) <= ServerRoom
    BY EmptySeq, ClientAssumption DEF Init
  <2>3. /\ serverBox \in Seq(0..MaxRequests) /\ Len(serverBox) <= ServerRoom
        /\ answers \in Seq(0..MaxRequests)
    BY <2>1, <2>2, Zenon DEF Init
  <2>4. hand \in -1..MaxRequests /\ sent \in 0..MaxRequests /\ unanswered \subseteq 1..sent
    BY <2>1 DEF Init
  <2> QED BY <2>2, <2>3, <2>4, DeadlineTypes DEF Init, CallTypes
<1>3. StepInv
  BY DEF Init, Sock!SocketInit, StepInv
<1> QED BY <1>1, <1>2, <1>3 DEF TypeInv

LEMMA SocketUnchanged == SocketInv /\ UNCHANGED socketVars => SocketInv'
BY DEF SocketInv, socketVars

LEMMA TypeNext == TypeInv /\ [Next]_vars => TypeInv'
<1> SUFFICES ASSUME TypeInv, [Next]_vars PROVE TypeInv'
  OBVIOUS
<1> USE SocketUnchanged, DeadlineTypes DEF TypeInv, CallTypes, StepInv, serverVars, history
<1>1. CASE UNCHANGED vars
  BY <1>1 DEF vars, socketVars
<1>2. CASE ServerTake \/ ServerSilent \/ ServerStop \/ ServerStart
  <2>1. /\ serverBox' \in Seq(0..MaxRequests) /\ Len(serverBox') <= ServerRoom
        /\ hand' \in -1..MaxRequests /\ up' \in BOOLEAN
    <3>1. CASE ServerTake
      <4>1. Len(Tail(serverBox)) <= ServerRoom /\ Head(serverBox) \in 0..MaxRequests
        BY <3>1, ClientAssumption DEF ServerTake
      <4> QED BY <3>1, <4>1 DEF ServerTake
    <3>2. CASE ServerSilent \/ ServerStop \/ ServerStart
      <4>1. <<>> \in Seq(0..MaxRequests) /\ Len(<<>>) <= ServerRoom
        BY EmptySeq, ClientAssumption
      <4>2. -1 \in -1..MaxRequests
        BY ClientAssumption
      <4> QED BY <3>2, <4>1, <4>2 DEF ServerSilent, ServerStop, ServerStart
    <3> QED BY <1>2, <3>1, <3>2
  <2>2. UNCHANGED <<socketVars, transport, call, step, outer, deadline, timeout, result,
                    sent, history>>
    BY <1>2 DEF ServerTake, ServerSilent, ServerStop, ServerStart
  <2>3. SocketInv' /\ UNCHANGED at
    BY <2>2 DEF socketVars
  <2>4. CallTypes'
    BY <2>1, <2>2
  <2> QED BY <2>2, <2>3, <2>4
<1>3. CASE ServerAnswer
  <2>1. Answer(hand) \in Wire
    BY <1>3 DEF ServerAnswer, Wire, Replies
  <2>2. SocketInv' /\ UNCHANGED <<at, got>>
    BY <1>3, <2>1, SocketSteps DEF ServerAnswer
  <2>3. hand' \in -1..MaxRequests
    BY <1>3, ClientAssumption DEF ServerAnswer
  <2> QED BY <1>3, <2>2, <2>3 DEF ServerAnswer
<1>4. CASE StrangerSend
  <2>1. Stray \in Wire
    BY DEF Wire
  <2> QED BY <1>4, <2>1, SocketSteps DEF StrangerSend
<1>5. ASSUME NEW c \in Calls, Begin(c) PROVE TypeInv'
  BY <1>5, ClientAssumption, CallAssumption DEF Begin, Sends, IsRequest, socketVars
<1>6. CASE Send \/ SendFail \/ SendLost
  <2>1. Number \in 0..MaxRequests
    BY ClientAssumption DEF Number
  <2>2. step = "send" /\ call \in Calls
    BY <1>6 DEF Send, SendFail, SendLost
  <2>3. call.op \in {"send", "receive", "sendReceive", "connect"}
    BY <2>2, CallAssumption
  <2>4. serverBox' \in Seq(0..MaxRequests) /\ Len(serverBox') <= ServerRoom
    <3>1. ASSUME Len(serverBox) < ServerRoom
          PROVE  /\ Append(serverBox, Number) \in Seq(0..MaxRequests)
                 /\ Len(Append(serverBox, Number)) <= ServerRoom
      BY <2>1, <3>1, ClientAssumption
    <3> QED BY <1>6, <3>1 DEF Send, SendFail, SendLost, serverVars
  <2>5. step' \in {"top", "retry", "return"} /\ (step' = "retry" => call.op = "connect")
    <3>1. PICK failed \in BOOLEAN : AfterSend(failed)
      BY <1>6 DEF Send, SendFail, SendLost
    <3> QED BY <2>2, <2>3, <3>1 DEF AfterSend, Sends
  <2>6. deadline' \in Distances
    BY <1>6 DEF Send, SendFail, SendLost, AfterSend
  <2>7. UNCHANGED <<socketVars, transport, up, hand, call, outer, timeout, result, sent, history>>
    BY <1>6 DEF Send, SendFail, SendLost, serverVars
  <2> QED BY <2>2, <2>4, <2>5, <2>6, <2>7 DEF socketVars
<1>7. CASE LoopTop
  BY <1>7, SocketSteps DEF LoopTop
<1>8. CASE PollTimeout \/ SocketReceive \/ Interrupt
  BY <1>8, SocketSteps DEF PollTimeout, SocketReceive, Interrupt
<1>9. CASE ReceiveNothing \/ SkipMessage
  BY <1>9, SocketSteps DEF ReceiveNothing, SkipMessage, Leave
<1>10. CASE ReturnMessage
  <2>1. got[User] \in Replies /\ got[User] # NoDatagram
    BY <1>10, PassingIsReply DEF ReturnMessage, SocketInv
  <2> QED BY <1>10, <2>1, SocketSteps DEF ReturnMessage, Leave
<1>11. CASE LoopTest
  BY <1>11 DEF LoopTest, Leave, socketVars
<1>12. CASE Retry
  BY <1>12 DEF Retry, socketVars, Sends
<1>13. CASE Return
  <2>1. IsAnswer(result) => result.n \in 0..MaxRequests
    BY Fields DEF IsAnswer, Wire
  <2>2. answers' \in Seq(0..MaxRequests)
    <3>1. IsAnswer(result) => Append(answers, result.n) \in Seq(0..MaxRequests)
      BY <2>1
    <3> QED BY <1>13, <3>1 DEF Return
  <2>3. unanswered' \subseteq 1..sent
    BY <1>13 DEF Return
  <2> QED BY <1>13, <2>2, <2>3, CallAssumption DEF Return, socketVars
<1>14. CASE Elapse
  BY <1>14 DEF Elapse, socketVars
<1> HIDE DEF TypeInv
<1> QED BY <1>1, <1>2, <1>3, <1>4, <1>5, <1>6, <1>7, <1>8, <1>9, <1>10, <1>11, <1>12,
           <1>13, <1>14
        DEF Next, Step, ServerStep

-----------------------------------------------------------------------------
(* Sequences that carry numbers: the value 0 says that an element has none *)

Rising(s, v) ==
  \A i, j \in DOMAIN s : i < j /\ v[s[i]] > 0 /\ v[s[j]] > 0 => v[s[i]] < v[s[j]]

Numbers(s, v) == {v[s[i]] : i \in DOMAIN s} \ {0}

Ahead(M, N) == \A m \in M, n \in N : m < n

LEMMA NumbersAreNaturals ==
  ASSUME NEW S, NEW s \in Seq(S), NEW v \in [S -> Nat]
  PROVE  Numbers(s, v) \subseteq Nat
BY DEF Numbers

LEMMA AppendNumbers ==
  ASSUME NEW S, NEW s \in Seq(S), NEW v \in [S -> Nat], NEW d \in S, NEW k
  PROVE  k \in Numbers(Append(s, d), v) <=> k \in Numbers(s, v) \/ (k = v[d] /\ k # 0)
<1> DEFINE t == Append(s, d)
<1>1. /\ Len(s) \in Nat /\ DOMAIN s = 1..Len(s) /\ DOMAIN t = 1..(Len(s) + 1)
      /\ \A i \in 1..Len(s) : t[i] = s[i]
      /\ t[Len(s) + 1] = d
  OBVIOUS
<1> HIDE DEF t
<1>2. ASSUME k \in Numbers(t, v) PROVE k \in Numbers(s, v) \/ (k = v[d] /\ k # 0)
  BY <1>1, <1>2 DEF Numbers
<1>3. ASSUME k \in Numbers(s, v) \/ (k = v[d] /\ k # 0) PROVE k \in Numbers(t, v)
  BY <1>1, <1>3 DEF Numbers
<1> QED BY <1>2, <1>3 DEF t

LEMMA AppendRises ==
  ASSUME NEW S, NEW s \in Seq(S), NEW v \in [S -> Nat], NEW d \in S
  PROVE  /\ Numbers(Append(s, d), v) = Numbers(s, v) \union ({v[d]} \ {0})
         /\ Rising(s, v) /\ Ahead(Numbers(s, v), {v[d]} \ {0}) => Rising(Append(s, d), v)
<1> DEFINE t == Append(s, d)
<1>1. /\ Len(s) \in Nat /\ DOMAIN s = 1..Len(s) /\ DOMAIN t = 1..(Len(s) + 1)
      /\ \A i \in 1..Len(s) : t[i] = s[i] /\ s[i] \in S
      /\ t[Len(s) + 1] = d
  OBVIOUS
<1> HIDE DEF t
<1>2. Numbers(t, v) = Numbers(s, v) \union ({v[d]} \ {0})
  <2>1. \A k : k \in Numbers(t, v) <=> k \in Numbers(s, v) \/ (k = v[d] /\ k # 0)
    BY AppendNumbers, Zenon DEF t
  <2> QED BY <2>1
<1>3. ASSUME Rising(s, v), Ahead(Numbers(s, v), {v[d]} \ {0}) PROVE Rising(t, v)
  <2>1. \A i \in 1..Len(s) : v[s[i]] > 0 /\ v[d] > 0 => v[s[i]] < v[d]
    BY <1>1, <1>3 DEF Ahead, Numbers
  <2> SUFFICES ASSUME NEW i \in 1..(Len(s) + 1), NEW j \in 1..(Len(s) + 1), i < j,
                      v[t[i]] > 0, v[t[j]] > 0
               PROVE  v[t[i]] < v[t[j]]
    BY <1>1 DEF Rising
  <2>2. i \in 1..Len(s) /\ t[i] = s[i]
    BY <1>1
  <2>3. CASE j \in 1..Len(s)
    BY <1>1, <1>3, <2>2, <2>3 DEF Rising
  <2>4. CASE j = Len(s) + 1
    BY <1>1, <2>1, <2>2, <2>4
  <2> QED BY <1>1, <2>3, <2>4
<1> QED BY <1>2, <1>3 DEF t

LEMMA TailRises ==
  ASSUME NEW S, NEW s \in Seq(S), NEW v \in [S -> Nat], s # <<>>
  PROVE  /\ Head(s) \in S /\ Tail(s) \in Seq(S)
         /\ Numbers(s, v) = Numbers(Tail(s), v) \union ({v[Head(s)]} \ {0})
         /\ Rising(s, v) =>
              Rising(Tail(s), v) /\ Ahead({v[Head(s)]} \ {0}, Numbers(Tail(s), v))
<1> DEFINE t == Tail(s)
           h == Head(s)
           n == Len(s)
<1>1. /\ n \in Nat \ {0} /\ DOMAIN s = 1..n /\ DOMAIN t = 1..(n - 1)
      /\ \A i \in 1..(n - 1) : t[i] = s[i + 1]
      /\ h = s[1] /\ h \in S /\ t \in Seq(S)
      /\ \A i \in 1..n : s[i] \in S
  BY HeadTailProperties, EmptySeq
<1> HIDE DEF t, h, n
<1>2. \A i \in 1..(n - 1) : i + 1 \in 1..n /\ t[i] \in S
  BY <1>1
<1>3. \A i \in 1..n : i = 1 \/ (i - 1 \in 1..(n - 1) /\ t[i - 1] = s[i])
  BY <1>1
<1>4. \A x : Occurs(s, x) <=> Occurs(t, x) \/ h = x
  BY TailOccurs, Zenon DEF t, h
<1>5. Numbers(s, v) = Numbers(t, v) \union ({v[h]} \ {0})
  <2>1. \A r, k : k \in Numbers(r, v) <=> k # 0 /\ \E x : Occurs(r, x) /\ v[x] = k
    BY DEF Numbers, Occurs
  <2>2. \A k : k \in Numbers(s, v) <=> k \in Numbers(t, v) \/ (k # 0 /\ v[h] = k)
    BY <1>4, <2>1, Zenon
  <2> QED BY <2>2
<1>6. ASSUME Rising(s, v) PROVE Rising(t, v) /\ Ahead({v[h]} \ {0}, Numbers(t, v))
  <2>1. Rising(t, v)
    <3> SUFFICES ASSUME NEW i \in 1..(n - 1), NEW j \in 1..(n - 1), i < j,
                        v[t[i]] > 0, v[t[j]] > 0
                 PROVE  v[t[i]] < v[t[j]]
      BY <1>1 DEF Rising
    <3>1. i + 1 \in 1..n /\ j + 1 \in 1..n /\ i + 1 < j + 1
      BY <1>1
    <3>2. t[i] = s[i + 1] /\ t[j] = s[j + 1]
      BY <1>1
    <3> QED BY <1>1, <1>6, <3>1, <3>2 DEF Rising
  <2>2. ASSUME NEW i \in 1..(n - 1), v[h] > 0, v[t[i]] > 0
        PROVE  v[h] < v[t[i]]
    <3>1. i + 1 \in 1..n /\ 1 \in 1..n /\ 1 < i + 1 /\ t[i] = s[i + 1] /\ h = s[1]
      BY <1>1
    <3> QED BY <1>1, <1>6, <2>2, <3>1 DEF Rising
  <2>3. v[h] \in Nat /\ \A i \in 1..(n - 1) : v[t[i]] \in Nat
    BY <1>1, <1>2
  <2>4. Ahead({v[h]} \ {0}, Numbers(t, v))
    <3> SUFFICES ASSUME v[h] # 0, NEW k \in Numbers(t, v) PROVE v[h] < k
      BY DEF Ahead
    <3>1. PICK i \in 1..(n - 1) : v[t[i]] = k /\ k # 0
      BY <1>1 DEF Numbers
    <3> QED BY <2>2, <2>3, <3>1
  <2> QED BY <2>1, <2>4
<1> QED BY <1>1, <1>5, <1>6 DEF t, h

LEMMA EmptyRises ==
  ASSUME NEW v
  PROVE  Numbers(<<>>, v) = {} /\ Rising(<<>>, v)
BY DEF Numbers, Rising

-----------------------------------------------------------------------------
(* The requests on their way: to the server, back, and into the hands of   *)
(* the caller                                                              *)

own == [n \in 0..MaxRequests |-> n]
numberOf == [m \in Wire |-> m.n]

InMessage(m) == {k \in 1..MaxRequests : m # NoDatagram /\ m.n = k}

Returned == Numbers(answers, own)
InResult == InMessage(result)
InGot    == InMessage(got[User])
InInbox  == Numbers(inbox, numberOf)
InHand   == {hand} \ {-1, 0}
InBox    == Numbers(serverBox, own)

\* What the next request is greater than: a request whose send has yet to happen
\* is the last one.
Limit == IF step = "send" /\ IsRequest(call) THEN sent ELSE sent + 1

\* Whatever is nearer to the caller was asked earlier.
InLine(A, R, G, I, H, B, L) ==
  /\ Ahead(A, R)
  /\ Ahead(A \union R, G)
  /\ Ahead(A \union R \union G, I)
  /\ Ahead(A \union R \union G \union I, H)
  /\ Ahead(A \union R \union G \union I \union H, B)
  /\ Ahead(A \union R \union G \union I \union H \union B, {L})

PipeInv ==
  /\ Rising(answers, own) /\ Rising(inbox, numberOf) /\ Rising(serverBox, own)
  /\ \A i \in DOMAIN answers : answers[i] # 0
  /\ InLine(Returned, InResult, InGot, InInbox, InHand, InBox, Limit)

\* A request still on its way is that of the call in progress, or of one that
\* ended without the answer.
StaleInv ==
  \A n \in InResult \union InGot \union InInbox \union InHand \union InBox :
    n \in unanswered \/ (n = sent /\ step # "idle" /\ IsRequest(call))

\* A ping or its answer is somewhere.
PingOnItsWay ==
  \/ Occurs(serverBox, 0) \/ hand = 0 \/ Occurs(inbox, Pong) \/ got[User] = Pong
  \/ result = Pong

\* Until an attempt of connect() fails there is one ping, from its send() to the
\* end of the connect() that sent it.
PingInv ==
  ~retried =>
    /\ Single(serverBox, 0) /\ Single(inbox, Pong)
    /\ Occurs(serverBox, 0) =>
         hand # 0 /\ ~Occurs(inbox, Pong) /\ got[User] # Pong /\ result # Pong
    /\ hand = 0 => ~Occurs(inbox, Pong) /\ got[User] # Pong /\ result # Pong
    /\ Occurs(inbox, Pong) => got[User] # Pong /\ result # Pong
    /\ got[User] = Pong => result # Pong
    /\ PingOnItsWay => step \notin {"idle", "send"} /\ call.op = "connect"
    /\ step = "return" /\ call.op = "connect" => result = Pong

FlowInv == PipeInv /\ StaleInv /\ PingInv

ClientInv == TypeInv /\ FlowInv

-----------------------------------------------------------------------------
(* What a step does to the requests on their way                           *)

Quiet ==
  /\ UNCHANGED <<answers, result, got[User], inbox, hand, serverBox, call, sent, unanswered>>
  /\ step' = "idle" <=> step = "idle"
  /\ step' = "send" => step = "send" \/ (retried' /\ ~IsRequest(call))
  /\ step' = "return" /\ call.op = "connect" => step = "return" \/ retried'
  /\ retried => retried'

\* The server, or the network, drops what it had.
Dropped ==
  /\ hand' = -1 /\ serverBox' \in {serverBox, <<>>}
  /\ UNCHANGED <<answers, result, got[User], inbox, call, step, sent, unanswered, retried>>

\* The caller takes a message out of its socket.
Taken ==
  /\ got[User] = NoDatagram
  /\ inbox # <<>> /\ got'[User] = Head(inbox) /\ inbox' = Tail(inbox)
  /\ UNCHANGED <<answers, result, hand, serverBox, call, step, sent, unanswered, retried>>

LEMMA Effects ==
  TypeInv /\ [Next]_vars =>
    \/ Quiet \/ Dropped \/ Taken
    \/ ServerTake \/ ServerAnswer \/ StrangerSend
    \/ \E c \in Calls : Begin(c)
    \/ Send \/ ReturnMessage \/ SkipMessage \/ Return
<1> SUFFICES ASSUME TypeInv, [Next]_vars
             PROVE  \/ Quiet \/ Dropped \/ Taken
                    \/ ServerTake \/ ServerAnswer \/ StrangerSend
                    \/ \E c \in Calls : Begin(c)
                    \/ Send \/ ReturnMessage \/ SkipMessage \/ Return
  OBVIOUS
<1>0. SocketInv /\ CallTypes /\ StepInv
  BY DEF TypeInv
<1> USE DEF serverVars, history
<1>1. CASE UNCHANGED vars
  BY <1>1 DEF vars, socketVars, Quiet
<1>2. CASE ServerSilent \/ ServerStop
  BY <1>2 DEF ServerSilent, ServerStop, socketVars, Dropped
<1>3. CASE ServerStart \/ Elapse
  BY <1>3 DEF ServerStart, Elapse, socketVars, Quiet
<1>4. CASE SendFail \/ SendLost
  <2>1. PICK failed \in BOOLEAN : AfterSend(failed)
    BY <1>4 DEF SendFail, SendLost
  <2>2. step = "send" /\ call \in Calls
    BY <1>0, <1>4 DEF SendFail, SendLost, CallTypes
  <2>3. step' \in {"top", "retry", "return"} /\ (step' = "return" => call.op # "connect")
    BY <2>1, <2>2, CallAssumption DEF AfterSend
  <2> QED BY <1>4, <2>2, <2>3 DEF SendFail, SendLost, socketVars, Quiet
<1>5. CASE LoopTop
  BY <1>0, <1>5, SocketSteps DEF LoopTop, Quiet
<1>6. CASE PollTimeout \/ Interrupt \/ SocketReceive
  <2>1. CASE Sock!RecvDatagram(User)
    BY <1>0, <1>6, <2>1, SocketSteps DEF PollTimeout, Interrupt, SocketReceive, Taken
  <2>2. CASE ~Sock!RecvDatagram(User)
    BY <1>0, <1>6, <2>2, SocketSteps DEF PollTimeout, Interrupt, SocketReceive, Quiet
  <2> QED BY <2>1, <2>2
<1>7. CASE ReceiveNothing
  <2>1. got[User] = NoDatagram /\ result = NoDatagram
    BY <1>0, <1>7 DEF ReceiveNothing, SocketInv, StepInv
  <2> QED BY <1>0, <1>7, <2>1, SocketSteps DEF ReceiveNothing, Leave, Quiet
<1>8. CASE LoopTest
  <2>1. result = NoDatagram
    BY <1>0, <1>8 DEF LoopTest, StepInv
  <2> QED BY <1>8, <2>1 DEF LoopTest, Leave, socketVars, Quiet
<1>9. CASE Retry
  <2>1. ~IsRequest(call)
    BY <1>0, <1>9 DEF Retry, StepInv, IsRequest
  <2> QED BY <1>9, <2>1 DEF Retry, socketVars, Quiet
<1> QED BY <1>1, <1>2, <1>3, <1>4, <1>5, <1>6, <1>7, <1>8, <1>9 DEF Next, Step, ServerStep

-----------------------------------------------------------------------------
(* Where the requests are after a step                                     *)

Behind == InResult \union InGot \union InInbox \union InHand \union InBox

LEMMA StageTypes ==
  ASSUME TypeInv
  PROVE  /\ own \in [0..MaxRequests -> Nat] /\ numberOf \in [Wire -> Nat]
         /\ MaxRequests \in Nat /\ sent \in Nat /\ Limit \in Nat
         /\ Returned \subseteq Nat /\ InResult \subseteq Nat /\ InGot \subseteq Nat
         /\ InInbox \subseteq Nat /\ InHand \subseteq Nat /\ InBox \subseteq Nat
<1>1. own \in [0..MaxRequests -> Nat] /\ numberOf \in [Wire -> Nat]
  BY Fields, ClientAssumption DEF own, numberOf
<1>2. MaxRequests \in Nat /\ sent \in Nat
  BY ClientAssumption DEF TypeInv, CallTypes
<1>3. Limit \in Nat
  BY <1>2 DEF Limit
<1>4. Returned \subseteq Nat /\ InInbox \subseteq Nat /\ InBox \subseteq Nat
  <2> DEFINE S == 0..MaxRequests
  <2>1. /\ answers \in Seq(S) /\ serverBox \in Seq(S) /\ inbox \in Seq(Wire)
        /\ own \in [S -> Nat]
    BY <1>1 DEF TypeInv, SocketInv, CallTypes
  <2> HIDE DEF S
  <2> QED BY <1>1, <2>1, NumbersAreNaturals DEF Returned, InInbox, InBox
<1>5. InResult \subseteq Nat /\ InGot \subseteq Nat /\ InHand \subseteq Nat
  BY <1>2 DEF TypeInv, CallTypes, InResult, InGot, InMessage, InHand
<1> QED BY <1>1, <1>2, <1>3, <1>4, <1>5

LEMMA MessageNumber ==
  ASSUME NEW m \in Wire
  PROVE  /\ InMessage(m) = {numberOf[m]} \ {0}
         /\ numberOf[Answer(0)] = 0 /\ numberOf[Stray] = 0
         /\ \A n \in 1..MaxRequests : numberOf[Answer(n)] = n /\ Answer(n) # Pong
         /\ Stray # Pong
<1>1. MaxRequests \in Nat
  BY ClientAssumption
<1>2. \A n \in 0..MaxRequests : Answer(n) \in Wire
  BY DEF Wire, Replies
<1>3. Stray \in Wire
  BY DEF Wire
<1>4. \A x \in Wire : numberOf[x] = x.n /\ x.n \in 0..MaxRequests /\ x # NoDatagram
  BY Fields DEF numberOf
<1>5. InMessage(m) = {numberOf[m]} \ {0}
  BY <1>1, <1>4 DEF InMessage
<1>6. Stray # Pong
  BY <1>1, Fields DEF Pong, IPC_PING_RSP, RESPONSE
<1>7. \A n \in 1..MaxRequests : Answer(n).n = n /\ Pong.n = 0
  BY <1>1, Fields DEF Pong
<1> QED BY <1>1, <1>2, <1>3, <1>4, <1>5, <1>6, <1>7, Fields

LEMMA NothingCarried == InMessage(NoDatagram) = {} /\ NoDatagram # Pong
BY ClientAssumption, NoReplyAssumption DEF InMessage, Pong

LEMMA SameStages ==
  /\ answers' = answers => Returned' = Returned /\ Rising(answers', own) = Rising(answers, own)
  /\ result' = result => InResult' = InResult
  /\ got'[User] = got[User] => InGot' = InGot
  /\ inbox' = inbox => InInbox' = InInbox /\ Rising(inbox', numberOf) = Rising(inbox, numberOf)
  /\ hand' = hand => InHand' = InHand
  /\ serverBox' = serverBox => InBox' = InBox /\ Rising(serverBox', own) = Rising(serverBox, own)
  /\ PipeInv' <=>
       /\ Rising(answers', own) /\ Rising(inbox', numberOf) /\ Rising(serverBox', own)
       /\ \A i \in DOMAIN answers' : answers'[i] # 0
       /\ InLine(Returned', InResult', InGot', InInbox', InHand', InBox', Limit')
BY DEF Returned, InResult, InGot, InInbox, InHand, InBox, InMessage, PipeInv, own, numberOf

\* A message enters the socket of the client.
LEMMA InboxGrows ==
  ASSUME TypeInv, PipeInv, NEW m \in Wire, inbox' = Append(inbox, m),
         Ahead(InInbox, {numberOf[m]} \ {0})
  PROVE  /\ InInbox' = InInbox \union ({numberOf[m]} \ {0})
         /\ Rising(inbox', numberOf)
         /\ Occurs(inbox', Pong) <=> Occurs(inbox, Pong) \/ m = Pong
         /\ Single(inbox, Pong) /\ (m = Pong => ~Occurs(inbox, Pong)) => Single(inbox', Pong)
<1>1. inbox \in Seq(Wire) /\ numberOf \in [Wire -> Nat]
  BY StageTypes DEF TypeInv, SocketInv
<1>2. Rising(inbox, numberOf)
  BY DEF PipeInv
<1>3. InInbox' = Numbers(inbox', numberOf)
  BY DEF InInbox, numberOf
<1>4. /\ InInbox' = InInbox \union ({numberOf[m]} \ {0})
      /\ Rising(inbox', numberOf)
  <2>1. /\ Numbers(Append(inbox, m), numberOf)
             = Numbers(inbox, numberOf) \union ({numberOf[m]} \ {0})
        /\ Rising(inbox, numberOf) /\ Ahead(Numbers(inbox, numberOf), {numberOf[m]} \ {0})
             => Rising(Append(inbox, m), numberOf)
    BY <1>1, AppendRises
  <2> QED BY <1>2, <1>3, <2>1 DEF InInbox
<1>5. /\ Occurs(inbox', Pong) <=> Occurs(inbox, Pong) \/ m = Pong
      /\ Single(inbox, Pong) /\ (m = Pong => ~Occurs(inbox, Pong)) => Single(inbox', Pong)
  BY <1>1, AppendOccurs
<1> QED BY <1>4, <1>5

\* A request enters the socket of the server.
LEMMA BoxGrows ==
  ASSUME TypeInv, PipeInv, NEW n \in 0..MaxRequests, serverBox' = Append(serverBox, n),
         Ahead(InBox, {n} \ {0})
  PROVE  /\ InBox' = InBox \union ({n} \ {0})
         /\ Rising(serverBox', own)
         /\ Occurs(serverBox', 0) <=> Occurs(serverBox, 0) \/ n = 0
         /\ Single(serverBox, 0) /\ (n = 0 => ~Occurs(serverBox, 0)) => Single(serverBox', 0)
<1> DEFINE S == 0..MaxRequests
<1>1. serverBox \in Seq(S) /\ own \in [S -> Nat] /\ n \in S /\ own[n] = n
  BY StageTypes DEF TypeInv, CallTypes, own
<1> HIDE DEF S
<1>2. Rising(serverBox, own)
  BY DEF PipeInv
<1>3. InBox = Numbers(serverBox, own) /\ InBox' = Numbers(serverBox', own)
  BY DEF InBox, own
<1>4. /\ InBox' = InBox \union ({n} \ {0})
      /\ Rising(serverBox', own)
  <2>1. /\ Numbers(Append(serverBox, n), own)
             = Numbers(serverBox, own) \union ({own[n]} \ {0})
        /\ Rising(serverBox, own) /\ Ahead(Numbers(serverBox, own), {own[n]} \ {0})
             => Rising(Append(serverBox, n), own)
    BY <1>1, AppendRises
  <2> QED BY <1>1, <1>2, <1>3, <2>1
<1>5. /\ Occurs(serverBox', 0) <=> Occurs(serverBox, 0) \/ n = 0
      /\ Single(serverBox, 0) /\ (n = 0 => ~Occurs(serverBox, 0)) => Single(serverBox', 0)
  BY <1>1, AppendOccurs
<1> QED BY <1>4, <1>5

LEMMA AnswersGrow ==
  ASSUME TypeInv, PipeInv, NEW n \in 1..MaxRequests, answers' = Append(answers, n),
         Ahead(Returned, {n})
  PROVE  /\ Returned' = Returned \union {n}
         /\ Rising(answers', own)
         /\ \A i \in DOMAIN answers' : answers'[i] # 0
<1> DEFINE S == 0..MaxRequests
<1>1. /\ answers \in Seq(S) /\ own \in [S -> Nat]
      /\ n \in S /\ own[n] = n
  BY StageTypes DEF TypeInv, CallTypes, own
<1>2. Rising(answers, own)
  BY DEF PipeInv
<1>3. Returned' = Numbers(answers', own)
  BY DEF Returned, own
<1>4. \A i \in DOMAIN answers' : answers'[i] # 0
  BY <1>1 DEF PipeInv
<1> HIDE DEF S
<1>5. /\ Numbers(Append(answers, n), own) = Numbers(answers, own) \union ({own[n]} \ {0})
      /\ Rising(answers, own) /\ Ahead(Numbers(answers, own), {own[n]} \ {0}) =>
           Rising(Append(answers, n), own)
  <2>1. answers \in Seq(S) /\ own \in [S -> Nat] /\ n \in S
    BY <1>1
  <2>2. Numbers(Append(answers, n), own) = Numbers(answers, own) \union ({own[n]} \ {0})
    <3>1. \A k : k \in Numbers(Append(answers, n), own) <=>
                   k \in Numbers(answers, own) \/ (k = own[n] /\ k # 0)
      BY <2>1, AppendNumbers, Zenon
    <3> QED BY <3>1
  <2>3. Rising(answers, own) /\ Ahead(Numbers(answers, own), {own[n]} \ {0}) =>
           Rising(Append(answers, n), own)
    BY <2>1, AppendRises
  <2> QED BY <2>2, <2>3
<1>6. {own[n]} \ {0} = {n}
  BY <1>1
<1> QED BY <1>2, <1>3, <1>4, <1>5, <1>6 DEF Returned

LEMMA InboxShrinks ==
  ASSUME TypeInv, PipeInv, inbox # <<>>, inbox' = Tail(inbox)
  PROVE  LET m == Head(inbox)
         IN  /\ m \in Wire
             /\ InInbox = InInbox' \union InMessage(m)
             /\ Ahead(InMessage(m), InInbox')
             /\ Rising(inbox', numberOf)
             /\ Occurs(inbox, Pong) <=> Occurs(inbox', Pong) \/ m = Pong
             /\ Single(inbox, Pong) =>
                  Single(inbox', Pong) /\ (m = Pong => ~Occurs(inbox', Pong))
<1> DEFINE m == Head(inbox)
<1>1. inbox \in Seq(Wire) /\ numberOf \in [Wire -> Nat] /\ Rising(inbox, numberOf)
  BY StageTypes DEF TypeInv, SocketInv, PipeInv
<1>2. InInbox' = Numbers(Tail(inbox), numberOf)
  BY DEF InInbox, numberOf
<1>3. /\ m \in Wire
      /\ InInbox = InInbox' \union ({numberOf[m]} \ {0})
      /\ Ahead({numberOf[m]} \ {0}, InInbox')
      /\ Rising(inbox', numberOf)
      /\ Occurs(inbox, Pong) <=> Occurs(inbox', Pong) \/ m = Pong
      /\ Single(inbox, Pong) =>
           Single(inbox', Pong) /\ (m = Pong => ~Occurs(inbox', Pong))
  BY <1>1, <1>2, TailRises, TailOccurs DEF InInbox
<1> QED BY <1>3, MessageNumber

LEMMA BoxShrinks ==
  ASSUME TypeInv, PipeInv, serverBox # <<>>, serverBox' = Tail(serverBox)
  PROVE  LET n == Head(serverBox)
         IN  /\ n \in 0..MaxRequests
             /\ InBox = InBox' \union ({n} \ {0})
             /\ Ahead({n} \ {0}, InBox')
             /\ Rising(serverBox', own)
             /\ Occurs(serverBox, 0) <=> Occurs(serverBox', 0) \/ n = 0
             /\ Single(serverBox, 0) =>
                  Single(serverBox', 0) /\ (n = 0 => ~Occurs(serverBox', 0))
<1> DEFINE n == Head(serverBox)
           S == 0..MaxRequests
<1>1. serverBox \in Seq(S) /\ own \in [S -> Nat] /\ Rising(serverBox, own)
  BY StageTypes DEF TypeInv, CallTypes, PipeInv
<1>2. InBox' = Numbers(Tail(serverBox), own)
  BY DEF InBox, own
<1>3. n \in 0..MaxRequests /\ own[n] = n
  BY <1>1, HeadTailProperties DEF own
<1> HIDE DEF S
<1>4. /\ Numbers(serverBox, own) = Numbers(Tail(serverBox), own) \union ({own[n]} \ {0})
      /\ Ahead({own[n]} \ {0}, Numbers(Tail(serverBox), own))
      /\ Rising(serverBox', own)
      /\ Occurs(serverBox, 0) <=> Occurs(serverBox', 0) \/ n = 0
      /\ Single(serverBox, 0) =>
           Single(serverBox', 0) /\ (n = 0 => ~Occurs(serverBox', 0))
  BY <1>1, TailRises, TailOccurs
<1> QED BY <1>2, <1>3, <1>4 DEF InBox

-----------------------------------------------------------------------------
(* The invariant is inductive                                              *)

\* What a step of the others leaves alone.
LEMMA Untouched ==
  ASSUME TypeInv
  PROVE  /\ ServerTake => UNCHANGED <<answers, result, got, inbox, call, step, sent, unanswered, retried>>
         /\ ServerAnswer =>
              UNCHANGED <<answers, result, got, serverBox, call, step, sent, unanswered, retried>>
         /\ StrangerSend =>
              UNCHANGED <<answers, result, got, serverBox, hand, call, step, sent, unanswered, retried>>
         /\ \A c \in Calls : Begin(c) =>
              UNCHANGED <<answers, result, got, inbox, serverBox, hand, unanswered, retried>>
         /\ Send => UNCHANGED <<answers, result, got, inbox, hand, call, sent, unanswered, retried>>
         /\ ReturnMessage \/ SkipMessage =>
              /\ UNCHANGED <<answers, inbox, hand, serverBox, call, sent, unanswered, retried>>
              /\ got'[User] = NoDatagram /\ result = NoDatagram
              /\ got[User] \in Wire
         /\ Return => UNCHANGED <<got, inbox, hand, serverBox, sent, retried>>
<1> USE DEF serverVars, socketVars, history
<1>1. SocketInv /\ StepInv
  BY DEF TypeInv
<1>2. ServerTake => UNCHANGED <<answers, result, got, inbox, call, step, sent, unanswered, retried>>
  BY DEF ServerTake
<1>3. ASSUME ServerAnswer
      PROVE  UNCHANGED <<answers, result, got, serverBox, call, step, sent, unanswered, retried>>
  BY <1>3 DEF ServerAnswer, Sock!Arrive, Sock!callVars
<1>4. ASSUME StrangerSend
      PROVE  UNCHANGED <<answers, result, got, serverBox, hand, call, step, sent, unanswered, retried>>
  BY <1>4 DEF StrangerSend, Sock!Arrive, Sock!callVars
<1>5. ASSUME NEW c \in Calls, Begin(c)
      PROVE  UNCHANGED <<answers, result, got, inbox, serverBox, hand, unanswered, retried>>
  BY <1>5 DEF Begin
<1>6. Send => UNCHANGED <<answers, result, got, inbox, hand, call, sent, unanswered, retried>>
  BY DEF Send
<1>7. ASSUME ReturnMessage \/ SkipMessage
      PROVE  /\ UNCHANGED <<answers, inbox, hand, serverBox, call, sent, unanswered, retried>>
             /\ got'[User] = NoDatagram /\ result = NoDatagram
             /\ got[User] \in Wire
  <2>1. Sock!ReceiveLeave(User) /\ step = "receive" /\ at[User] = "done" /\ ret[User] > 0
    BY <1>7 DEF ReturnMessage, SkipMessage
  <2>2. inbox' = inbox /\ got'[User] = NoDatagram
    BY <1>1, <2>1, SocketSteps
  <2>3. got[User] \in Wire /\ result = NoDatagram
    BY <1>1, <2>1 DEF SocketInv, StepInv
  <2> QED BY <1>7, <2>2, <2>3 DEF ReturnMessage, SkipMessage
<1>8. Return => UNCHANGED <<got, inbox, hand, serverBox, sent, retried>>
  BY DEF Return
<1> QED BY <1>2, <1>3, <1>4, <1>5, <1>6, <1>7, <1>8

\* What the caller had in result goes into the answers if it is one.
LEMMA ResultIsCollected ==
  ASSUME TypeInv, PipeInv, Return
  PROVE  /\ Returned' = Returned \union InResult /\ InResult' = {}
         /\ Rising(answers', own) /\ \A i \in DOMAIN answers' : answers'[i] # 0
         /\ IsAnswer(result) => InResult = {result.n}
<1>0. /\ result \in Replies \union {NoDatagram} /\ MaxRequests \in Nat
      /\ Rising(answers, own) /\ \A i \in DOMAIN answers : answers[i] # 0
      /\ Ahead(Returned, InResult)
  BY ClientAssumption DEF TypeInv, CallTypes, PipeInv, InLine
<1>1. InResult' = {}
  BY NothingCarried DEF Return, InResult, InMessage
<1>2. CASE IsAnswer(result)
  <2>1. PICK n \in 0..MaxRequests : result = Answer(n)
    BY <1>0, <1>2 DEF IsAnswer, Replies
  <2>2. n \in 1..MaxRequests /\ result.n = n
    BY <1>0, <1>2, <2>1, Fields DEF IsAnswer, IPC_PING_RSP, RESPONSE
  <2>3. InResult = {n}
    BY <1>2, <2>2 DEF InResult, InMessage, IsAnswer
  <2>4. answers' = Append(answers, n)
    BY <1>2, <2>2 DEF Return
  <2> QED BY <1>0, <1>1, <2>2, <2>3, <2>4, AnswersGrow
<1>3. CASE ~IsAnswer(result)
  <2>1. answers' = answers
    BY <1>3 DEF Return
  <2>2. InResult = {}
    <3>1. ASSUME NEW n \in 1..MaxRequests, result # NoDatagram, result.n = n PROVE FALSE
      <4>1. PICK k \in 0..MaxRequests : result = Answer(k)
        BY <1>0, <3>1 DEF Replies
      <4>2. k = n /\ result.reqId = RESPONSE
        BY <1>0, <3>1, <4>1, Fields
      <4> QED BY <1>3, <3>1, <4>2 DEF IsAnswer
    <3> QED BY <3>1 DEF InResult, InMessage
  <2> QED BY <1>0, <1>1, <1>3, <2>1, <2>2, SameStages
<1> QED BY <1>2, <1>3

LEMMA PipeNext == TypeInv /\ PipeInv /\ [Next]_vars => PipeInv'
<1> SUFFICES ASSUME TypeInv, PipeInv, [Next]_vars PROVE PipeInv'
  OBVIOUS
<1>0. /\ InLine(Returned, InResult, InGot, InInbox, InHand, InBox, Limit)
      /\ Rising(answers, own) /\ Rising(inbox, numberOf) /\ Rising(serverBox, own)
      /\ \A i \in DOMAIN answers : answers[i] # 0
      /\ Returned \subseteq Nat /\ InResult \subseteq Nat /\ InGot \subseteq Nat
      /\ InInbox \subseteq Nat /\ InHand \subseteq Nat /\ InBox \subseteq Nat
      /\ Limit \in Nat /\ sent \in Nat
  BY StageTypes DEF PipeInv
<1>1. CASE Quiet
  <2>1. Limit' \in Nat /\ Limit <= Limit'
    BY <1>0, <1>1 DEF Quiet, Limit
  <2>2. InLine(Returned, InResult, InGot, InInbox, InHand, InBox, Limit')
    BY <1>0, <2>1 DEF InLine, Ahead
  <2> QED BY <1>0, <1>1, <2>2, SameStages DEF Quiet
<1>2. CASE Dropped
  <2>1. InHand' = {} /\ Limit' = Limit
    BY <1>2 DEF Dropped, InHand, Limit
  <2>2. Rising(serverBox', own) /\ InBox' \in {InBox, {}}
    BY <1>0, <1>2, SameStages, EmptyRises DEF Dropped, InBox, own
  <2>3. InLine(Returned, InResult, InGot, InInbox, {}, InBox', Limit)
    BY <1>0, <2>2 DEF InLine, Ahead
  <2> QED BY <1>0, <1>2, <2>1, <2>2, <2>3, SameStages DEF Dropped
<1>3. CASE Taken
  <2>1. InGot = {} /\ InGot' = InMessage(Head(inbox)) /\ Limit' = Limit
    BY <1>3, NothingCarried DEF Taken, InGot, Limit, InMessage
  <2>2. /\ InInbox = InInbox' \union InGot' /\ Ahead(InGot', InInbox')
        /\ Rising(inbox', numberOf)
    BY <1>3, <2>1, InboxShrinks DEF Taken
  <2>3. InLine(Returned, InResult, InGot', InInbox', InHand, InBox, Limit)
    BY <1>0, <2>1, <2>2 DEF InLine, Ahead
  <2> QED BY <1>0, <1>3, <2>1, <2>2, <2>3, SameStages DEF Taken
<1>4. CASE ServerTake
  <2>1. Limit' = Limit /\ InHand = {}
    BY <1>4, Untouched DEF Limit, InHand, ServerTake
  <2>2. /\ InBox = InBox' \union InHand' /\ Ahead(InHand', InBox')
        /\ Rising(serverBox', own)
    <3> DEFINE n == Head(serverBox)
    <3>1. hand' = n /\ serverBox # <<>> /\ serverBox' = Tail(serverBox)
      BY <1>4 DEF ServerTake
    <3>2. /\ n \in 0..MaxRequests /\ InBox = InBox' \union ({n} \ {0})
          /\ Ahead({n} \ {0}, InBox') /\ Rising(serverBox', own)
      BY <3>1, BoxShrinks
    <3> HIDE DEF n
    <3>3. InHand' = {n} \ {0}
      BY <3>1, <3>2 DEF InHand
    <3> QED BY <3>2, <3>3
  <2>3. InLine(Returned, InResult, InGot, InInbox, InHand', InBox', Limit)
    BY <1>0, <2>1, <2>2 DEF InLine, Ahead
  <2> QED BY <1>0, <1>4, <2>1, <2>2, <2>3, SameStages, Untouched
<1>5. CASE ServerAnswer
  <2>1. Limit' = Limit /\ InHand' = {}
    BY <1>5, Untouched DEF Limit, InHand, ServerAnswer
  <2>2. Answer(hand) \in Wire /\ inbox' = Append(inbox, Answer(hand)) /\ hand \in 0..MaxRequests
    BY <1>5 DEF ServerAnswer, Sock!Arrive, Wire, Replies, TypeInv, CallTypes
  <2>3. {numberOf[Answer(hand)]} \ {0} = InHand
    BY <2>2, MessageNumber DEF InHand
  <2>4. Ahead(InInbox, InHand)
    BY <1>0 DEF InLine, Ahead
  <2>5. InInbox' = InInbox \union InHand /\ Rising(inbox', numberOf)
    BY <2>2, <2>3, <2>4, InboxGrows
  <2>6. InLine(Returned, InResult, InGot, InInbox', {}, InBox, Limit)
    BY <1>0, <2>5 DEF InLine, Ahead
  <2> QED BY <1>0, <1>5, <2>1, <2>5, <2>6, SameStages, Untouched
<1>6. CASE StrangerSend
  <2>1. Limit' = Limit
    BY <1>6, Untouched DEF Limit
  <2>2. Stray \in Wire /\ inbox' = Append(inbox, Stray)
    BY <1>6 DEF StrangerSend, Sock!Arrive, Wire
  <2>3. {numberOf[Stray]} \ {0} = {}
    BY <2>2, MessageNumber
  <2>4. Ahead(InInbox, {})
    BY DEF Ahead
  <2>5. InInbox' = InInbox /\ Rising(inbox', numberOf)
    BY <2>2, <2>3, <2>4, InboxGrows
  <2> QED BY <1>0, <1>6, <2>1, <2>5, SameStages, Untouched
<1>7. ASSUME NEW c \in Calls, Begin(c) PROVE PipeInv'
  <2>1. Limit' = Limit
    BY <1>0, <1>7 DEF Begin, Limit, IsRequest, Sends
  <2> QED BY <1>0, <1>7, <2>1, SameStages, Untouched
<1>8. CASE Send
  <2>1. step = "send" /\ step' # "send" /\ sent' = sent /\ call' = call
    <3>1. call.op \in {"send", "receive", "sendReceive", "connect"}
      BY <1>8, CallAssumption DEF Send, TypeInv, CallTypes
    <3> QED BY <1>8, <3>1 DEF Send, AfterSend
  <2>2. Number \in 0..MaxRequests /\ serverBox' = Append(serverBox, Number)
    BY <1>8, ClientAssumption DEF Send, Number, TypeInv, CallTypes
  <2>3. /\ {Number} \ {0} \subseteq {Limit} /\ Limit' = sent + 1 /\ Limit <= Limit'
        /\ {Number} \ {0} \subseteq Nat /\ \A n \in {Number} \ {0} : n < Limit'
    BY <1>0, <2>1, <2>2 DEF Limit, Number
  <2>4. Ahead(InBox, {Number} \ {0})
    BY <1>0, <2>3 DEF InLine, Ahead
  <2>5. InBox' = InBox \union ({Number} \ {0}) /\ Rising(serverBox', own)
    BY <2>2, <2>4, BoxGrows
  <2> DEFINE N == {Number} \ {0}
  <2>6. N \subseteq {Limit} /\ N \subseteq Nat /\ (\A n \in N : n < Limit') /\ InBox' = InBox \union N
    BY <2>3, <2>5
  <2> HIDE DEF N
  <2>7. InLine(Returned, InResult, InGot, InInbox, InHand, InBox', Limit')
    BY <1>0, <2>3, <2>6 DEF InLine, Ahead
  <2> QED BY <1>0, <1>8, <2>5, <2>7, SameStages, Untouched
<1>9. CASE ReturnMessage
  <2>1. Limit' = Limit
    BY <1>9, Untouched DEF Limit, ReturnMessage, Leave
  <2>2. InResult = {} /\ InResult' = InGot /\ InGot' = {}
    BY <1>9, Untouched, NothingCarried DEF ReturnMessage, Leave, InResult, InGot, InMessage
  <2>3. InLine(Returned, InGot, {}, InInbox, InHand, InBox, Limit)
    BY <1>0, <2>2 DEF InLine, Ahead
  <2> QED BY <1>0, <1>9, <2>1, <2>2, <2>3, SameStages, Untouched
<1>10. CASE SkipMessage
  <2>1. Limit' = Limit /\ result' = result
    BY <1>10, Untouched DEF Limit, SkipMessage
  <2>2. InGot' = {}
    BY <1>10, Untouched, NothingCarried DEF InGot, InMessage
  <2>3. InLine(Returned, InResult, {}, InInbox, InHand, InBox, Limit)
    BY <1>0 DEF InLine, Ahead
  <2> QED BY <1>0, <1>10, <2>1, <2>2, <2>3, SameStages, Untouched
<1>11. CASE Return
  <2>1. Limit' = Limit
    BY <1>11, Untouched DEF Limit, Return
  <2>2. /\ Returned' = Returned \union InResult /\ InResult' = {}
        /\ Rising(answers', own) /\ \A i \in DOMAIN answers' : answers'[i] # 0
    BY <1>11, ResultIsCollected
  <2>3. InLine(Returned', {}, InGot, InInbox, InHand, InBox, Limit)
    BY <1>0, <2>2 DEF InLine, Ahead
  <2> QED BY <1>0, <1>11, <2>1, <2>2, <2>3, SameStages, Untouched
<1> QED BY <1>1, <1>2, <1>3, <1>4, <1>5, <1>6, <1>7, <1>8, <1>9, <1>10, <1>11, Effects

LEMMA StaleNext == TypeInv /\ PipeInv /\ StaleInv /\ [Next]_vars => StaleInv'
<1> SUFFICES ASSUME TypeInv, PipeInv, StaleInv, [Next]_vars PROVE StaleInv'
  OBVIOUS
<1>0. /\ \A n \in Behind : n \in unanswered \/ (n = sent /\ step # "idle" /\ IsRequest(call))
      /\ StaleInv' <=> \A n \in Behind' :
           n \in unanswered' \/ (n = sent' /\ step' # "idle" /\ IsRequest(call'))
  BY DEF StaleInv, Behind, IsRequest
<1> DEFINE Kept == /\ Behind' \subseteq Behind
                   /\ unanswered' = unanswered /\ sent' = sent /\ call' = call
                   /\ step' = "idle" <=> step = "idle"
<1>1. Kept => StaleInv'
  BY <1>0
<1>2. CASE Quiet
  BY <1>1, <1>2, SameStages DEF Quiet, Behind
<1>3. CASE Dropped
  <2>1. InHand' = {} /\ InBox' \in {InBox, {}}
    BY <1>3, SameStages, EmptyRises DEF Dropped, InBox, InHand, own
  <2> QED BY <1>1, <1>3, <2>1, SameStages DEF Dropped, Behind
<1>4. CASE Taken
  <2>1. InGot' = InMessage(Head(inbox))
    BY <1>4 DEF Taken, InGot, InMessage
  <2>2. InInbox = InInbox' \union InGot'
    BY <1>4, <2>1, InboxShrinks DEF Taken
  <2> QED BY <1>1, <1>4, <2>2, SameStages DEF Taken, Behind
<1>5. CASE ServerTake
  <2> DEFINE n == Head(serverBox)
  <2>1. hand' = n /\ serverBox # <<>> /\ serverBox' = Tail(serverBox)
    BY <1>5 DEF ServerTake
  <2>2. n \in 0..MaxRequests /\ InBox = InBox' \union ({n} \ {0})
    BY <2>1, BoxShrinks
  <2> HIDE DEF n
  <2>3. InHand' = {n} \ {0}
    BY <2>1, <2>2 DEF InHand
  <2> QED BY <1>1, <1>5, <2>2, <2>3, SameStages, Untouched DEF Behind
<1>6. CASE ServerAnswer
  <2>1. InHand' = {}
    BY <1>6 DEF InHand, ServerAnswer
  <2>2. Answer(hand) \in Wire /\ inbox' = Append(inbox, Answer(hand)) /\ hand \in 0..MaxRequests
    BY <1>6 DEF ServerAnswer, Sock!Arrive, Wire, Replies, TypeInv, CallTypes
  <2>3. {numberOf[Answer(hand)]} \ {0} = InHand
    BY <2>2, MessageNumber DEF InHand
  <2>4. Ahead(InInbox, InHand)
    BY DEF PipeInv, InLine, Ahead
  <2>5. InInbox' = InInbox \union InHand
    BY <2>2, <2>3, <2>4, InboxGrows
  <2> QED BY <1>1, <1>6, <2>1, <2>5, SameStages, Untouched DEF Behind
<1>7. CASE StrangerSend
  <2>1. Stray \in Wire /\ inbox' = Append(inbox, Stray)
    BY <1>7 DEF StrangerSend, Sock!Arrive, Wire
  <2>2. {numberOf[Stray]} \ {0} = {} /\ Ahead(InInbox, {})
    BY <2>1, MessageNumber DEF Ahead
  <2>3. InInbox' = InInbox
    BY <2>1, <2>2, InboxGrows
  <2> QED BY <1>1, <1>7, <2>3, SameStages, Untouched DEF Behind
<1>8. ASSUME NEW c \in Calls, Begin(c) PROVE StaleInv'
  <2>1. step = "idle" /\ Behind' = Behind /\ unanswered' = unanswered
    BY <1>8, SameStages, Untouched DEF Begin, Behind
  <2> QED BY <1>0, <2>1
<1>9. CASE Send
  <2>1. step = "send" /\ step' # "idle" /\ serverBox' = Append(serverBox, Number)
    BY <1>9 DEF Send, AfterSend
  <2>2. /\ Number \in 0..MaxRequests /\ {Number} \ {0} \subseteq {Limit} /\ sent \in Nat
        /\ \A n \in {Number} \ {0} : n = sent /\ IsRequest(call)
    BY <2>1, ClientAssumption DEF Number, Limit, TypeInv, CallTypes
  <2>3. Ahead(InBox, {Number} \ {0})
    BY <2>2 DEF PipeInv, InLine, Ahead
  <2>4. InBox' = InBox \union ({Number} \ {0})
    BY <2>1, <2>2, <2>3, BoxGrows
  <2>5. Behind' = Behind \union ({Number} \ {0})
    BY <1>9, <2>4, SameStages, Untouched DEF Behind
  <2> QED BY <1>0, <1>9, <2>1, <2>2, <2>5, Untouched
<1>10. CASE ReturnMessage
  <2>1. InResult' = InGot /\ InGot' = {} /\ step = "receive" /\ step' # "idle"
    BY <1>10, Untouched, NothingCarried DEF ReturnMessage, Leave, InResult, InGot, InMessage
  <2> QED BY <1>1, <1>10, <2>1, SameStages, Untouched DEF Behind
<1>11. CASE SkipMessage
  <2>1. InResult' = InResult /\ InGot' = {} /\ step = "receive" /\ step' = "test"
    BY <1>11, Untouched, NothingCarried DEF SkipMessage, InResult, InGot, InMessage
  <2> QED BY <1>1, <1>11, <2>1, SameStages, Untouched DEF Behind
<1>12. CASE Return
  <2>1. InResult' = {} /\ (IsAnswer(result) => InResult = {result.n})
    BY <1>12, ResultIsCollected
  <2>2. Behind' \subseteq InGot \union InInbox \union InHand \union InBox
    BY <1>12, <2>1, SameStages, Untouched DEF Behind
  <2>3. /\ sent' = sent /\ sent \in Nat
        /\ unanswered' = IF IsRequest(call) /\ ~(IsAnswer(result) /\ result.n = sent)
                         THEN unanswered \union {sent} ELSE unanswered
    BY <1>12 DEF Return, TypeInv, CallTypes
  <2>4. ASSUME NEW n \in Behind', n \notin unanswered' PROVE FALSE
    <3>1. n \in Behind /\ n \notin unanswered
      BY <2>2, <2>3, <2>4 DEF Behind
    <3>2. n = sent /\ IsRequest(call)
      BY <1>0, <3>1
    <3>3. IsAnswer(result) /\ result.n = sent
      BY <2>3, <2>4, <3>2
    <3>4. sent \in InResult /\ sent \in InGot \union InInbox \union InHand \union InBox
      BY <2>1, <2>2, <2>4, <3>2, <3>3
    <3>5. sent < sent
      BY <3>4 DEF PipeInv, InLine, Ahead
    <3> QED BY <2>3, <3>5
  <2> QED BY <1>0, <2>4
<1> QED BY <1>2, <1>3, <1>4, <1>5, <1>6, <1>7, <1>8, <1>9, <1>10, <1>11, <1>12, Effects

LEMMA PingNext == TypeInv /\ PipeInv /\ PingInv /\ [Next]_vars => PingInv'
<1> SUFFICES ASSUME TypeInv, PipeInv, PingInv, [Next]_vars, ~retried, ~retried'
             PROVE  PingInv'
  <2>1. ASSUME [Next]_vars, TypeInv, retried PROVE retried'
    BY <2>1, Effects, Untouched DEF Quiet, Dropped, Taken, Return
  <2> QED BY <2>1 DEF PingInv
<1> USE DEF PingInv, PingOnItsWay
<1>0. Pong' = Pong
  BY DEF Pong, Answer
<1>1. CASE Quiet
  BY <1>0, <1>1 DEF Quiet, Single, Occurs
<1>2. CASE Dropped
  <2>1. \A x : ~Occurs(<<>>, x) /\ Single(<<>>, x)
    BY EmptyOccurs
  <2> QED BY <1>0, <1>2, <2>1 DEF Dropped
<1>3. CASE Taken
  BY <1>0, <1>3, InboxShrinks, NothingCarried DEF Taken
<1>4. CASE ServerTake
  <2>1. /\ hand = -1 /\ hand' = Head(serverBox)
        /\ serverBox # <<>> /\ serverBox' = Tail(serverBox)
    BY <1>4 DEF ServerTake
  <2>2. /\ Occurs(serverBox, 0) <=> Occurs(serverBox', 0) \/ hand' = 0
        /\ Single(serverBox, 0) =>
             Single(serverBox', 0) /\ (hand' = 0 => ~Occurs(serverBox', 0))
    BY <2>1, BoxShrinks
  <2> QED BY <1>0, <1>4, <2>1, <2>2, Untouched
<1>5. CASE ServerAnswer
  <2>1. Answer(hand) \in Wire /\ inbox' = Append(inbox, Answer(hand)) /\ hand \in 0..MaxRequests
    BY <1>5 DEF ServerAnswer, Sock!Arrive, Wire, Replies, TypeInv, CallTypes
  <2>2. {numberOf[Answer(hand)]} \ {0} = InHand /\ (Answer(hand) = Pong <=> hand = 0)
    BY <2>1, MessageNumber DEF InHand, Pong
  <2>3. Ahead(InInbox, {numberOf[Answer(hand)]} \ {0})
    BY <2>2 DEF PipeInv, InLine, Ahead
  <2>4. /\ Occurs(inbox', Pong) <=> Occurs(inbox, Pong) \/ hand = 0
        /\ Single(inbox, Pong) /\ (hand = 0 => ~Occurs(inbox, Pong)) => Single(inbox', Pong)
    BY <2>1, <2>2, <2>3, InboxGrows
  <2>5. hand' = -1
    BY <1>5 DEF ServerAnswer
  <2> QED BY <1>0, <1>5, <2>4, <2>5, Untouched
<1>6. CASE StrangerSend
  <2>1. Stray \in Wire /\ inbox' = Append(inbox, Stray)
    BY <1>6 DEF StrangerSend, Sock!Arrive, Wire
  <2>2. {numberOf[Stray]} \ {0} = {} /\ Stray # Pong
    BY <2>1, MessageNumber
  <2>3. Ahead(InInbox, {numberOf[Stray]} \ {0})
    BY <2>2 DEF Ahead
  <2>4. (Occurs(inbox', Pong) <=> Occurs(inbox, Pong)) /\ (Single(inbox, Pong) => Single(inbox', Pong))
    BY <2>1, <2>2, <2>3, InboxGrows
  <2> QED BY <1>0, <1>6, <2>4, Untouched
<1>7. ASSUME NEW c \in Calls, Begin(c) PROVE PingInv'
  <2>1. step = "idle" /\ step' \in {"send", "top"}
    BY <1>7 DEF Begin
  <2>2. ~PingOnItsWay
    BY <2>1
  <2> QED BY <1>0, <1>7, <2>1, <2>2, Untouched
<1>8. CASE Send
  <2>1. step = "send" /\ serverBox' = Append(serverBox, Number) /\ call' = call
    BY <1>8 DEF Send
  <2>2. /\ call.op \in {"send", "receive", "sendReceive", "connect"} /\ Sends(call)
        /\ IsRequest(call) => sent > 0
    BY <2>1, CallAssumption DEF TypeInv, CallTypes, StepInv
  <2>3. /\ Number \in 0..MaxRequests /\ {Number} \ {0} \subseteq {Limit}
        /\ Number = 0 <=> call.op = "connect"
    BY <2>1, <2>2, ClientAssumption DEF Number, Limit, IsRequest, Sends, TypeInv, CallTypes
  <2>4. Ahead(InBox, {Number} \ {0})
    BY <2>3 DEF PipeInv, InLine, Ahead
  <2>5. /\ Occurs(serverBox', 0) <=> Occurs(serverBox, 0) \/ Number = 0
        /\ Single(serverBox, 0) /\ (Number = 0 => ~Occurs(serverBox, 0)) => Single(serverBox', 0)
    BY <2>1, <2>3, <2>4, BoxGrows
  <2>6. /\ step' \notin {"idle", "send"}
        /\ call.op = "connect" => step' # "return"
    BY <1>8, <2>2 DEF Send, AfterSend
  <2>7. ~PingOnItsWay
    BY <2>1
  <2> QED BY <1>0, <1>8, <2>1, <2>3, <2>5, <2>6, <2>7, Untouched
<1>9. CASE ReturnMessage
  <2>1. /\ got[User] \in Wire /\ result' = got[User] /\ got'[User] = NoDatagram
        /\ result = NoDatagram /\ step' # "idle" /\ step' # "send" /\ step = "receive"
        /\ call.op = "connect" => got[User] = Pong
    BY <1>9, Untouched, PassingIsReply DEF ReturnMessage, Leave
  <2> QED BY <1>0, <1>9, <2>1, NothingCarried, Untouched
<1>10. CASE SkipMessage
  <2>1. result' = result /\ got'[User] = NoDatagram /\ step = "receive" /\ step' = "test"
    BY <1>10, Untouched DEF SkipMessage
  <2> QED BY <1>0, <1>10, <2>1, NothingCarried, Untouched
<1>11. CASE Return
  <2>1. step = "return" /\ result' = NoDatagram /\ step' = "idle"
    BY <1>11 DEF Return
  <2>2. ~PingOnItsWay'
    BY <1>0, <1>11, <2>1, NothingCarried, Untouched
  <2> QED BY <1>0, <1>11, <2>1, <2>2, NothingCarried, Untouched
<1> QED BY <1>1, <1>2, <1>3, <1>4, <1>5, <1>6, <1>7, <1>8, <1>9, <1>10, <1>11, Effects

LEMMA Invariance == Spec => []ClientInv
<1>1. Init => FlowInv
  <2> SUFFICES ASSUME Init PROVE FlowInv
    OBVIOUS
  <2>1. TypeInv
    BY TypeInit
  <2>2. answers = <<>> /\ inbox = <<>> /\ serverBox = <<>> /\ hand = -1 /\ step = "idle"
        /\ result = NoDatagram /\ got[User] = NoDatagram
    BY DEF Init, Sock!SocketInit
  <2>3. /\ Returned = {} /\ InResult = {} /\ InGot = {} /\ InInbox = {} /\ InHand = {} /\ InBox = {}
        /\ Rising(answers, own) /\ Rising(inbox, numberOf) /\ Rising(serverBox, own)
    BY <2>2, EmptyRises, NothingCarried DEF Returned, InResult, InGot, InInbox, InHand, InBox
  <2>4. PipeInv
    BY <2>2, <2>3 DEF PipeInv, InLine, Ahead
  <2>5. StaleInv
    BY <2>3 DEF StaleInv
  <2>6. PingInv
    BY <2>2, EmptyOccurs, NothingCarried DEF PingInv, PingOnItsWay
  <2> QED BY <2>4, <2>5, <2>6 DEF FlowInv
<1>2. ClientInv /\ [Next]_vars => ClientInv'
  BY TypeNext, PipeNext, StaleNext, PingNext DEF ClientInv, FlowInv
<1> QED BY <1>1, <1>2, TypeInit, PTL DEF Spec, ClientInv

-----------------------------------------------------------------------------
(* The theorems                                                            *)

\* The variables of a client, its socket and the server keep their types; every
\* request the server has is one that was sent.
THEOREM ClientTypes == Spec => []TypeOK
<1>1. ClientInv => TypeOK
  <2> SUFFICES ASSUME ClientInv PROVE TypeOK
    OBVIOUS
  <2>1. TypeInv /\ PipeInv /\ MaxRequests \in Nat
    BY ClientAssumption DEF ClientInv, FlowInv
  <2>2. Limit \in Nat /\ Limit <= sent + 1 /\ sent \in 0..MaxRequests
    BY <2>1, StageTypes DEF Limit, TypeInv, CallTypes
  <2>3. \A n \in InHand \union InBox : n \in Nat /\ n <= sent
    BY <2>1, <2>2, StageTypes DEF PipeInv, InLine, Ahead
  <2>4. hand \in -1..sent
    <3>1. hand \in -1..MaxRequests
      BY <2>1 DEF TypeInv, CallTypes
    <3>2. hand \notin {-1, 0} => hand <= sent
      BY <2>3 DEF InHand
    <3> QED BY <2>1, <2>2, <3>1, <3>2
  <2>5. ToSet(serverBox) \subseteq 0..sent
    <3>1. ASSUME NEW i \in DOMAIN serverBox PROVE serverBox[i] \in 0..sent
      <4>1. serverBox[i] \in 0..MaxRequests
        BY <2>1 DEF TypeInv, CallTypes
      <4>2. serverBox[i] # 0 => serverBox[i] \in InBox
        BY <4>1 DEF InBox, Numbers, own
      <4> QED BY <2>2, <2>3, <4>1, <4>2
    <3> QED BY <3>1 DEF ToSet
  <2>6. unanswered \subseteq 1..MaxRequests
    BY <2>1, <2>2 DEF TypeInv, CallTypes
  <2> QED BY <2>1, <2>2, <2>4, <2>5, <2>6 DEF TypeInv, SocketInv, CallTypes, TypeOK
<1> QED BY <1>1, Invariance, PTL

\* A deadline is infinite only if the caller said so, and poll() waits without end only
\* if it is.
WaitInv ==
  /\ step \in {"top", "receive", "test"} =>
       (deadline = "never" => call.op # "connect" /\ ~Timed(call))
  /\ step = "receive" /\ timeout = "infinite" => deadline = "never"

LEMMA DeadlinesAreKept ==
  /\ \A timeoutMs : DeadlineOf(timeoutMs) = "never" => timeoutMs = INFINITE_TIMEOUT
  /\ DeadlineOf(pingTimeout) # "never"
  /\ \A d \in Distances : Nearer(d) = "never" <=> d = "never"
  /\ \A d \in Distances : getRemainingTimeMs(d) = "infinite" => d = "never"
BY DEF DeadlineOf, pingTimeout, INFINITE_TIMEOUT, Distances, Nearer, getRemainingTimeMs

LEMMA WaitNext == TypeInv /\ WaitInv /\ [Next]_vars => WaitInv'
<1> SUFFICES ASSUME TypeInv, WaitInv, [Next]_vars PROVE WaitInv'
  OBVIOUS
<1> USE DeadlinesAreKept DEF WaitInv, Timed
<1>1. CASE UNCHANGED vars
  BY <1>1 DEF vars
<1>2. CASE ServerStep \/ ServerStop \/ ServerStart \/ StrangerSend
  BY <1>2 DEF ServerStep, ServerTake, ServerAnswer, ServerSilent, ServerStop, ServerStart,
              StrangerSend
<1>3. ASSUME NEW c \in Calls, Begin(c) PROVE WaitInv'
  BY <1>3 DEF Begin, Sends
<1>4. CASE Send \/ SendFail \/ SendLost
  <2>1. \E failed \in BOOLEAN : AfterSend(failed)
    BY <1>4 DEF Send, SendFail, SendLost
  <2>2. call' = call /\ timeout' = timeout
    BY <1>4 DEF Send, SendFail, SendLost
  <2>3. call \in Calls
    BY <1>4 DEF Send, SendFail, SendLost, TypeInv, CallTypes
  <2> QED BY <2>1, <2>2, <2>3, CallAssumption DEF AfterSend, TypeInv, StepInv, Sends
<1>5. CASE LoopTop
  BY <1>5 DEF LoopTop, TypeInv, CallTypes
<1>6. CASE PollTimeout \/ SocketReceive \/ Interrupt \/ ReceiveNothing \/ ReturnMessage
           \/ SkipMessage \/ LoopTest
  BY <1>6 DEF PollTimeout, SocketReceive, Interrupt, ReceiveNothing, ReturnMessage,
              SkipMessage, LoopTest, Leave
<1>7. CASE Retry \/ Return
  BY <1>7 DEF Retry, Return
<1>8. CASE Elapse
  BY <1>8 DEF Elapse, TypeInv, CallTypes
<1> QED BY <1>1, <1>2, <1>3, <1>4, <1>5, <1>6, <1>7, <1>8 DEF Next, Step

\* The socket has what recvfrom() takes, and poll() waits without end only if the caller
\* of receive() or sendReceive() said so.
THEOREM ClientKeepsToItsTime == Spec => []HeldOnlyWithoutTimeout
<1>1. Init => WaitInv
  BY DEF Init, WaitInv
<1>2. TypeInv /\ WaitInv => HeldOnlyWithoutTimeout
  BY DEF TypeInv, SocketInv, StepInv, WaitInv, Held, HeldOnlyWithoutTimeout
<1> QED BY <1>1, <1>2, TypeInit, TypeNext, WaitNext, PTL DEF Spec

\* Answers reach the caller in the order of the requests, each at most once and
\* only those to requests that were sent, whatever calls of send(), receive(),
\* sendReceive() and connect() gave up before and whatever the network lost.
THEOREM AnswersKeepTheirOrder == Spec => []AnswersInOrder
<1>1. ClientInv => AnswersInOrder
  <2> SUFFICES ASSUME ClientInv PROVE AnswersInOrder
    OBVIOUS
  <2>1. TypeInv /\ PipeInv
    BY DEF ClientInv, FlowInv
  <2>2. Limit \in Nat /\ Limit <= sent + 1 /\ sent \in Nat
    BY <2>1, StageTypes DEF Limit
  <2>3. ASSUME NEW i \in DOMAIN answers
        PROVE  answers[i] \in 1..sent /\ own[answers[i]] = answers[i]
    <3>1. answers[i] \in 0..MaxRequests /\ answers[i] # 0
      <4> DEFINE S == 0..MaxRequests
      <4>1. answers \in Seq(S)
        BY <2>1 DEF TypeInv, CallTypes
      <4> HIDE DEF S
      <4>2. answers[i] \in S
        BY <4>1
      <4> QED BY <2>1, <4>2 DEF PipeInv, S
    <3>2. own[answers[i]] = answers[i]
      BY <3>1 DEF own
    <3>3. answers[i] \in Returned
      BY <3>1, <3>2 DEF Returned, Numbers
    <3>4. answers[i] < Limit
      BY <2>1, <3>3 DEF PipeInv, InLine, Ahead
    <3> QED BY <2>2, <3>1, <3>2, <3>4
  <2>4. Rising(answers, own)
    BY <2>1 DEF PipeInv
  <2> QED BY <2>3, <2>4 DEF Rising, AnswersInOrder
<1> QED BY <1>1, Invariance, PTL

\* sendReceive() returns the answer to an earlier request only when that request's
\* own call ended without it, and a stale answer to a ping comes only after an
\* attempt of connect() that failed: one that succeeds at once leaves nothing behind.
THEOREM StaleAnswersHaveACause == Spec => []StaleOnlyAfterTimeout
<1>1. ClientInv => StaleOnlyAfterTimeout
  <2> SUFFICES ASSUME ClientInv, step = "return", call.op # "connect", result # NoDatagram
               PROVE  IF IsAnswer(result)
                      THEN call.op = "sendReceive" => result.n = sent \/ result.n \in unanswered
                      ELSE retried
    BY DEF StaleOnlyAfterTimeout
  <2>1. TypeInv /\ StaleInv /\ PingInv /\ MaxRequests \in Nat
    BY ClientAssumption DEF ClientInv, FlowInv
  <2>2. PICK n \in 0..MaxRequests : result = Answer(n)
    BY <2>1 DEF TypeInv, CallTypes, Replies
  <2>3. CASE IsAnswer(result)
    <3>1. n \in 1..MaxRequests /\ result.n = n
      BY <2>1, <2>2, <2>3, Fields DEF IsAnswer, IPC_PING_RSP, RESPONSE
    <3>2. n \in InResult
      BY <3>1 DEF InResult, InMessage
    <3>3. n \in unanswered \/ n = sent
      BY <2>1, <3>2 DEF StaleInv
    <3> QED BY <2>3, <3>1, <3>3
  <2>4. CASE ~IsAnswer(result)
    <3>1. result = Pong
      BY <2>1, <2>2, <2>4, Fields DEF IsAnswer, Pong, IPC_PING_RSP, RESPONSE
    <3>2. retried
      BY <2>1, <3>1 DEF PingInv, PingOnItsWay, TypeInv, CallTypes
    <3> QED BY <2>4, <3>2
  <2> QED BY <2>3, <2>4
<1> QED BY <1>1, Invariance, PTL

-----------------------------------------------------------------------------
(* What a client promises of its calls                                     *)

\* A send has no deadline yet, and poll() returns at once only when there is no time left.
DueInv ==
  /\ step = "send" => deadline = "never"
  /\ step = "receive" /\ timeout = "zero" => deadline \in {"near", "past"}

LEMMA DeadlinesComeNear ==
  /\ \A d \in Distances : getRemainingTimeMs(d) = "zero" => d \in {"near", "past"}
  /\ \A d \in Distances : Nearer(d) = "never" <=> d = "never"
  /\ \A d \in {"near", "past"} : Nearer(d) \in {"near", "past"}
BY DEF Distances, getRemainingTimeMs, Nearer

LEMMA DueNext == TypeInv /\ DueInv /\ [Next]_vars => DueInv'
<1> SUFFICES ASSUME TypeInv, DueInv, [Next]_vars PROVE DueInv'
  OBVIOUS
<1> USE DEF DueInv
<1>1. CASE UNCHANGED vars
  BY <1>1 DEF vars
<1>2. CASE ServerStep \/ ServerStop \/ ServerStart \/ StrangerSend
  BY <1>2 DEF ServerStep, ServerTake, ServerAnswer, ServerSilent, ServerStop, ServerStart,
              StrangerSend
<1>3. ASSUME NEW c \in Calls, Begin(c) PROVE DueInv'
  BY <1>3 DEF Begin
<1>4. CASE Send \/ SendFail \/ SendLost
  <2>1. PICK failed \in BOOLEAN : AfterSend(failed)
    BY <1>4 DEF Send, SendFail, SendLost
  <2>2. step' \notin {"send", "receive"}
    BY <2>1 DEF AfterSend
  <2> QED BY <2>2
<1>5. CASE LoopTop
  BY <1>5, DeadlinesComeNear DEF LoopTop, TypeInv, CallTypes
<1>6. CASE PollTimeout \/ SocketReceive \/ Interrupt
  BY <1>6 DEF PollTimeout, SocketReceive, Interrupt
<1>7. CASE ReceiveNothing \/ ReturnMessage \/ SkipMessage \/ LoopTest
  BY <1>7 DEF ReceiveNothing, ReturnMessage, SkipMessage, LoopTest, Leave
<1>8. CASE Retry \/ Return
  BY <1>8 DEF Retry, Return
<1>9. CASE Elapse
  BY <1>9, DeadlinesComeNear DEF Elapse, TypeInv, CallTypes
<1> QED BY <1>1, <1>2, <1>3, <1>4, <1>5, <1>6, <1>7, <1>8, <1>9 DEF Next, Step

\* The instance has its own copies of the operators it extends.
LEMMA SameOperators ==
  /\ \A d : Promised!Wanted(d) = Passes(d)
  /\ \A ms : Promised!DeadlineOf(ms) = DeadlineOf(ms)
  /\ \A d : Promised!Nearer(d) = Nearer(d)
  /\ \A d : Promised!isExpired(d) = isExpired(d)
  /\ \A c : Promised!IsRequest(c) = IsRequest(c)
  /\ Promised!Sent = Append(serverBox, Number)
BY DEF Promised!Wanted, Promised!Selected, Promised!IPC_PING_RSP, Promised!Matches,
       Promised!matchesFrom, Promised!matchesSignalSelector, Promised!SameIdentifier,
       Promised!isEqual, Promised!AnyFrom, Promised!DeadlineOf, Promised!INFINITE_TIMEOUT,
       Promised!Nearer, Promised!isExpired, Promised!IsRequest, Promised!Sent, Passes, sigsel,
       IPC_PING_RSP, Matches, matchesFrom, matchesSignalSelector, SameIdentifier, isEqual,
       AnyFrom, DeadlineOf, INFINITE_TIMEOUT, Nearer, isExpired, IsRequest, Number

Waiting == {"top", "receive", "test"}
Unanswered == IF call.op = "connect" THEN "retry" ELSE "return"

\* What is seen of a call when receive() of the socket has not returned, and when it has.
SeenWhen ==
  /\ ~Done => /\ SeenPhase = IF step \in Waiting THEN "wait" ELSE step
              /\ SeenResult = result
  /\ Done /\ ret[User] \in Int =>
       /\ ret[User] = 0 => SeenPhase = Unanswered /\ SeenResult = result
       /\ ret[User] < 0 => SeenPhase = "failed" /\ SeenResult = result
       /\ ret[User] > 0 =>
            IF Passes(got[User]) THEN SeenPhase = "return" /\ SeenResult = got[User]
                                 ELSE SeenPhase = "wait" /\ SeenResult = result

LEMMA Seen == SeenWhen /\ SeenWhen'
<1>1. ~Done => /\ SeenPhase = IF step \in Waiting THEN "wait" ELSE step
               /\ SeenResult = result
  BY DEF SeenPhase, SeenResult, Found, Done, Waiting
<1>2. ASSUME Done, ret[User] \in Int
      PROVE  /\ ret[User] = 0 => SeenPhase = Unanswered /\ SeenResult = result
             /\ ret[User] < 0 => SeenPhase = "failed" /\ SeenResult = result
             /\ ret[User] > 0 =>
                  IF Passes(got[User]) THEN SeenPhase = "return" /\ SeenResult = got[User]
                                       ELSE SeenPhase = "wait" /\ SeenResult = result
  BY <1>2 DEF SeenPhase, SeenResult, Found, Done, Waiting, Unanswered
<1>3. SeenWhen
  BY <1>1, <1>2 DEF SeenWhen
<1> QED BY <1>3, PTL

\* Nothing is seen of a step that leaves the call and its message alone.
LEMMA SeenAside ==
  ASSUME UNCHANGED <<step, at, ret, got, call, result>>
  PROVE  SeenPhase' = SeenPhase /\ SeenResult' = SeenResult
BY DEF SeenPhase, SeenResult, Found, Done, Passes, sigsel

\* Where receive() of the socket is after one of its system calls.
LEMMA SocketReturns ==
  ASSUME SocketInv
  PROVE  /\ (\/ Sock!PollEnter(User) \/ Sock!PollReady(User) \/ Sock!Ioctl(User)
             \/ Sock!RecvEnter(User))
            => at[User] # "done" /\ at'[User] # "done"
         /\ Sock!PollTimeout(User) => at[User] # "done" /\ at'[User] = "done" /\ ret'[User] = 0
         /\ Sock!Interrupted(User) =>
              at[User] # "done" /\ at'[User] = "done" /\ ret'[User] \in {-2, -4}
         /\ Sock!RecvDatagram(User) =>
              /\ at[User] # "done" /\ at'[User] = "done"
              /\ ret'[User] \in Int /\ ret'[User] > 0
<1>1. User \in {User} /\ at \in [{User} -> SocketLabels] /\ ret \in [{User} -> Int]
  BY DEF SocketInv
<1>2. ASSUME Sock!PollEnter(User) \/ Sock!PollReady(User) \/ Sock!Ioctl(User)
             \/ Sock!RecvEnter(User)
      PROVE  at[User] # "done" /\ at'[User] # "done"
  BY <1>1, <1>2 DEF Sock!PollEnter, Sock!PollReady, Sock!Ioctl, Sock!RecvEnter, Sock!Goto
<1>3. Sock!PollTimeout(User) => at[User] # "done" /\ at'[User] = "done" /\ ret'[User] = 0
  BY <1>1 DEF Sock!PollTimeout, Sock!Return
<1>4. Sock!Interrupted(User) => at[User] # "done" /\ at'[User] = "done" /\ ret'[User] \in {-2, -4}
  BY <1>1 DEF Sock!Interrupted, Sock!Return
<1>5. ASSUME Sock!RecvDatagram(User)
      PROVE  /\ at[User] # "done" /\ at'[User] = "done"
             /\ ret'[User] \in Int /\ ret'[User] > 0
  <2>1. at[User] = "receiving" /\ inbox # <<>> /\ Head(inbox) \in Wire
    BY <1>5 DEF Sock!RecvDatagram, SocketInv
  <2>2. SocketInv' /\ got'[User] = Head(inbox) /\ Head(inbox) # NoDatagram
    BY <1>5, <2>1, SocketSteps, Fields
  <2> QED BY <2>1, <2>2 DEF SocketInv
<1> QED BY <1>2, <1>3, <1>4, <1>5

\* Of the system calls of receive() only the last one is seen, which takes a datagram or
\* fails, and a poll that ends with nothing.
LEMMA SocketIsPromised ==
  ASSUME TypeInv, DueInv, PollTimeout \/ SocketReceive \/ Interrupt
  PROVE  [Promised!Next]_(Promised!vars)
<1>0. SocketInv /\ SeenWhen /\ SeenWhen'
  BY Seen DEF TypeInv
<1>1. /\ step = "receive" /\ result = NoDatagram
      /\ UNCHANGED <<serverBox, call, step, outer, deadline, result, sent>>
  BY DEF TypeInv, StepInv, PollTimeout, SocketReceive, Interrupt, serverVars
<1>2. Unanswered = Promised!Unanswered /\ Unanswered' = Unanswered
  BY <1>1 DEF Unanswered, Promised!Unanswered
<1>3. CASE PollTimeout
  <2>1. Sock!PollTimeout(User) /\ deadline \in {"near", "past"}
    BY <1>1, <1>3 DEF PollTimeout, DueInv
  <2>2. at[User] # "done" /\ at'[User] = "done" /\ ret'[User] = 0 /\ inbox' = inbox
    BY <1>0, <2>1, SocketReturns, SocketSteps
  <2>3. ~Done /\ Done' /\ ret'[User] = 0
    BY <1>1, <2>2 DEF Done
  <2>4. SeenPhase = "wait" /\ SeenPhase' = Unanswered /\ SeenResult' = SeenResult
    BY <1>0, <1>1, <1>2, <2>3 DEF SeenWhen, Waiting
  <2>5. Promised!GiveUp
    BY <1>1, <1>2, <2>1, <2>2, <2>4 DEF Promised!GiveUp, Promised!deadlines
  <2> QED BY <2>5 DEF Promised!Next
<1>4. CASE Interrupt
  <2>1. at[User] # "done" /\ at'[User] = "done" /\ ret'[User] \in {-2, -4} /\ inbox' = inbox
    BY <1>0, <1>4, SocketReturns, SocketSteps DEF Interrupt
  <2>2. ~Done /\ Done' /\ ret'[User] \in Int /\ ret'[User] < 0
    BY <1>1, <2>1 DEF Done
  <2>3. SeenPhase = "wait" /\ SeenPhase' = "failed" /\ SeenResult' = SeenResult
    BY <1>0, <1>1, <2>2 DEF SeenWhen, Waiting
  <2>4. Promised!Fail
    BY <1>1, <2>1, <2>3 DEF Promised!Fail, Promised!deadlines
  <2> QED BY <2>4 DEF Promised!Next
<1>5. CASE SocketReceive /\ Sock!RecvDatagram(User)
  <2>1. /\ at[User] # "done" /\ at'[User] = "done" /\ ret'[User] \in Int /\ ret'[User] > 0
        /\ inbox # <<>> /\ inbox' = Tail(inbox) /\ got'[User] = Head(inbox)
    BY <1>0, <1>5, SocketReturns, SocketSteps
  <2>2. ~Done /\ Done'
    BY <1>1, <2>1 DEF Done
  <2>3. Passes(got[User])' = Passes(Head(inbox))
    BY <1>1, <2>1 DEF Passes, sigsel
  <2>4. SeenPhase = "wait" /\ SeenResult = result
    BY <1>0, <1>1, <2>2 DEF SeenWhen, Waiting
  <2>5. Promised!Taken
    BY <1>1, <2>1, <2>4 DEF Promised!Taken, Promised!deadlines
  <2>6. CASE Passes(Head(inbox))
    <3>1. SeenPhase' = "return" /\ SeenResult' = Head(inbox)
      BY <1>0, <2>1, <2>2, <2>3, <2>6 DEF SeenWhen
    <3>2. Promised!Answered
      BY <2>5, <2>6, <3>1, SameOperators DEF Promised!Answered
    <3> QED BY <3>2 DEF Promised!Next
  <2>7. CASE ~Passes(Head(inbox))
    <3>1. SeenPhase' = "wait" /\ SeenResult' = result
      BY <1>0, <1>1, <2>1, <2>2, <2>3, <2>7 DEF SeenWhen
    <3>2. Promised!Skip
      BY <2>4, <2>5, <2>7, <3>1, SameOperators DEF Promised!Skip
    <3> QED BY <3>2 DEF Promised!Next
  <2> QED BY <2>6, <2>7
<1>6. CASE SocketReceive /\ ~Sock!RecvDatagram(User)
  <2>1. at[User] # "done" /\ at'[User] # "done" /\ inbox' = inbox
    BY <1>0, <1>6, SocketReturns, SocketSteps DEF SocketReceive
  <2>2. ~Done /\ ~Done'
    BY <2>1 DEF Done
  <2>3. SeenPhase' = SeenPhase /\ SeenResult' = SeenResult
    BY <1>0, <1>1, <2>2 DEF SeenWhen
  <2> QED BY <1>1, <2>1, <2>3 DEF Promised!vars, Promised!deadlines
<1> QED BY <1>3, <1>4, <1>5, <1>6

\* Once it is decided how a wait goes on, the client only follows: of the steps of its
\* loops the caller sees that the time is up.
LEMMA LoopIsPromised ==
  ASSUME TypeInv,
         LoopTop \/ ReceiveNothing \/ ReturnMessage \/ SkipMessage \/ LoopTest
  PROVE  [Promised!Next]_(Promised!vars)
<1>0. /\ SocketInv /\ StepInv /\ SeenWhen /\ SeenWhen'
      /\ ret[User] \in Int
  BY Seen DEF TypeInv, SocketInv
<1>1. UNCHANGED <<inbox, serverBox, call, sent, outer, deadline>>
  BY <1>0, SocketSteps
  DEF LoopTop, ReceiveNothing, ReturnMessage, SkipMessage, LoopTest, serverVars, socketVars
<1>2. SeenPhase' = SeenPhase /\ SeenResult' = SeenResult => UNCHANGED Promised!vars
  BY <1>1 DEF Promised!vars, Promised!deadlines
<1>3. CASE LoopTop
  <2>1. at'[User] = "poll" /\ step = "top" /\ step' = "receive" /\ result' = result
    BY <1>0, <1>3, SocketSteps DEF LoopTop
  <2>2. ~Done /\ ~Done'
    BY <2>1 DEF Done
  <2> QED BY <1>0, <1>2, <2>1, <2>2 DEF SeenWhen, Waiting
<1>4. ASSUME ReceiveNothing \/ ReturnMessage \/ SkipMessage
      PROVE  Done /\ ~Done' /\ result = NoDatagram
  BY <1>0, <1>4, SocketSteps DEF ReceiveNothing, ReturnMessage, SkipMessage, Done, StepInv
<1>5. CASE ReceiveNothing
  <2>1. ret[User] <= 0 /\ result' = NoDatagram /\ step' = Unanswered
    BY <1>5 DEF ReceiveNothing, Leave, Unanswered
  <2>2. SeenPhase' = Unanswered /\ SeenResult' = NoDatagram
    BY <1>0, <1>4, <1>5, <2>1 DEF SeenWhen, Waiting, Unanswered
  <2>3. CASE ret[User] = 0
    <3>1. SeenPhase = Unanswered /\ SeenResult = NoDatagram
      BY <1>0, <1>4, <1>5, <2>3 DEF SeenWhen
    <3> QED BY <1>2, <2>2, <3>1
  <2>4. CASE ret[User] < 0
    <3>1. SeenPhase = "failed" /\ SeenResult = NoDatagram
      BY <1>0, <1>4, <1>5, <2>4 DEF SeenWhen
    <3>2. Promised!Fail
      BY <1>1, <2>2, <3>1
      DEF Promised!Fail, Promised!deadlines, Promised!Unanswered, Unanswered
    <3> QED BY <3>2 DEF Promised!Next
  <2> QED BY <1>0, <2>1, <2>3, <2>4
<1>6. CASE ReturnMessage
  <2>1. ret[User] > 0 /\ Passes(got[User]) /\ result' = got[User] /\ got[User] # NoDatagram
    BY <1>0, <1>6 DEF ReturnMessage, Leave, SocketInv
  <2>2. step' = "return"
    BY <1>6, <2>1 DEF ReturnMessage, Leave
  <2>3. SeenPhase = "return" /\ SeenResult = got[User]
    BY <1>0, <1>4, <1>6, <2>1 DEF SeenWhen
  <2>4. SeenPhase' = "return" /\ SeenResult' = got[User]
    BY <1>0, <1>4, <1>6, <2>1, <2>2 DEF SeenWhen, Waiting
  <2> QED BY <1>2, <2>3, <2>4
<1>7. CASE SkipMessage
  <2>1. ret[User] > 0 /\ ~Passes(got[User]) /\ step' = "test" /\ result' = result
    BY <1>7 DEF SkipMessage
  <2>2. SeenPhase = "wait" /\ SeenResult = result
    BY <1>0, <1>4, <1>7, <2>1 DEF SeenWhen
  <2>3. SeenPhase' = "wait" /\ SeenResult' = result
    BY <1>0, <1>4, <1>7, <2>1 DEF SeenWhen, Waiting
  <2> QED BY <1>2, <2>2, <2>3
<1>8. CASE LoopTest
  <2>1. step = "test" /\ result = NoDatagram
    BY <1>0, <1>8 DEF LoopTest, StepInv
  <2>2. SeenPhase = "wait" /\ SeenResult = NoDatagram
    BY <1>0, <2>1 DEF SeenWhen, Waiting, Done
  <2>3. CASE isExpired(deadline)
    <3>1. step' = Unanswered /\ result' = NoDatagram /\ deadline = "past"
      BY <1>8, <2>3 DEF LoopTest, Leave, Unanswered, isExpired
    <3>2. SeenPhase' = Unanswered /\ SeenResult' = NoDatagram
      BY <1>0, <3>1 DEF SeenWhen, Waiting, Done, Unanswered
    <3>3. Promised!GiveUp
      BY <1>1, <2>2, <3>1, <3>2
      DEF Promised!GiveUp, Promised!deadlines, Promised!Unanswered, Unanswered
    <3> QED BY <3>3 DEF Promised!Next
  <2>4. CASE ~isExpired(deadline)
    <3>1. step' = "top" /\ result' = NoDatagram
      BY <1>8, <2>1, <2>4 DEF LoopTest
    <3>2. SeenPhase' = "wait" /\ SeenResult' = NoDatagram
      BY <1>0, <3>1 DEF SeenWhen, Waiting, Done
    <3> QED BY <1>2, <2>2, <3>2
  <2> QED BY <2>3, <2>4
<1> QED BY <1>3, <1>5, <1>6, <1>7, <1>8

\* A call begins, sends and ends as ClientCalls says.
LEMMA CallIsPromised ==
  ASSUME TypeInv, DueInv,
         \/ \E c \in Calls : Begin(c)
         \/ Send \/ SendFail \/ SendLost \/ Retry \/ Return \/ Elapse
  PROVE  Promised!Next
<1>0. SeenWhen /\ SeenWhen' /\ CallTypes /\ StepInv /\ inbox' = inbox
  BY Seen DEF TypeInv, Begin, Send, SendFail, SendLost, Retry, Return, Elapse, socketVars
<1> USE SameOperators DEF Promised!deadlines
<1>1. CASE Elapse
  <2>1. SeenPhase' = SeenPhase /\ SeenResult' = SeenResult
    BY <1>1, SeenAside DEF Elapse, socketVars
  <2>2. step # "idle" /\ call \in Calls
    BY <1>0, <1>1 DEF Elapse, CallTypes
  <2>3. SeenPhase # "idle"
    BY <2>2 DEF SeenPhase
  <2>4. /\ outer' \in {outer, Nearer(outer)} /\ deadline' \in {deadline, Nearer(deadline)}
        /\ UNCHANGED <<serverBox, call, sent>>
    BY <1>1 DEF Elapse, serverVars
  <2> QED BY <1>0, <2>1, <2>3, <2>4 DEF Promised!Elapse, Promised!Next
<1>2. ASSUME ~Elapse PROVE step \in {"idle", "send", "retry", "return"} /\ at'[User] = at[User]
  BY <1>2 DEF Begin, Send, SendFail, SendLost, Retry, Return, socketVars
<1>3. ASSUME ~Elapse
      PROVE  /\ SeenPhase = step /\ SeenResult = result
             /\ SeenPhase' = IF step' \in Waiting THEN "wait" ELSE step'
             /\ SeenResult' = result'
  <2>1. ~Done /\ ~Done'
    BY <1>0, <1>2, <1>3 DEF Done, StepInv
  <2> QED BY <1>0, <1>2, <1>3, <2>1 DEF SeenWhen, Waiting
<1>4. ASSUME NEW c \in Calls, Begin(c), ~Elapse PROVE Promised!Begin(c)
  <2>1. /\ step = "idle" /\ step' = IF c.op = "receive" THEN "top" ELSE "send"
        /\ call' = c /\ sent' = IF IsRequest(c) THEN sent + 1 ELSE sent
        /\ outer' = IF c.op = "connect" THEN DeadlineOf(c.timeoutMs) ELSE "never"
        /\ deadline' = IF c.op = "receive" THEN DeadlineOf(c.timeoutMs) ELSE "never"
        /\ UNCHANGED <<serverBox, result>>
    BY <1>4 DEF Begin, Sends, serverVars
  <2>2. /\ SeenPhase = "idle" /\ SeenResult' = SeenResult
        /\ SeenPhase' = IF c.op = "receive" THEN "wait" ELSE "send"
    BY <1>3, <1>4, <2>1 DEF Waiting
  <2> QED BY <1>0, <2>1, <2>2 DEF Promised!Begin
<1>5. ASSUME Send \/ SendFail \/ SendLost, ~Elapse PROVE Promised!Send \/ Promised!SendFails
  <2>1. /\ step = "send" /\ deadline = "never"
        /\ call.op \in {"send", "sendReceive", "connect"}
        /\ UNCHANGED <<call, sent, outer, result>>
    <3>1. step = "send" /\ UNCHANGED <<call, sent, outer, result>>
      BY <1>5 DEF Send, SendFail, SendLost
    <3>2. call \in Calls /\ Sends(call)
      BY <1>0, <3>1 DEF CallTypes, StepInv
    <3> QED BY <3>1, <3>2, CallAssumption DEF Sends, DueInv
  <2>2. SeenPhase = "send" /\ SeenResult' = SeenResult
    BY <1>3, <1>5, <2>1
  <2>3. ASSUME AfterSend(FALSE), serverBox' \in {Append(serverBox, Number), serverBox}
        PROVE  Promised!Send
    <3>1. CASE call.op = "send"
      <4>1. step' = "return" /\ deadline' = deadline
        BY <2>1, <2>3, <3>1 DEF AfterSend
      <4>2. SeenPhase' = "return"
        BY <1>3, <1>5, <4>1 DEF Waiting
      <4> QED BY <1>0, <2>1, <2>2, <2>3, <3>1, <4>1, <4>2 DEF Promised!Send
    <3>2. CASE call.op # "send"
      <4>1. /\ step' = "top"
            /\ deadline' = DeadlineOf(IF call.op = "connect" THEN 100 ELSE call.timeoutMs)
        BY <2>1, <2>3, <3>2 DEF AfterSend, pingTimeout
      <4>2. SeenPhase' = "wait"
        BY <1>3, <1>5, <4>1 DEF Waiting
      <4> QED BY <1>0, <2>1, <2>2, <2>3, <3>2, <4>1, <4>2
           DEF Promised!Send, Promised!PingTimeout
    <3> QED BY <3>1, <3>2
  <2>4. ASSUME AfterSend(TRUE), serverBox' = serverBox PROVE Promised!SendFails
    <3>1. step' = Promised!Unanswered /\ deadline' = deadline
      BY <2>1, <2>4 DEF AfterSend, Promised!Unanswered
    <3>2. SeenPhase' = Promised!Unanswered
      BY <1>3, <1>5, <3>1 DEF Waiting, Promised!Unanswered
    <3> QED BY <1>0, <2>1, <2>2, <2>4, <3>1, <3>2 DEF Promised!SendFails
  <2> QED BY <1>5, <2>3, <2>4 DEF Send, SendFail, SendLost, serverVars
<1>6. ASSUME Retry, ~Elapse PROVE Promised!Retry
  <2>1. /\ step = "retry" /\ step' = IF isExpired(outer) THEN "return" ELSE "send"
        /\ deadline' = "never" /\ UNCHANGED <<serverBox, call, sent, outer, result>>
    BY <1>6 DEF Retry, serverVars
  <2>2. SeenPhase = "retry" /\ SeenPhase' = step' /\ SeenResult' = SeenResult
    BY <1>3, <1>6, <2>1 DEF Waiting
  <2> QED BY <1>0, <2>1, <2>2 DEF Promised!Retry
<1>7. ASSUME Return, ~Elapse PROVE Promised!Return
  <2>1. /\ step = "return" /\ step' = "idle" /\ call' = NoCall /\ result' = NoDatagram
        /\ outer' = "never" /\ deadline' = "never" /\ UNCHANGED <<serverBox, sent>>
    BY <1>7 DEF Return, serverVars
  <2>2. SeenPhase = "return" /\ SeenPhase' = "idle" /\ SeenResult' = NoDatagram
    BY <1>3, <1>7, <2>1 DEF Waiting
  <2> QED BY <1>0, <2>1, <2>2 DEF Promised!Return
<1> QED BY <1>1, <1>4, <1>5, <1>6, <1>7 DEF Promised!Next

\* What the others do, the client is not asked about.
LEMMA OthersArePromised ==
  ASSUME TypeInv, ServerStep \/ ServerStop \/ ServerStart \/ StrangerSend
  PROVE  [Promised!Next]_(Promised!vars)
<1>0. /\ UNCHANGED <<step, at, ret, got, call, result, sent, outer, deadline>>
      /\ CallTypes
  BY DEF TypeInv, ServerStep, ServerTake, ServerAnswer, ServerSilent, ServerStop, ServerStart,
         StrangerSend, Sock!Arrive, Sock!callVars, socketVars
<1>1. SeenPhase' = SeenPhase /\ SeenResult' = SeenResult
  BY <1>0, SeenAside
<1> USE DEF Promised!deadlines
<1>2. CASE ServerTake \/ ServerStop
  <2>1. Promised!ServerTakes
    BY <1>0, <1>1, <1>2 DEF ServerTake, ServerStop, socketVars, Promised!ServerTakes
  <2> QED BY <2>1 DEF Promised!Next
<1>3. CASE ServerSilent \/ ServerStart
  BY <1>0, <1>1, <1>3 DEF ServerSilent, ServerStart, socketVars, Promised!vars
<1>4. ASSUME NEW m \in Wire, Sock!Arrive(m), serverBox' = serverBox
      PROVE  Promised!Next
  <2>1. Promised!Arrive(m)
    BY <1>0, <1>1, <1>4 DEF Sock!Arrive, Promised!Arrive
  <2> QED BY <2>1 DEF Promised!Next, Wire, Replies
<1>5. CASE ServerAnswer
  <2>1. hand \in 0..MaxRequests
    BY <1>0, <1>5, ClientAssumption DEF ServerAnswer, CallTypes
  <2>2. Answer(hand) \in Wire
    BY <2>1 DEF Wire, Replies
  <2> QED BY <1>4, <1>5, <2>2 DEF ServerAnswer
<1>6. CASE StrangerSend
  BY <1>4, <1>6 DEF StrangerSend, serverVars, Wire
<1> QED BY <1>2, <1>3, <1>5, <1>6 DEF ServerStep

LEMMA StepIsPromised ==
  ASSUME TypeInv, DueInv, [Next]_vars
  PROVE  [Promised!Next]_(Promised!vars)
<1>1. CASE UNCHANGED vars
  <2>1. UNCHANGED <<step, at, ret, got, call, result, inbox, serverBox, sent, outer, deadline>>
    BY <1>1 DEF vars, socketVars, serverVars
  <2>2. SeenPhase' = SeenPhase /\ SeenResult' = SeenResult
    BY <2>1, SeenAside
  <2> QED BY <2>1, <2>2 DEF Promised!vars, Promised!deadlines
<1>2. CASE Next
  <2>1. CASE PollTimeout \/ SocketReceive \/ Interrupt
    BY <2>1, SocketIsPromised
  <2>2. CASE LoopTop \/ ReceiveNothing \/ ReturnMessage \/ SkipMessage \/ LoopTest
    BY <2>2, LoopIsPromised
  <2>3. CASE \/ \E c \in Calls : Begin(c)
             \/ Send \/ SendFail \/ SendLost \/ Retry \/ Return \/ Elapse
    BY <2>3, CallIsPromised
  <2>4. CASE ServerStep \/ ServerStop \/ ServerStart \/ StrangerSend
    BY <2>4, OthersArePromised
  <2> QED BY <1>2, <2>1, <2>2, <2>3, <2>4 DEF Next, Step
<1> QED BY <1>1, <1>2

LEMMA InitIsPromised == Init => DueInv /\ Promised!Init
<1> SUFFICES ASSUME Init PROVE DueInv /\ Promised!Init
  OBVIOUS
<1>1. /\ step = "idle" /\ call = NoCall /\ result = NoDatagram /\ sent = 0
      /\ outer = "never" /\ deadline = "never" /\ inbox = <<>> /\ serverBox = <<>>
  BY DEF Init, Sock!SocketInit
<1>2. SeenPhase = "idle" /\ SeenResult = NoDatagram
  BY <1>1, Seen DEF SeenWhen, Done, Waiting
<1> QED BY <1>1, <1>2 DEF DueInv, Promised!Init

\* Each call of the client is, but for the moments it takes, the send and the wait of
\* ClientCalls: poll(), FIONREAD and recvfrom() with the loops around them are one atomic
\* step for each datagram, and nothing but its answer, its time or a failure ends a wait.
THEOREM CallsAreAtomic == Spec => ImplementsClientCalls
<1>1. Init => TypeInv /\ DueInv /\ Promised!Init
  BY TypeInit, InitIsPromised
<1>2. TypeInv /\ DueInv /\ [Next]_vars => (TypeInv /\ DueInv)'
  BY TypeNext, DueNext
<1>3. TypeInv /\ DueInv /\ [Next]_vars => [Promised!Next]_(Promised!vars)
  BY StepIsPromised
<1> QED BY <1>1, <1>2, <1>3, PTL DEF Spec, ImplementsClientCalls, Promised!Spec
=============================================================================
