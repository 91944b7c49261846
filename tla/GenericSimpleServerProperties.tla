--------------------- MODULE GenericSimpleServerProperties ---------------------
(***************************************************************************)
(* What must hold of GenericSimpleServer, and for how many receivers.      *)
(***************************************************************************)
EXTENDS GenericSimpleServer, FiniteSets

Infinite(t) == asked[t].timeoutMs = INFINITE_TIMEOUT

\* The types of the socket and of the local variables of receive(); a message it
\* has in hand holds a signal number.
TypeOK ==
  /\ fd = Sock!Fd /\ sock = "open"
  /\ inbox \in Seq(Datagrams) /\ Len(inbox) <= SocketRoom
  /\ \A t \in Receivers : at[t] = "done" /\ ret[t] > 0 => ret[t] >= Sock!HeaderSize
  /\ avail \in [Receivers -> Nat] /\ ret \in [Receivers -> Int]
  /\ loop \in [Receivers -> {"idle", "top", "receive", "sending", "test", "return"}]
  /\ \A t \in Receivers : (loop[t] = "idle") = (asked[t] = NoRequest)
  /\ asked \in [Receivers -> Requests \union {NoRequest}]
  /\ deadline \in [Receivers -> Distances]
  /\ timeout \in [Receivers -> {"infinite", "finite", "zero"}]
  /\ failed \in [Receivers -> BOOLEAN]
  /\ arrived \subseteq Datagrams

\* With one receiver, each datagram that holds a signal number is in exactly one
\* place: in the socket, in the hands of receive(), answered as a ping, thrown
\* away, or returned.  No deadline, signal or malformed neighbour loses one, and
\* none counts twice.
EachTakenOnce ==
  LET One(b) == IF b THEN 1 ELSE 0
  IN  \A d \in arrived : d.size >= Sock!HeaderSize =>
        Cardinality({i \in DOMAIN inbox : inbox[i] = d})
          + Cardinality({t \in Receivers : got[t] = d})
          + Cardinality({t \in Receivers : result[t] = d})
          + One(d \in replied) + One(d \in skipped) + One(d \in delivered)
        = 1

\* receive() returns nullptr for two reasons only, a failure of the socket and
\* a deadline that is less than a millisecond away or past: neither a ping nor a
\* message that does not pass ends it early, and one with no timeout has no end.
NothingMeansTimeIsUp ==
  \A t \in Receivers :
    loop[t] = "return" /\ result[t] = NoDatagram /\ ~failed[t] =>
      ~Infinite(t) /\ deadline[t] \in {"near", "past"}

\* The receiver is in a system call of socket->receive that nothing but a datagram or
\* a signal can end.  The sendto() of an answer is not one of these: see AnswersGoOut.
Held(t) ==
  /\ inbox = <<>>
  /\ at[t] = "receiving" \/ (at[t] = "polling" /\ timeout[t] = "infinite")

\* With one receiver, only a receive() without a timeout waits for a datagram that may
\* never come, and only in poll(): recvfrom(), which has no timeout, is called when there
\* is a datagram to take, and a remaining time, were it negative, is never taken for
\* an infinite one.
HeldOnlyWithoutTimeout ==
  \A t \in Receivers : Held(t) => at[t] = "polling" /\ Infinite(t)

\* What SelectiveReceive sees of a receive(): once its system calls have taken a
\* datagram out of the socket, it is decided what becomes of it.
Got(t) == at[t] = "done" /\ ret[t] > 0
Found(t) == Got(t) /\ ~IsPing(t) /\ Matches(got[t], asked[t].filter)

SeenPhase ==
  [t \in Receivers |->
     IF loop[t] = "idle" THEN "idle"
     ELSE IF loop[t] = "return" \/ (at[t] = "done" /\ ret[t] <= 0) \/ Found(t)
     THEN "answered" ELSE "asking"]
SeenAnswer == [t \in Receivers |-> IF Found(t) THEN got[t] ELSE result[t]]
SeenFailed == [t \in Receivers |-> failed[t] \/ (at[t] = "done" /\ ret[t] < 0)]
SeenReplied ==
  replied \union UNION {Once(got[t]) : t \in {u \in Receivers : Got(u) /\ IsPing(u)}}
SeenSkipped ==
  skipped \union
    UNION {Once(got[t]) : t \in {u \in Receivers : Got(u) /\ ~IsPing(u) /\ ~Found(u)}}

Promised == INSTANCE SelectiveReceive WITH
  phase <- SeenPhase, answer <- SeenAnswer, failed <- SeenFailed,
  replied <- SeenReplied, skipped <- SeenSkipped

\* With one receiver, poll(), FIONREAD and recvfrom() are as good as one atomic step
\* that takes the oldest datagram, whole, and the loop around them neither gives up
\* early nor throws away what the caller asked for.
ImplementsSelectiveReceive == Promised!Spec

\* No client that pings over a unix socket stops reading for ever: its full socket
\* would hold receive() in sendto(), far beyond its timeout.
AnswersGoOut == \A t \in Receivers : []<>(loop[t] # "sending")

\* A receive() with a timeout comes back, even when pings and messages that do
\* not pass never stop coming, and however often an answer makes it wait, if no answer
\* does so for ever.
TimedReceiveReturns ==
  AnswersGoOut =>
    \A t \in Receivers : (loop[t] # "idle" /\ ~Infinite(t)) ~> (loop[t] = "idle")

\* README: "Server and Client objects are thread-safe for concurrent
\* operations".  A message is returned as it was sent, whole.
ReceivedWhole == \A t \in Receivers : result[t] \in Datagrams \union {NoDatagram}
=============================================================================
