------------------------ MODULE GenericClientProperties ------------------------
(***************************************************************************)
(* What must hold of GenericClient, whatever the server does.              *)
(***************************************************************************)
EXTENDS GenericClient

Timed(c) == c.timeoutMs # INFINITE_TIMEOUT

\* The types of the socket and of the local variables of a call.
TypeOK ==
  /\ fd = Sock!Fd /\ sock = "open"
  /\ Len(inbox) <= SocketRoom /\ Len(serverBox) <= ServerRoom
  /\ ToSet(serverBox) \subseteq 0..sent /\ hand \in -1..sent
  /\ call \in Calls \union {NoCall}
  /\ (call = NoCall) = (step = "idle")
  /\ outer \in Distances /\ deadline \in Distances
  /\ timeout \in {"infinite", "finite", "zero"}
  /\ sent \in 0..MaxRequests
  /\ unanswered \subseteq 1..MaxRequests /\ retried \in BOOLEAN

\* The answers come back in the order of their requests, none of them twice and
\* none from anybody but the server, however many calls gave up in between.
AnswersInOrder ==
  /\ \A i \in DOMAIN answers : answers[i] \in 1..sent
  /\ \A i, j \in DOMAIN answers : i < j => answers[i] < answers[j]

\* What comes late stays in the socket, and a later call may take it for an answer.
\* sendReceive() returns the answer to another request only when that is an earlier
\* one, whose own call has ended without it; and no call but connect() returns the
\* answer to a ping, even with the default LINX_ANY_SIG, unless an attempt of a
\* connect() ended without one.
StaleOnlyAfterTimeout ==
  step = "return" /\ call.op # "connect" /\ result # NoDatagram =>
    IF IsAnswer(result)
    THEN call.op = "sendReceive" => result.n = sent \/ result.n \in unanswered
    ELSE retried

\* The client is in a system call of receive() that nothing but a datagram or a signal
\* can end.
Held ==
  /\ inbox = <<>>
  /\ at[User] = "receiving" \/ (at[User] = "polling" /\ timeout = "infinite")

\* Only a receive() or a sendReceive() without a timeout waits for a datagram that may
\* never come, and only in poll().  connect(), which gives each ping a time of its own,
\* never does, whatever its own timeout.
HeldOnlyWithoutTimeout ==
  Held => at[User] = "polling" /\ call.op # "connect" /\ ~Timed(call)

\* What ClientCalls sees of a call: once its system calls have taken a datagram out of
\* the socket, or given up, it is decided how the wait goes on.
Done == step = "receive" /\ at[User] = "done"
Found == Done /\ ret[User] > 0 /\ Passes(got[User])

SeenPhase ==
  IF Found THEN "return"
  ELSE IF Done /\ ret[User] < 0 THEN "failed"
  ELSE IF Done /\ ret[User] = 0 THEN IF call.op = "connect" THEN "retry" ELSE "return"
  ELSE IF step \in {"top", "receive", "test"} THEN "wait"
  ELSE step
SeenResult == IF Found THEN got[User] ELSE result

Promised == INSTANCE ClientCalls WITH
  phase <- SeenPhase, result <- SeenResult,
  Datagrams <- {Answer(n) : n \in 0..MaxRequests} \union {Stray}

\* The loops of receive() and connect() and their system calls do what ClientCalls
\* says: a call takes datagrams only while it waits, loses none that is its answer,
\* stops at the first that is, sends no request twice, and gives up for no other
\* reason than its time or a failure.
ImplementsClientCalls == Promised!Spec

\* A call that waits for an answer with a timeout stops waiting, even when
\* messages it does not want never stop coming.
TimedWaitReturns ==
  (call # NoCall /\ call.op # "connect" /\ Timed(call) /\ step # "send")
    ~> (step = "idle")

\* connect() with a timeout comes back, unless a send blocks it for ever: an
\* answered ping, or the end of its time, ends its loop whatever else arrives.
\* Only a send over unix sockets can block.
TimedConnectReturns ==
  (call # NoCall /\ call.op = "connect" /\ Timed(call))
    ~> (step = "idle" \/ (transport = "unix" /\ [](step = "send")))
=============================================================================
