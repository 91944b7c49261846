# LinxIpc in TLA+

LinxIpc is a C++ library for message passing over datagram sockets, unix domain
or UDP.  A server receives messages from clients; a receiver says which signal
numbers, and which sender, it wants (selective receive).  This directory holds
TLA+ modules that model the library, the TLC configurations that check them, and
proofs that TLAPS checks.  Paths below are relative to the repository;
`LinxIpc/...` is the library.

## The system

| component | source | state | operations |
|---|---|---|---|
| LinxQueue | `LinxIpc/src/queue/LinxQueue.cpp` | the list of received messages, `stopped`, `max_size`, mutex, condition variable | `add`, `get` (immediate, infinite, timed), `stop`, `clear`, `size`, `getFd` |
| LinxEventFd | `LinxIpc/src/queue/LinxEventFd.cpp` | a semaphore eventfd | `writeEvent`, `readEvent`, `clearEvents` |
| LinxMessageFilter | `LinxIpc/src/common/LinxMessageFilter.h` | none | the test of the signal number and of the sender |
| identifiers | `IIdentifier.h`, `UnixLinx.h`, `UdpLinx.h` | a name, or address and port | equality |
| AfUnixSocket, UdpSocket | `LinxIpc/src/unix`, `LinxIpc/src/udp` | the descriptor `fd` | `open`, `close`, `receive`, `send`, `flush`, options |
| GenericServer | `LinxIpc/src/common/GenericServer.tpp` | socket, queue, worker thread | `start`, `stop`, `receive`, `send`, and `task`, the worker |
| GenericSimpleServer | `LinxIpc/src/common/GenericSimpleServer.tpp` | socket | `receive`, straight from the socket, `send` |
| GenericClient | `LinxIpc/src/common/GenericClient.tpp` | socket, identifier of the server | `connect` (ping), `send`, `receive`, `sendReceive` |
| LinxIpcHandler | `LinxIpc/src/common/LinxIpcHandler.cpp`, `LinxServer.h` | a shared reference to the server, callbacks by signal number; in each message a weak reference to the server it came from | `registerCallback`, `handleMessage`, `start`, `stop`, the destructor; `sendResponse` of a message |
| messages | `LinxIpc/src/message`, `LinxMessage.h` | signal number, payload | `serialize`, `deserialize` |
| factories | `AfUnixFactory.cpp`, `UdpFactory.cpp` | the descriptors of the process and the addresses of the host | construction of servers and clients, and giving up half way |
| Deadline | `LinxIpc/src/common/Deadline.h` | a time point | `isExpired`, `getRemainingTimeMs` |

How they interact: the worker thread of a `GenericServer` blocks in
`socket->receive`, answers a ping itself, and gives every other message to
`queue->add`.  Application threads call `receive`, which is `queue->get`, or poll
the eventfd first.  A controlling thread calls `start` and `stop`; `stop` closes
the socket, which is what makes the worker leave its loop, stops the queue, which
is what makes the receivers come back, and joins the worker.  The two sides share
the list (under the mutex), the eventfd (read by pollers without it), the `fd`
member of the socket and the `std::thread` (both without any lock).  A
`LinxIpcHandler` calls `receive` of a server it shares, and hands the message to a
callback; the callback, or a thread that kept the message, answers it with
`sendResponse`, which turns the weak reference of the message into a shared one for
as long as it sends.  Whoever drops the last reference runs `~GenericServer`, with
its `stop` and its `join`.

What is hard: wakeups (`add` notifies after it has unlocked, receivers wait for
different things), the eventfd as a second copy of the length of the list, a
timeout that races with an arrival, `stop` beside every step of `receive`, a
worker that ends on any error, several receivers on one socket, answers that come
after their timeout, answers that block because a client does not read, the moment
at which the last of several owners lets go of a server, a factory that fails half
way in a process whose descriptors are used again at once, and the boundaries of
sizes and byte orders in a datagram.
The list of hazards, each at its line, is in `PROJECT.json`.

What makes each part correct: the queue neither loses a wakeup nor a message, and
its eventfd tells how many there are; the server passes on what it received, in
order, until it is stopped, and is quiet afterwards; a simple server takes every
message once and keeps to its time; a client gets the answers in order and keeps
to its time whatever the server does; a message is the same on both sides; a server
that is being destroyed is used by nobody else, and is destroyed when nobody wants
it; no descriptor leaks, and none is closed by one that does not own it.

## The modules

| module | models |
|---|---|
| `LinxIdentifier` | `UnixInfo`, `PortInfo` and their equality; a multicast or broadcast address equals every address on its port |
| `LinxMessageFilter` | the two tests and the search for the first message that passes |
| `LinxQueue` | `LinxQueue` and `LinxEventFd`, each operation as the steps of the calling thread |
| `LinxQueueProperties` | what must hold of it, and its refinement mapping to `LinxMailbox` |
| `LinxMailbox` | what the queue promises: a bounded mailbox with atomic operations |
| `LinxQueueProofs` | the theorems about the queue, and that it implements the mailbox |
| `LinxMessageFilterProofs` | lemmas: what the search and a removal return, and lists without repetition |
| `DgramSocket` | `AfUnixSocket` and `UdpSocket`: `receive`, one system call at a time, beside `close` |
| `GenericServer` | the worker, `start`, `stop` and `receive`, over `DgramSocket` and `LinxMailbox` |
| `GenericServerProperties`, `GenericServerProofs` | what must hold of it, its refinement mapping to `LinxServer`, and the theorems |
| `LinxServer` | what the server promises to those who start, stop and ask it, over `LinxMailbox` |
| `Deadline` | a deadline, as how far it is: never, ahead, near (less than a millisecond), past |
| `GenericSimpleServer`, `...Properties`, `...Proofs` | `receive` of a server without a worker, over `DgramSocket`; its refinement mapping to `SelectiveReceive` |
| `SelectiveReceive` | what that `receive` promises: the oldest datagram is taken, and its fate decided, in one step |
| `GenericClient`, `...Properties`, `...Proofs` | the calls of a client over `DgramSocket`, beside a server and a network; their refinement mapping to `ClientCalls` |
| `ClientCalls` | what a client promises of its calls: at most one request for each send, and a wait that takes and judges one datagram at a time |
| `LinxIpcHandler`, `...Properties`, `...Proofs` | the handler, its callbacks and answers, and who owns and destroys the server, over `LinxServer` |
| `Endpoints`, `...Properties`, `...Proofs` | the factories, `stop` and the destructors, as the process' table of descriptors sees them |
| `LinxMessage`, `...Properties`, `...Proofs` | messages as bytes: `serialize`, `deserialize`, `fromRawMessage` |
| `MC...` | the small instances TLC checks |

Each layer is built on what the one below promises, and the one below is shown to
implement it: `LinxQueue` implements `LinxMailbox`; `GenericServer`, over the mailbox
and `DgramSocket`, implements `LinxServer`; `LinxIpcHandler` is over `LinxServer`.
`GenericSimpleServer` and `GenericClient` have nothing above them; they implement
`SelectiveReceive` and `ClientCalls`.

### LinxQueue

A thread runs one operation at a time; `pc` says how far it is.  The mutex is
taken in one step with the first thing done under it, since nothing outside the
mutex can tell the two apart; the steps after it that a poller sees (each
`write` or `read` of the eventfd) are separate, and so is the unlock, because
`add` notifies after it.  `waiting` holds the threads blocked in the condition
variable that no notification has reached: `wait` enters it and gives the mutex
back in one step, as the standard says; a notification empties it (`notify_all`);
a thread also leaves it for no reason (`SpuriousWake`) or because its deadline
passed (`Expire`).  A thread that left it takes the mutex and evaluates the
predicate (`FindMessage`, `FindNothing`, `Wait`); one whose deadline passed
returns what the predicate says, as `wait_for` does.

| code | actions |
|---|---|
| `add` | `CallAdd`, `AddPush` or `AddReject`, `WriteEvent`, `AddUnlock`, `AddNotify` |
| `get` | `CallGet`, `FindMessage`, `FindNothing` or `Wait`, `ReadEvent`, `GetReturn` |
| `stop`, the destructor | `CallStop`, `StopQueue`, `ClearEvent`, `StopNotify`, `CloseUnlock` |
| `clear` | `CallClear`, `ClearQueue`, `ClearEvent`, `ClearDone`, `CloseUnlock` |

`accepted`, `received` and `dropped` are history variables: no guard reads them
except that a message object is added once (it is a `unique_ptr`).  `max_size` is
any integer, because the code compares it as an unsigned number: a negative one
bounds nothing.  `efdOpen` is false when `eventfd()` failed in the constructor:
every operation of the eventfd then does nothing and its result is ignored.

### LinxMailbox

The mailbox has no mutex: `Put`, `CloseBox` and `EmptyBox` happen at one instant,
and so does the answer to a request (`Take`, `Miss`).  `ImplementsMailbox` maps a
`get` that has not looked yet, or is blocked, to `"asking"`, and one that has its
result to `"answered"`.  `GenericServer` is built on the mailbox, not on the steps
of the queue.

### DgramSocket and GenericServer

`at` says where a thread is in `receive`.  Every load of the member `fd` is a
step, because `close` writes it with no synchronisation.  Whether the test at the
start of `receive` and the assignment to the `pollfd` are one load or two is up to
the compiler: `FdLoads` is `"once"` or `"twice"`.  The kernel is external: `poll`
ignores a negative descriptor and reports one that is not open as an event, a
shutdown socket is readable, FIONREAD gives the size of the first datagram,
`recvfrom` cuts the datagram to the buffer and blocks when there is none, and a signal
may end either of the two (`Interrupted`).  A datagram has a size; one shorter than a signal number is refused.

`GenericServer` runs `receive` in its worker.  `TaskExit` is both branches that
end the loop.  `start` and `stop` are split at every shared access: the test of
`joinable()` and the use of the thread are two steps.  `StopShutdown`,
`StopCloseFd`, `StopForgetFd` are the three statements of `close()`.

| code | actions |
|---|---|
| `task` | `TaskReceive`, `TaskInterrupted`, `TaskExit`, `TaskDispatch`; `TaskPing` or `TaskBlock` and `TaskUnblock`; `TaskAdd` |
| `start` | `StartCheck`, `StartCreate` |
| `stop` | `StopCheck`, `StopShutdown`, `StopCloseFd`, `StopForgetFd`, `StopQueue`, `StopJoin` |
| `receive` | `ReceiveAsk`, `ReceiveReply`, `ReceiveReturn` |

The answer to a ping blocks over a unix socket while the socket of the client is
full.  `full` says whether it is; the client may fill it, read it, or never read it
again, at any time.  A worker in `sendto` does not notice that its own socket was
closed, so that `stop` waits for that client as well: `OnlyAnAnswerHoldsStop` says that
nothing else holds the worker then, and what is promised to happen to the worker and to
`stop` has the hypothesis `AnswersGoOut`.

### LinxServer

The server as its handler and its users see it.  The worker tests whether the socket is
open (`TaskCheck`), waits inside `receive` (`"waiting"`), comes back with a message
(`TaskReceive`), a ping (`TaskPing`) or an error (`TaskExit`), and puts the message
into the mailbox or discards it (`TaskAdd`).  `coming` is what may still be taken, and
`Lose` shrinks it at any time: the network, a malformed datagram, a closed socket.
`Stop` is the three statements of `stop`, each of which may happen only after the one
before it.  `ImplementsServer` maps the worker to it: what `receive` will return is decided at
`recvfrom` (`Holds`), so that from there on the worker is seen with its message or,
after an error, at its end; the tests and calls before it, and a ping, are the wait.

### GenericSimpleServer and GenericClient

Both call `socket->receive` in a loop.  `loop` (`step` in the client) says where a
thread is in the loop, `at` where it is in `socket->receive`.  A poll with a timeout
may return nothing (`PollTimeout`) only when the deadline is near or past, or the
timeout was zero: `getRemainingTimeMs` rounds down.  `Elapse` brings a deadline
nearer, at any time.

| code | actions |
|---|---|
| `GenericSimpleServer::receive` | `CallReceive`, then `LoopTop`, `SocketReceive`, `PollTimeout`, `Interrupt`, then one of `ReceiveNothing`, `AnswerPing`, `AnswerBlocks` and `AnswerGoesOut`, `ReturnMessage`, `SkipMessage`; `LoopTest`; `Return` |
| `GenericClient::send` | `Begin`, then `Send`, `SendFail` or `SendLost` |
| `GenericClient::receive` | `LoopTop`, `SocketReceive`, `PollTimeout`, then `ReceiveNothing`, `ReturnMessage` or `SkipMessage`; `LoopTest` |
| `sendReceive` | `Send`, then the steps of `receive` unless the send failed |
| `connect` | pings: `Send`, the steps of `receive`, `Retry`, until an answer or the deadline `outer` |

`SelectiveReceive` has neither loop nor system calls: while a receiver asks, the oldest
datagram is refused, answered as a ping, skipped or given to it, in one step that takes
it out of the socket; and a receiver gets nothing only once less than a millisecond of its time is
left, or if the socket failed.  `ImplementsSelectiveReceive` sees the fate of a datagram
decided at `recvfrom`.

`ClientCalls` has a `phase` in place of the loops and the socket: a call sends
(`"send"`) and waits (`"wait"`); a wait ends with the answer (`"return"`), at its time
(`"return"`, or `"retry"` in a `connect()`), or by a failure, which stays visible as
`"failed"` for a moment, so that a wait that ends without it, and without an answer, has a
deadline that is due.  How much the sockets hold and when a send blocks, fails or is lost is
left out: a request reaches the socket of the server once or not at all.
`ImplementsClientCalls` sees the end of a wait decided when `socket->receive` is done
(`SeenPhase`, `SeenResult`).

A datagram in `Repeatable` may be sent any number of times, so that there is traffic
that never ends; the history variables count the others.

The server and the network of a client are external: the server takes its messages
in order, answers every ping and whichever requests it likes, may be slow, may be
gone and come back.  Over unix sockets a send to a full socket blocks, and one to a
name nobody has fails; over UDP both lose the message, any message may be lost, and any
send may fail.
Messages between the same two sockets are not reordered, as on one host.

In `GenericSimpleServer` an answer to a ping goes out, or is lost, at once
(`AnswerPing`), or it blocks in `sendto` over a unix socket while the client's is full
(`AnswerBlocks`) until the client reads (`AnswerGoesOut`), whatever becomes of the
deadline.  Nothing obliges a client to read: `TimedReceiveReturns`, that a `receive`
with a timeout comes back, has the hypothesis `AnswersGoOut` that no answer blocks for
ever.  Without it the property fails.

### LinxIpcHandler

`owners` is the reference count of the server, as the set of those who hold one: the
user, the handler, and a thread inside `sendResponse`, between `lock()` and the end
of the function.  `LetGo` is the end of a `shared_ptr`; if it was the last one, the
thread that held it runs `~GenericServer`, and `call` says on whose behalf a thread is
in `stop`.  A looper is a thread that calls `handleMessage`, runs the callback, may
answer inside it as often as it likes, and may keep the message to answer it once
later, when the server may be gone.  The user registers callbacks, starts, stops,
destroys the handler, makes another one, and drops its own reference.

| code | actions |
|---|---|
| `handleMessage` | `CallHandleMessage`, `HandleReceive`, `HandleDispatch`, `CallbackReturns` |
| `sendResponse` | `LockServer`, `SendToSender` or `SendBlocks` and `SendGoesOut`, `ReleaseServer` |
| `registerCallback` | `RegisterCallback` |
| `start`, `stop` | `CallStart`, `StartCreate`; `CallStop`, then the steps of `stop`: `StopCheck`, `StopClose`, `StopQueue`, `StopJoin`, `StopReturn` |
| `~LinxIpcHandler` | `DestroyHandler`, the steps of `stop`, `HandlerDestroyed` |
| `~GenericServer` | the steps of `stop`, `ServerDestroyed` |

Two duties are the user's, as for every C++ object, and are guards of the model: nobody
is in `handleMessage` when a callback is registered, since the map has no lock, nor
when the handler is destroyed (`NobodyHandles`).  A thread inside a callback counts as
inside `handleMessage`.  The server is that of `LinxServer`, so that the worker's
test of the socket, its wait and its losses are there.  `handleMessage` takes whatever comes and throws away
what has no callback.

A response may block in `sendto` (`SendBlocks`) while the client's unix socket is full; the
thread keeps its reference to the server all the while.  That the server is destroyed when
the user and the handler have let it go (`UnownedServerIsDestroyed`) has the hypothesis
`ResponsesGoOut`: no response blocks for ever.  `StopAndDestructorsReturn` does not
need that one, as a response that blocks holds nobody else, but the hypothesis
`WorkerComesOut`: the worker under the handler leaves the `receive` of a closed socket.  The
model of `GenericServer` shows when it does: if `fd` is loaded once and `AnswersGoOut`
(`StopReturns`), and not always if it is loaded twice (`server_stop_hangs`).

### Endpoints

Each factory is the list of its system calls (`Calls`), of which any may fail; `todo`
holds those still to be made.  `table` is the process' table of descriptors: a new file
gets the lowest free number, and the rest of the process opens and closes files of its
own, so that a number given back is used again at once.  `owner` is a history field.

| code | actions |
|---|---|
| the factories | `Create`, then for each call `Socket` or `SocketFails`, `Bind` or `BindFails`, `SetOption`, `TtlFails` or `OptionFails`, `EventFd` or `EventFdFails`; `Return` |
| `AfUnixSocket::open`, `UdpSocket::open` that fail | `GiveUp` |
| `close` | `Shutdown`, `CloseFd`, `ForgetFd` |
| `stop`, `~GenericServer`, the destructors of the members | `Stop`; `Destroy`, `CloseEvent`, then `close` |

When `eventfd()` fails the factory returns a server all the same, whose queue has no
descriptor: that is the code, and `LinxQueue` models such a queue (`efdOpen`).

### LinxMessage

A 32 bit number is its four bytes, most significant first; `Swap` is how a host
lays it in memory, and also what `htonl` and `ntohl` do to it.  So a number is
converted on its way into the datagram exactly if `serialize` converts it.  Sizes
are taken modulo `SizeLimit`, which is 2^32.  A host of either byte order serializes
any message into a buffer of any size, and another one deserializes the bytes.
`fromRawMessage` of a payload shorter than its `Data` gets arbitrary bytes.

## The runs

| run | instance | question |
|---|---|---|
| `queue_safety` | 1 thread adds, 2 receive, 1 stops or clears; 3 messages, size 2; immediate, timed and infinite requests with two overlapping filters | are the list, the eventfd, the wait set and the fate of each message consistent in every interleaving? |
| `queue_liveness` | the same threads, 2 messages, one infinite and one timed request | does the queue implement the mailbox, its promise to answer included, and does every timed receiver come back? |
| `server_safety` | worker, 1 receiver, 1 controller; ping, 3 messages, 1 malformed datagram; room for 2 in the socket and 2 in the queue; signals, restarts; two loads of `fd` | is anything lost, duplicated or reordered while the server is open; is the server quiet after `stop`; does it implement `LinxServer`? |
| `server_liveness` | worker, 1 receiver, 1 controller; `fd` loaded once | what can hold the worker once `stop` has shut the socket down, other than an answer that blocks; does the worker serve, and does `stop` come back and release the receivers? |
| `server_stop_hangs` | as `server_liveness`, `fd` loaded twice | violated: see findings |
| `server_unstarted` | as `server_liveness` | violated: see findings |
| `simple_server` | 1 receiver in every timeout mode; ping, 2 messages, 1 malformed datagram once each, pings and unwanted messages without end; room for 2 | is each datagram taken once, does a call keep to its time, does a system call hold it beyond, and is it as good as the atomic `receive` of `SelectiveReceive`? |
| `simple_server_shared` | 2 receivers on one socket | violated: see findings |
| `client` | `send`, `receive`, `sendReceive` and `connect`, one `receive` without a timeout, 2 requests; unix and UDP; a stranger; room for 2 answers and 1 request | do answers come in order, is a stale one always that of a call that gave up, do calls keep to their time, does a system call hold one beyond, and is every call the send and the wait of `ClientCalls`? |
| `handler` | 2 threads handle messages and answer them, 1 user; 3 messages, one of them without a callback, size 2; requests whose time may be up at any moment | can a server be used, or controlled twice, while its last owner destroys it; is it destroyed, and does every `stop` and destructor come back? |
| `endpoints` | 2 endpoints of every kind in turn, 3 descriptors, one port | does any failure of any call, or any order of `stop` and destructors, leak a descriptor, close a stranger's, or return something incomplete? |
| `messages` | raw, typed and `MyMessage`, payloads of 0 to 15 bytes, sizes of four bits, buffers of 0 to 15 bytes, every pair of hosts | is what is read what was sent, and does `serialize` report what it wrote? |

What the properties say, and about which code, stands beside each of them in the
`...Properties` modules.

Bounds.  Two receivers with filters that overlap and differ are what it takes for a
notification to reach the wrong thread; three messages and room for two make the
queue full, make a receiver pass over a message, and leave one to arrive after a
stop.  Two senders, one of whom a multicast identifier stands for, exercise the
equality of `PortInfo`.  In `server_liveness` room for one message in the queue makes
it overflow; in `server_safety` three messages overflow room for two, and a stop finds
the worker at each of its steps.  Two requests (`MaxRequests`) are what it takes for
the answer to one to come during another; room for one message at the server
(`ServerRoom`) makes a send block, room for two answers (`SocketRoom`) holds a stale
one before the right one.  Sizes of four bits keep every boundary of the code: a
payload of 11 bytes fits, of 12 and more wraps.  Two loopers are what it takes for one
to respond while the other, or the user, drops the last reference; three messages and
room for two leave one in the hands of the worker when `stop` empties the queue.  Two
servers need four descriptors: with three of them (`Descriptors`) each call that wants
one fails in some behaviour and succeeds in another, and a number is used again by the
other endpoint and by the rest of the process.  Calls are not bounded:
a thread may call again for ever, and a rejected message may be added again.  The
receivers are interchangeable (symmetry), in the safety run of the queue only.

Deadlock is checked in `messages` and `endpoints`, which never stop.  It is not checked
elsewhere: a server to which nobody sends, and which nobody stops, rests.

Fairness.  A thread that can run does (weak fairness of the steps of an operation
in progress); the mutex of the queue starves nobody (strong fairness of the steps,
since a thread that wants the mutex finds it free again and again, not always:
`std::mutex` gives no written guarantee, but its futex wakes a waiter at each
unlock); time passes (weak fairness of `Expire`).  Nobody is obliged to call an
operation, to send, or to raise a signal, and no spurious wakeup is relied on.  For
a simple server and a client it is the same: a thread inside a call runs, and its
deadlines come nearer; nothing is assumed of the server of a client, which may never
answer, nor of those who send, who may never stop.  The worker of a server runs, except
while an answer blocks it.  No fairness makes a client read: a `sendto` that blocks
(`TaskBlock`, `AnswerBlocks`, `SendBlocks`) may block for ever, and the properties that would
fail then name it as their hypothesis, `AnswersGoOut` for a server and for a simple server and
`ResponsesGoOut` for a handler.  Under a handler the worker and every thread inside a call of
the library run, but nothing makes the worker leave `receive`: what needs it has the
hypothesis `WorkerComesOut`.  While the socket is open a worker may wait for ever; nothing is
assumed of the callbacks, which may never return, nor of the user.

## Findings

- `server_stop_hangs`.  `receive()` tests `fd` at `AfUnixSocket.cpp:50` and loads it
  again at line 56 (`UdpSocket.cpp:23` and `29`).  If `stop()` closes the socket
  between the two, the worker polls descriptor -1 with no timeout, which never
  returns, and `stop()` joins it for ever.  A build with `-O0` loads twice; an
  optimised one keeps the value, and there `server_liveness` shows that `stop()`
  always comes back.  README.md:770 promises thread safety.
- `server_unstarted`.  README.md:184 says that `receive()` of a server that was not
  started reads directly from the socket.  `GenericServer::receive` takes from the
  queue, which nothing fills; it is `GenericSimpleServer` that reads the socket.
- `simple_server_shared`.  `AfUnixSocket.cpp:74` and `81` ask for the size of the first
  datagram and take it in two system calls.  Of two threads that receive on one
  simple server, one measures a datagram that the other takes; it then returns the
  next one, cut to that size, as a whole message.

Two more things a reader may take for flaws are the caller's business, and stand in the
properties.  A ping on which `connect()` gave up, or which it sent again, is answered
later, and a `sendReceive()` with its default `LINX_ANY_SIG` returns that answer as its
response; `StaleOnlyAfterTimeout` says that this, and an answer to an earlier request,
has no other cause.  And two threads that call `start()` or `stop()` of one server at
once both use the `std::thread`: `JoinedAndClosed` is checked and proved for one
controller, and `ThreadObjectUsedByOne` shows that the calls of the handler, of its
destructor and of `~GenericServer` are never two at once.

## The proofs

Every theorem is about the specification of the module, for any value of the constants
that meets the module's assumptions; TLC evaluates these on every run.  Where a theorem
is about a property of a run, it bears on the same definition.  All of them follow the
same path: an inductive invariant, named below, that holds initially, that every step
keeps, and that implies the property.

### The queue: `LinxQueueProofs`

| theorem | property |
|---|---|
| `TypeCorrectness` | `TypeOK` |
| `QueueIsBounded` | `Bounded` |
| `EventsFollowQueue` | `EventsMirrorQueue` |
| `WakeupsAreNotLost` | `NoLostWakeup` |
| `EachMessageOnce` | `ExactlyOnce` |
| `OldestIsTaken` | `OldestMatchFirst` |
| `QueueImplementsMailbox` | `Mailbox!MailboxSpec`, the safety part of `ImplementsMailbox` |

The assumptions are those `LinxQueue` names: `max_size` is an integer, the null
values are not members of the sets, a timeout is an integer.

The invariant `QueueInv` has four parts.  `TypeInv` adds to the types who
owns the mutex (exactly the thread whose label is critical), what the local
variables hold where they are used, and that only a thread inside `wait` is in the
wait set; without the owner, two threads could both stand between a change of the
list and the eventfd, and the counter would say nothing.  `EventsInv` is
`EventsMirrorQueue` said of the owner's label.  `Bounded` is inductive beside it.
`WakeupInv` is `NoLostWakeup` with its witness; a step that takes a message keeps
it because taking a message out of a list makes no other pass
(`RemovalMakesNoMatch`), which rests on what `FirstMatch` returns.

What becomes of a message is `MessagesInv`: the list is in the order of arrival, the
places a message can be in (list, hands of a receiver, returned, dropped) are disjoint,
and every accepted message is in one of them (`FateInv`); what `get` is about to return passes its
filter and is older than all in the list that pass (`OldestInv`).  Steps are first
sorted by what they do
to the messages (`Effects`), most of them nothing.

The refinement needs `CallersInv`: a request belongs to a `get` in progress, a
deadline that passed belongs to a timed one, and a message is held only by an `add`
or by a `get` that found it; without it the mailbox could not tell which request is
answered, or by what.  Each step of the queue is one step of the mailbox or leaves it
alone (`MailboxSteps`).

### The server: `GenericServerProofs`

| theorem | property |
|---|---|
| `ServerTypesHold` | `TypeOK` |
| `StopLeavesNothing` | `JoinedAndClosed`, if there is one controller |
| `OldestFirst` | `ArrivalOrder` |
| `NothingIsLost` | `NothingLostWhileOpen` |
| `ServerIsPromised` | `ImplementsServer`, if there is one controller |
| `StopFreesReceive` | `OnlyAnAnswerHoldsStop`, if there is one controller and `fd` is loaded once |

All but the last hold for builds that load `fd` once and for those that load it twice.  `ServerInv`
is the types and that the worker, which is alone in `receive`, takes the datagram it
measured (`MeasuredInv`): so what it gets is whole.  `StopInv` ties how far `stop` is to
what is left of the socket and of the worker.  `DeliveryInv` is about the datagrams: those in
the queue are older than the one in the worker's hands, and that one than those in the
socket (`OrderInv`); an answer that a caller has found was the first that passed its filter
(`AnswerInv`, `ArrivalOrder`); the places are disjoint (`ApartInv`); and as long as the
socket is open nothing has left them (`KeptInv`), for which `FirstInv` says that an open
socket still holds the datagram that was measured.

The refinement looks at the worker from outside: each step of the socket is one of `TaskCheck`,
`TaskReceive`, `TaskPing`, `TaskExit` and `Lose`, or is not seen; that a thread is joined only when the
queue is closed, and the queue closed only when `fd` is -1, is `StopInv`, which needs one
controller.

`StopFreesReceive` is the part of why `stop` comes back that speaks of `receive`: `ReadyInv` says
that a worker past its test of `fd` polls the descriptor it tested, that past `poll` the socket
has a datagram or is no longer open, and so that of the system calls of `receive` only the wait for
an open, empty socket can hold it; `StopInv` says that after the shutdown the socket is not open.  The
`sendto` of an answer is not one of them, and may hold the worker through the whole of `stop`.  With `fd`
loaded twice the polled descriptor may be -1, which is the finding `server_stop_hangs`.

### The simple server: `GenericSimpleServerProofs`

| theorem | property |
|---|---|
| `SimpleServerTypes` | `TypeOK` |
| `NullMeansTimeIsUp` | `NothingMeansTimeIsUp` |
| `OneReceiverTakesEachOnce` | `EachTakenOnce`, if there is one receiver |
| `OneReceiverKeepsToItsTime` | `HeldOnlyWithoutTimeout`, if there is one receiver |
| `OneReceiverIsPromised` | `ImplementsSelectiveReceive`, if there is one receiver |

The first two are for any number of receivers on the socket: `LoopInv` says that the
deadline of a call is that of its request, that a poll with no time left, or that ended
with nothing, is one whose deadline is due, that a call that gives up without an error
does so because it is due, and that a receiver whose answer blocks still holds the ping.  The third needs a receiver that is alone (`MeasuredInv`): then
each datagram is in one place (`FateInv`).  `HeldOnlyWithoutTimeout`, the safety half of why a
call with a timeout comes back, needs it too: what was measured is still there when `recvfrom` is
called.  So does the refinement: what `recvfrom` takes is the
datagram that was measured, whole, so that its fate is decided in that one step; all other steps, and each
end of a poll, are a `GiveUp`, a `Fail` or not seen.  `LoopInv` gives the reason for each `GiveUp`.  `simple_server_shared` shows that two are too
many.

### The client: `GenericClientProofs`

| theorem | property |
|---|---|
| `ClientTypes` | `TypeOK` |
| `ClientKeepsToItsTime` | `HeldOnlyWithoutTimeout` |
| `AnswersKeepTheirOrder` | `AnswersInOrder` |
| `StaleAnswersHaveACause` | `StaleOnlyAfterTimeout` |
| `CallsAreAtomic` | `ImplementsClientCalls` |

They assume that the server is a sender of its own, which no wildcard stands for and no
stranger equals (`ClientAssumption`), and what a call and an answer look like
(`CallAssumption`, `NoReplyAssumption`).  The requests and their answers form a pipe:
returned, in the result, in the hands of `receive`, in the socket of the client, in the hands
of the server, in its socket.  `PipeInv` says that the numbers rise along each stage and from
stage to stage.  `StaleInv` says that an answer on the way to an earlier request is that of a
call that gave up.  `PingInv` counts pings: until an attempt of a `connect()` failed there is
at most one on the way, that of the `connect()` in progress.  `WaitInv` follows a timeout from the call to its deadline and from
there to `poll`: a deadline that is ahead is never taken for one that never comes.

The refinement needs the types and `DueInv`: `poll` returns at once only if the deadline is
due, which is the reason for each `GiveUp`, and a send has no deadline yet.  `SeenWhen`
says what is seen of a call before and after `socket->receive` is done.  From there each step
falls to one of four lemmas: of the system calls only the last one, an interrupted `poll` and
one that ends with nothing are seen (`SocketIsPromised`); of the steps of the loop only that the
time is up (`LoopIsPromised`); what begins, sends, repeats and ends a call is seen as it is
(`CallIsPromised`), and so is what the server and the strangers do (`OthersArePromised`).

### The handler: `LinxIpcHandlerProofs`

| theorem | property |
|---|---|
| `HandlerTypes` | `TypeOK` |
| `NobodyUsesADyingServer` | `NothingUsesADyingServer` |
| `OneThreadControls` | `ThreadObjectUsedByOne` |
| `AtMostOneLeft` | `AtMostOneAfterStop` |

They assume that the user is not one of the loopers (`ThreadsAssumption`).
`HandlerInvariant` is the types, `LifeInv`, `ControlInv` and `RestInv`.  `LifeInv` ties references to
places: a thread is among the owners exactly while it is in `sendResponse`, the handler is as
long as anybody is in `handleMessage`, `start` or `stop`, and `~GenericServer` runs in one
thread, once, after the last reference is gone.  `RestInv` is why one message may be left
after `stop`, and no more: once the queue is stopped the socket is closed, and the worker, which
tests the socket before it waits, brings at most the message it was waiting for or held.
`ControlInv` says that what `joinable()` answered still holds when the thread is joined or
created: a step of another thread cannot change it, since no other thread is in control
(`AloneInControl`, from `LifeInv`).

### The factories: `EndpointsProofs`

| theorem | property |
|---|---|
| `EndpointTypes` | `TypeOK` |
| `NoDescriptorLeaks` | `NothingLeaks` |
| `MembersStayOwn` | `MembersAreOwn` |
| `OwnerCloses` | `OnlyTheOwnerCloses`, an action property |
| `ReturnedEndpointsAreComplete` | `ReturnedIsComplete` |

They assume that owners are told apart and that descriptors are naturals
(`OwnersAssumption`, `DescriptorAssumption`), and that only kinds that exist are asked for
(`RequestsAssumption`).  `OwnersInv` adds to the types and to the two properties how far each
endpoint is: a factory has a socket once its first call is done, and its eventfd last of all
(`MakeInv`, from the order of `Calls`); an endpoint that is closing has the descriptor it is
about to close (`CloseInv`).  Without these two a step of `close` could act on a number that
is -1, or on somebody else's.  `DoneInv` says that a call which is no longer in `todo` was made: while a
factory is at work the address and the options its socket still lacks are those of the calls in `todo`,
so that an endpoint whose `todo` is empty has them all; its descriptors follow from `MakeInv`.

### Messages: `LinxMessageProofs`

| theorem | property |
|---|---|
| `MessageTypes` | `TypeOK` |
| `SerializeReports` | `ReturnsWhatItWrote` |
| `MessagesSurvive` | `SameMessageOnEveryHost` |
| `ValuesSurvive` | `ValueOnEveryHost` |

They hold for any bytes, messages, size of `T`, buffers and hosts.
The assumptions are that a payload has fewer than `SizeLimit` bytes (one of 2^32
bytes would wrap by itself, and is not modelled) and that `SizeLimit` exceeds the
size of a `MyMessage`.  The invariant is `MessageInv`; the part that is not a property
is `WireInv`: what was written is nothing, or the whole of the message sent last.
The lemmas beneath it are that swapping twice is nothing (`SwapProperties`), that
what is joined comes apart again (`Split`), and what a datagram consists of
(`DatagramLayout`).

### Only model-checked

The liveness properties, which are out of reach of the prover: that the queue implements the
mailbox's promise to answer (the fairness in `ImplementsMailbox`), that a datagram does not stay in the
socket, and that calls, `stop` and destructors come back.  Every safety invariant, action property and
refinement of the passing runs is a theorem too.  Five theorems are about formulas that no run lists:
`QueueIsBounded`, which the refinement of the mailbox implies on every instance, and `MessageTypes`,
`SimpleServerTypes`, `ClientTypes` and `HandlerTypes`, the types of four modules.  That `stop` of the queue releases
its receivers is part of `ImplementsMailbox`: a closed mailbox can answer every request, and must.

## What is not modelled

- `flush` of the sockets: nothing in the library calls it.
- `size()` reads the list without the mutex; the library does not call it, and it
  changes nothing.
- A queue size given as `size_t` becomes an `int` and then a `size_t` again; the model
  starts from the `int`.
- A callback that is registered while another thread handles a message: the map has no lock,
  no document allows it, and the model takes it for a duty of the user.
- A thread that loads `fd` between `::close()` and `fd = -1` may reach a file that got the
  number meanwhile; `MembersAreOwn` names that window, and `DgramSocket` has no strangers in it.
- How `socket->send` cuts, copies and addresses a datagram; the bytes of an address, and
  the parsing of one.
- The unlocked generator of client ids that all threads share: `Endpoints` takes a name for
  free or taken, whatever made it.
- `trace/` (logging to syslog, which the library does not read back), the examples, the
  wording of log messages, the time a call takes.

What could follow: a client with more than one thread.
