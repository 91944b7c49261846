------------------------------- MODULE Endpoints -------------------------------
(***************************************************************************)
(* The life of the endpoints AfUnixFactory and UdpFactory make, as far as  *)
(* the process' table of descriptors and the addresses of the host are     *)
(* concerned: each factory is a list of system calls, any of which may     *)
(* fail; stop() and the destructors give the descriptors back.  Endpoints  *)
(* are made and destroyed by different threads, and the rest of the        *)
(* process opens and closes files of its own.                              *)
(*                                                                         *)
(* external: the kernel.  A new file gets the lowest number that is free;  *)
(* an address in use cannot be bound; setting an option may fail.          *)
(***************************************************************************)
EXTENDS Integers, Sequences, FiniteSetsExt

CONSTANTS
  Endpoints,         \* the objects; each is made again after it was destroyed
  Stranger, Nobody,  \* the rest of the process; the owner of a free number
  Requests,          \* what is asked of the factories: a kind, and the addresses
                     \* the endpoint may get
  Descriptors        \* bound: the numbers the process may use

ASSUME OwnersAssumption == Stranger \notin Endpoints /\ Nobody \notin Endpoints \union {Stranger}
ASSUME DescriptorAssumption == Descriptors \subseteq Nat

VARIABLES
  table,       \* the files by number; "owner" is a history field
  fd, efd,     \* the members of the socket and of the LinxEventFd
  kind, addr,
  todo,        \* the calls its factory has still to make
  failed,      \* result1 < 0 in setMulticastTtl()
  at,          \* where each endpoint is: "none", "make", "live", "stopped", or
               \* inside close() or a destructor
  after        \* where it goes when close() has returned

vars == <<table, fd, efd, kind, addr, todo, failed, at, after>>
request == <<kind, addr>>

NoFd == -1
NoAddr == [ip |-> "none", port |-> "none"]
File(owner) == [owner |-> owner, bound |-> NoAddr, options |-> {}]

Options == {"join", "ttl", "loop", "broadcast"}
UnixKinds == {"unixSimple", "unixServer", "unixClient"}
WithWorker == {"unixServer", "udpServer", "multicastServer"}

\* The system calls of each factory.  A client for a multicast or a broadcast
\* address is one of the kinds of its own.
Calls ==
  [unixSimple      |-> <<"socket", "bind">>,
   unixServer      |-> <<"socket", "bind", "eventfd">>,
   unixClient      |-> <<"socket", "bind">>,
   udpSimple       |-> <<"socket", "bind">>,
   udpServer       |-> <<"socket", "bind", "eventfd">>,
   multicastServer |-> <<"socket", "bind", "join", "eventfd">>,
   udpClient       |-> <<"socket">>,
   multicastClient |-> <<"socket", "ttl", "loop">>,
   broadcastClient |-> <<"socket", "broadcast">>]

ASSUME RequestsAssumption == \A r \in Requests : r.kind \in DOMAIN Calls

Init ==
  /\ table = [n \in Descriptors |-> File(Nobody)]
  /\ fd = [e \in Endpoints |-> NoFd]
  /\ efd = [e \in Endpoints |-> NoFd]
  /\ kind = [e \in Endpoints |-> "udpClient"]
  /\ addr = [e \in Endpoints |-> NoAddr]
  /\ todo = [e \in Endpoints |-> <<>>]
  /\ failed = [e \in Endpoints |-> FALSE]
  /\ at = [e \in Endpoints |-> "none"]
  /\ after = [e \in Endpoints |-> "none"]

Free == {n \in Descriptors : table[n].owner = Nobody}
Allot(n, owner) == n \in Free /\ n = Min(Free) /\ table' = [table EXCEPT ![n] = File(owner)]
Goto(e, label) == at' = [at EXCEPT ![e] = label]
Trans(e, from, to) == at[e] = from /\ Goto(e, to)

-----------------------------------------------------------------------------
(* The factories *)

\* The id in the name of a client is drawn at random.
Create(e, r) ==
  /\ Trans(e, "none", "make")
  /\ kind' = [kind EXCEPT ![e] = r.kind]
  /\ \E a \in r.addrs : addr' = [addr EXCEPT ![e] = a]
  /\ todo' = [todo EXCEPT ![e] = Calls[r.kind]]
  /\ UNCHANGED <<table, fd, efd, failed, after>>

\* The next call of the factory is one of these.
Calling(e, calls) == at[e] = "make" /\ todo[e] # <<>> /\ Head(todo[e]) \in calls
Called(e) == todo' = [todo EXCEPT ![e] = Tail(todo[e])]

\* Variant: the rest of the calls is not given up.
GiveUpLater(e, label) ==
  /\ Goto(e, label)
  /\ failed' = [failed EXCEPT ![e] = FALSE]
  /\ after' = [after EXCEPT ![e] = "none"]
  /\ UNCHANGED todo

\* The factory gives up: close() from there on, and nullptr.
GiveUp(e, label) ==
  /\ Goto(e, label)
  /\ todo' = [todo EXCEPT ![e] = <<>>]
  /\ failed' = [failed EXCEPT ![e] = FALSE]
  /\ after' = [after EXCEPT ![e] = "none"]

Socket(e) ==
  /\ Calling(e, {"socket"})
  /\ \E n \in Descriptors : Allot(n, e) /\ fd' = [fd EXCEPT ![e] = n]
  /\ Called(e)
  /\ UNCHANGED <<efd, request, failed, at, after>>

SocketFails(e) ==
  /\ Calling(e, {"socket"})
  /\ Free = {}
  /\ GiveUp(e, "none")
  /\ UNCHANGED <<table, fd, efd, request>>

\* 0.0.0.0 stands for every address of the host.
Conflict(a, b) ==
  /\ a # NoAddr /\ a.port = b.port
  /\ a.ip = b.ip \/ "0.0.0.0" \in {a.ip, b.ip}

InUse(a) == \E n \in Descriptors : Conflict(table[n].bound, a)

Bind(e) ==
  /\ Calling(e, {"bind"})
  /\ ~InUse(addr[e])
  /\ table' = [table EXCEPT ![fd[e]].bound = addr[e]]
  /\ Called(e)
  /\ UNCHANGED <<fd, efd, request, failed, at, after>>

\* Variant: open() forgets the descriptor, and does not close it.
BindFailsOpen(e) ==
  /\ Calling(e, {"bind"})
  /\ InUse(addr[e])
  /\ GiveUp(e, "forget")
  /\ UNCHANGED <<table, fd, efd, request>>

\* AfUnixSocket::open() closes the descriptor itself, UdpFactory destroys the socket.
BindFails(e) ==
  /\ Calling(e, {"bind"})
  /\ InUse(addr[e])
  /\ GiveUp(e, IF kind[e] \in UnixKinds THEN "close" ELSE "shutdown")
  /\ UNCHANGED <<table, fd, efd, request>>

SetOption(e) ==
  /\ Calling(e, Options)
  /\ ~failed[e]
  /\ table' = [table EXCEPT ![fd[e]].options = @ \union {Head(todo[e])}]
  /\ Called(e)
  /\ UNCHANGED <<fd, efd, request, failed, at, after>>

\* setMulticastTtl() sets the second option even when the first failed.
TtlFails(e) ==
  /\ Calling(e, {"ttl"})
  /\ failed' = [failed EXCEPT ![e] = TRUE]
  /\ Called(e)
  /\ UNCHANGED <<table, fd, efd, request, at, after>>

\* Variant: setMulticastTtl() returns the result of the second call only.
LastOptionFails(e) ==
  /\ Calling(e, Options \ {"ttl"})
  /\ IF failed[e]
     THEN Called(e) /\ UNCHANGED <<failed, at, after>>
     ELSE GiveUp(e, "shutdown")
  /\ UNCHANGED <<table, fd, efd, request>>

\* The call fails, or the one before it did.
OptionFails(e) ==
  /\ Calling(e, Options \ {"ttl"})
  /\ GiveUp(e, "shutdown")
  /\ UNCHANGED <<table, fd, efd, request>>

EventFd(e) ==
  /\ Calling(e, {"eventfd"})
  /\ \E n \in Descriptors : Allot(n, e) /\ efd' = [efd EXCEPT ![e] = n]
  /\ Called(e)
  /\ UNCHANGED <<fd, request, failed, at, after>>

\* The factory does not look whether the LinxEventFd has a descriptor.
EventFdFails(e) ==
  /\ Calling(e, {"eventfd"})
  /\ Free = {}
  /\ Called(e)
  /\ UNCHANGED <<table, fd, efd, request, failed, at, after>>

Return(e) ==
  /\ todo[e] = <<>>
  /\ Trans(e, "make", "live")
  /\ UNCHANGED <<table, fd, efd, request, todo, failed, after>>

-----------------------------------------------------------------------------
(* stop() and the destructors *)

CloseSocket(e, where) == Goto(e, "shutdown") /\ after' = [after EXCEPT ![e] = where]

\* stop() of a server that was started.  Otherwise it does nothing.
Stop(e) ==
  /\ at[e] = "live" /\ kind[e] \in WithWorker
  /\ CloseSocket(e, "stopped")
  /\ UNCHANGED <<table, fd, efd, request, todo, failed>>

\* ~GenericServer stops the server, if it runs.
Destroy(e) ==
  /\ at[e] \in {"live", "stopped"}
  /\ \/ at[e] = "live" /\ kind[e] \in WithWorker /\ CloseSocket(e, "closeEvent")
     \/ Goto(e, "closeEvent") /\ UNCHANGED after
  /\ UNCHANGED <<table, fd, efd, request, todo, failed>>

\* ~LinxEventFd, a member of the queue, which goes before the socket.
CloseEvent(e) ==
  /\ at[e] = "closeEvent"
  /\ table' = IF efd[e] # NoFd THEN [table EXCEPT ![efd[e]] = File(Nobody)] ELSE table
  /\ efd' = [efd EXCEPT ![e] = NoFd]
  /\ IF fd[e] # NoFd
     THEN CloseSocket(e, "none")
     ELSE Goto(e, "none") /\ UNCHANGED after
  /\ UNCHANGED <<fd, request, todo, failed>>

\* close() of a socket: shutdown(), which changes no descriptor, ::close(), fd = -1.
Shutdown(e) ==
  /\ Trans(e, "shutdown", "close")
  /\ UNCHANGED <<table, fd, efd, request, todo, failed, after>>

CloseFd(e) ==
  /\ Trans(e, "close", "forget")
  /\ table' = [table EXCEPT ![fd[e]] = File(Nobody)]
  /\ UNCHANGED <<fd, efd, request, todo, failed, after>>

\* Variant: close() keeps the number.
RememberFd(e) ==
  /\ Trans(e, "forget", after[e])
  /\ UNCHANGED <<table, fd, efd, request, todo, failed, after>>

ForgetFd(e) ==
  /\ Trans(e, "forget", after[e])
  /\ fd' = [fd EXCEPT ![e] = NoFd]
  /\ UNCHANGED <<table, efd, request, todo, failed, after>>

-----------------------------------------------------------------------------
(* The rest of the process *)

StrangerOpens ==
  /\ \E n \in Descriptors : Allot(n, Stranger)
  /\ UNCHANGED <<fd, efd, request, todo, failed, at, after>>

StrangerCloses ==
  /\ \E n \in Descriptors :
       table[n].owner = Stranger /\ table' = [table EXCEPT ![n] = File(Nobody)]
  /\ UNCHANGED <<fd, efd, request, todo, failed, at, after>>

Factory(e) ==
  \/ \E r \in Requests : Create(e, r)
  \/ Socket(e) \/ SocketFails(e) \/ Bind(e) \/ BindFails(e)
  \/ SetOption(e) \/ TtlFails(e) \/ OptionFails(e)
  \/ EventFd(e) \/ EventFdFails(e) \/ Return(e)

Closing(e) ==
  \/ Stop(e) \/ Destroy(e) \/ CloseEvent(e)
  \/ Shutdown(e) \/ CloseFd(e) \/ ForgetFd(e)

Next ==
  \/ \E e \in Endpoints : Factory(e) \/ Closing(e)
  \/ StrangerOpens \/ StrangerCloses

Spec == Init /\ [][Next]_vars
=============================================================================
