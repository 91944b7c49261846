---------------------------- MODULE EndpointsProofs ----------------------------
(***************************************************************************)
(* Theorems about Endpoints, for any endpoints, requests and descriptors.  *)
(***************************************************************************)
EXTENDS EndpointsProperties, TLAPS, SequenceTheorems

-----------------------------------------------------------------------------
(* The calls of a factory                                                  *)

\* What is taken from the front of a list leaves the rest in its order.
LEMMA TailShifts ==
  ASSUME NEW S, NEW s \in Seq(S), s # <<>>
  PROVE  /\ Head(s) \in S /\ Head(s) = s[1]
         /\ Tail(s) \in Seq(S) /\ Tail(s) # s
         /\ Len(s) \in Nat \ {0} /\ Len(Tail(s)) = Len(s) - 1
         /\ \A i \in 1..(Len(s) - 1) : Tail(s)[i] = s[i + 1]
<1>1. Len(s) \in Nat \ {0} /\ Head(s) = s[1]
  OBVIOUS
<1>2. Head(s) \in S /\ Tail(s) \in Seq(S) /\ Len(Tail(s)) = Len(s) - 1
  BY HeadTailProperties
<1>3. \A i \in 1..(Len(s) - 1) : Tail(s)[i] = s[i + 1]
  BY <1>2, HeadTailProperties
<1>4. ASSUME Tail(s) = s PROVE FALSE
  BY <1>1, <1>2, <1>4
<1> QED BY <1>1, <1>2, <1>3, <1>4

\* A socket is opened first and an eventfd last; of the options of a multicast
\* client the one of the loop follows the other.
WellOrdered(s) ==
  \A i \in 1..Len(s) :
    /\ s[i] = "socket" => i = 1
    /\ s[i] = "eventfd" => i = Len(s)
    /\ s[i] = "ttl" => i < Len(s) /\ s[i + 1] = "loop"

LEMMA CallsOrdered ==
  ASSUME NEW k \in Kinds
  PROVE  /\ Calls[k] \in Seq(CallNames) /\ WellOrdered(Calls[k])
         /\ Calls[k] # <<>> /\ Head(Calls[k]) = "socket"
<1>1. Kinds = {"unixSimple", "unixServer", "unixClient", "udpSimple", "udpServer",
               "multicastServer", "udpClient", "multicastClient", "broadcastClient"}
  BY DEF Kinds, Calls
<1>2. CASE k \in {"unixSimple", "unixClient", "udpSimple"}
  <2>1. Calls[k] = <<"socket", "bind">>
    BY <1>2 DEF Calls
  <2> QED BY <2>1 DEF CallNames, WellOrdered
<1>3. CASE k \in {"unixServer", "udpServer"}
  <2>1. Calls[k] = <<"socket", "bind", "eventfd">>
    BY <1>3 DEF Calls
  <2> QED BY <2>1 DEF CallNames, WellOrdered
<1>4. CASE k = "multicastServer"
  <2>1. Calls[k] = <<"socket", "bind", "join", "eventfd">>
    BY <1>4 DEF Calls
  <2> QED BY <2>1 DEF CallNames, Options, WellOrdered
<1>5. CASE k = "udpClient"
  <2>1. Calls[k] = <<"socket">>
    BY <1>5 DEF Calls
  <2> QED BY <2>1 DEF CallNames, WellOrdered
<1>6. CASE k = "multicastClient"
  <2>1. Calls[k] = <<"socket", "ttl", "loop">>
    BY <1>6 DEF Calls
  <2> QED BY <2>1 DEF CallNames, Options, WellOrdered
<1>7. CASE k = "broadcastClient"
  <2>1. Calls[k] = <<"socket", "broadcast">>
    BY <1>7 DEF Calls
  <2> QED BY <2>1 DEF CallNames, Options, WellOrdered
<1> QED BY <1>1, <1>2, <1>3, <1>4, <1>5, <1>6, <1>7

LEMMA RestCalls ==
  ASSUME NEW s \in Seq(CallNames), s # <<>>, WellOrdered(s)
  PROVE  /\ WellOrdered(Tail(s)) /\ Tail(s) # s
         /\ Tail(s) # <<>> => Head(Tail(s)) # "socket"
         /\ Head(s) = "eventfd" => Tail(s) = <<>>
<1>1. WellOrdered(Tail(s))
  BY TailShifts DEF WellOrdered
<1>2. ASSUME Tail(s) # <<>> PROVE Head(Tail(s)) # "socket"
  <2>1. Tail(s) \in Seq(CallNames)
    BY TailShifts
  <2>2. Len(Tail(s)) \in Nat \ {0} /\ Head(Tail(s)) = Tail(s)[1]
    BY <1>2, <2>1, TailShifts
  <2>3. Len(s) \in Nat /\ Len(Tail(s)) = Len(s) - 1
    BY TailShifts
  <2>4. 1 \in 1..(Len(s) - 1) /\ 2 \in 1..Len(s)
    BY <2>2, <2>3
  <2>5. Tail(s)[1] = s[2]
    BY <2>4, TailShifts
  <2> QED BY <2>2, <2>4, <2>5 DEF WellOrdered
<1>3. ASSUME Head(s) = "eventfd" PROVE Tail(s) = <<>>
  <2>1. Len(s) \in Nat \ {0} /\ s[1] = "eventfd"
    BY <1>3, TailShifts
  <2>2. 1 = Len(s)
    <3>1. 1 \in 1..Len(s)
      BY <2>1
    <3> QED BY <2>1, <3>1 DEF WellOrdered
  <2>3. Len(Tail(s)) = 0 /\ Tail(s) \in Seq(CallNames)
    BY <2>2, TailShifts
  <2> QED BY <2>3, EmptySeq
<1> QED BY <1>1, <1>2, <1>3, TailShifts

LEMMA LoopFollows ==
  ASSUME NEW s \in Seq(CallNames), s # <<>>, WellOrdered(s), Head(s) = "ttl"
  PROVE  Tail(s) # <<>> /\ Head(Tail(s)) = "loop"
<1>1. Len(s) \in Nat \ {0} /\ s[1] = "ttl" /\ Tail(s) \in Seq(CallNames)
      /\ Len(Tail(s)) = Len(s) - 1
  BY TailShifts
<1>2. 1 < Len(s) /\ s[1 + 1] = "loop"
  <2>1. 1 \in 1..Len(s)
    BY <1>1
  <2> QED BY <1>1, <2>1 DEF WellOrdered
<1>3. 1 \in 1..(Len(s) - 1)
  BY <1>1, <1>2
<1>4. Tail(s)[1] = "loop"
  BY <1>2, <1>3, TailShifts
<1>5. Tail(s) # <<>>
  BY <1>1, <1>2
<1>6. Head(Tail(s)) = Tail(s)[1]
  BY <1>1, <1>5, TailShifts
<1> QED BY <1>4, <1>5, <1>6

-----------------------------------------------------------------------------
(* The types                                                               *)

LEMMA AddressTypes ==
  NoAddr \in Addresses /\ \A r \in Requests : r.addrs \subseteq Addresses
BY DEF Addresses

LEMMA FileTypes ==
  /\ \A o \in Endpoints \union {Stranger, Nobody} : File(o) \in Files
  /\ \A f \in Files, a \in Addresses : [f EXCEPT !.bound = a] \in Files
  /\ \A f \in Files, o \in Options : [f EXCEPT !.options = @ \union {o}] \in Files
<1>1. NoAddr \in Addresses
  BY AddressTypes
<1>2. \A o \in Endpoints \union {Stranger, Nobody} : File(o) \in Files
  BY <1>1 DEF Files, File
<1>3. \A f \in Files, a \in Addresses : [f EXCEPT !.bound = a] \in Files
  BY DEF Files
<1>4. \A f \in Files, o \in Options : [f EXCEPT !.options = @ \union {o}] \in Files
  BY DEF Files
<1> QED BY <1>2, <1>3, <1>4

LEMMA TypeInit == Init => TypeOK
<1> SUFFICES ASSUME Init PROVE TypeOK
  OBVIOUS
<1>1. NoAddr \in Addresses
  BY AddressTypes
<1>2. "udpClient" \in Kinds
  BY DEF Kinds, Calls
<1>3. <<>> \in Seq(CallNames)
  OBVIOUS
<1>4. table \in [Descriptors -> Files]
  BY FileTypes DEF Init
<1> QED BY <1>1, <1>2, <1>3, <1>4 DEF Init, TypeOK

LEMMA TableNext == TypeOK /\ [Next]_vars => table' \in [Descriptors -> Files]
<1> SUFFICES ASSUME TypeOK, [Next]_vars PROVE table' \in [Descriptors -> Files]
  OBVIOUS
<1>1. ASSUME NEW n, NEW o \in Endpoints \union {Stranger, Nobody},
             table' = [table EXCEPT ![n] = File(o)]
      PROVE  table' \in [Descriptors -> Files]
  BY <1>1, FileTypes DEF TypeOK
<1>2. ASSUME NEW e \in Endpoints, Bind(e) PROVE table' \in [Descriptors -> Files]
  <2>1. addr[e] \in Addresses /\ table' = [table EXCEPT ![fd[e]].bound = addr[e]]
    BY <1>2 DEF Bind, TypeOK
  <2>2. \A n \in Descriptors : table[n] \in Files
    BY DEF TypeOK
  <2> QED BY <2>1, <2>2, FileTypes DEF TypeOK
<1>3. ASSUME NEW e \in Endpoints, SetOption(e) PROVE table' \in [Descriptors -> Files]
  <2>1. table' = [table EXCEPT ![fd[e]].options = @ \union {Head(todo[e])}]
        /\ Head(todo[e]) \in Options
    BY <1>3 DEF SetOption, Calling
  <2>2. \A n \in Descriptors : table[n] \in Files
    BY DEF TypeOK
  <2> QED BY <2>1, <2>2, FileTypes DEF TypeOK
<1>4. CASE UNCHANGED table
  BY <1>4 DEF TypeOK
<1> QED BY <1>1, <1>2, <1>3, <1>4
  DEF Next, vars, request, Factory, Closing, Create, Socket, SocketFails, Allot,
      BindFails, TtlFails, OptionFails, EventFd, EventFdFails, Return, Stop, Destroy,
      CloseEvent, Shutdown, CloseFd, ForgetFd, StrangerOpens, StrangerCloses

LEMMA TodoNext ==
  TypeOK /\ [Next]_vars =>
    /\ todo' \in [Endpoints -> Seq(CallNames)]
    /\ \A e \in Endpoints : todo'[e] # <<>> => at'[e] = "make"
<1> SUFFICES ASSUME TypeOK, [Next]_vars
             PROVE  /\ todo' \in [Endpoints -> Seq(CallNames)]
                    /\ \A e \in Endpoints : todo'[e] # <<>> => at'[e] = "make"
  OBVIOUS
<1> USE DEF TypeOK
<1>1. ASSUME NEW e \in Endpoints, NEW r \in Requests, Create(e, r)
      PROVE  /\ todo' \in [Endpoints -> Seq(CallNames)]
             /\ \A u \in Endpoints : todo'[u] # <<>> => at'[u] = "make"
  <2>1. r.kind \in Kinds
    BY RequestsAssumption DEF Kinds
  <2>2. Calls[r.kind] \in Seq(CallNames)
    BY <2>1, CallsOrdered
  <2> QED BY <1>1, <2>2 DEF Create, Trans, Goto
<1>2. ASSUME NEW e \in Endpoints, Called(e), at[e] = "make", todo[e] # <<>>, UNCHANGED at
      PROVE  /\ todo' \in [Endpoints -> Seq(CallNames)]
             /\ \A u \in Endpoints : todo'[u] # <<>> => at'[u] = "make"
  <2>1. Tail(todo[e]) \in Seq(CallNames)
    BY <1>2, TailShifts
  <2> QED BY <1>2, <2>1 DEF Called
<1>3. ASSUME NEW e \in Endpoints, NEW label, GiveUp(e, label)
      PROVE  /\ todo' \in [Endpoints -> Seq(CallNames)]
             /\ \A u \in Endpoints : todo'[u] # <<>> => at'[u] = "make"
  <2>1. <<>> \in Seq(CallNames)
    OBVIOUS
  <2> QED BY <1>3, <2>1 DEF GiveUp, Goto
<1>4. ASSUME UNCHANGED todo,
             \A e \in Endpoints : at[e] = "make" /\ todo[e] # <<>> => at'[e] = "make"
      PROVE  /\ todo' \in [Endpoints -> Seq(CallNames)]
             /\ \A u \in Endpoints : todo'[u] # <<>> => at'[u] = "make"
  BY <1>4
<1>5. ASSUME NEW e \in Endpoints, Factory(e)
      PROVE  /\ todo' \in [Endpoints -> Seq(CallNames)]
             /\ \A u \in Endpoints : todo'[u] # <<>> => at'[u] = "make"
  <2>1. CASE Return(e)
    BY <1>4, <2>1 DEF Return, Trans, Goto
  <2> QED BY <1>1, <1>2, <1>3, <1>5, <2>1
    DEF Factory, Calling, Socket, SocketFails, Bind, BindFails, SetOption, TtlFails,
        OptionFails, EventFd, EventFdFails
<1>6. ASSUME NEW e \in Endpoints, Closing(e)
      PROVE  /\ todo' \in [Endpoints -> Seq(CallNames)]
             /\ \A u \in Endpoints : todo'[u] # <<>> => at'[u] = "make"
  BY <1>4, <1>6
  DEF Closing, Stop, Destroy, CloseEvent, Shutdown, CloseFd, ForgetFd, CloseSocket,
      Trans, Goto
<1> QED
  BY <1>4, <1>5, <1>6 DEF Next, vars, StrangerOpens, StrangerCloses

Labels == {"none", "make", "live", "stopped", "closeEvent", "shutdown", "close", "forget"}

LEMMA MembersNext ==
  TypeOK /\ [Next]_vars =>
    /\ fd' \in [Endpoints -> Descriptors \union {NoFd}]
    /\ efd' \in [Endpoints -> Descriptors \union {NoFd}]
    /\ kind' \in [Endpoints -> Kinds]
    /\ addr' \in [Endpoints -> Addresses]
    /\ failed' \in [Endpoints -> BOOLEAN]
    /\ at' \in [Endpoints -> Labels]
    /\ after' \in [Endpoints -> {"none", "stopped", "closeEvent"}]
<1> SUFFICES ASSUME TypeOK, [Next]_vars
             PROVE  /\ fd' \in [Endpoints -> Descriptors \union {NoFd}]
                    /\ efd' \in [Endpoints -> Descriptors \union {NoFd}]
                    /\ kind' \in [Endpoints -> Kinds]
                    /\ addr' \in [Endpoints -> Addresses]
                    /\ failed' \in [Endpoints -> BOOLEAN]
                    /\ at' \in [Endpoints -> Labels]
                    /\ after' \in [Endpoints -> {"none", "stopped", "closeEvent"}]
  OBVIOUS
<1> USE DEF TypeOK, Labels, Next, vars, request, Factory, Closing, StrangerOpens, StrangerCloses
<1>1. fd' \in [Endpoints -> Descriptors \union {NoFd}]
  <2>1. CASE UNCHANGED fd
    BY <2>1
  <2>2. ASSUME NEW e \in Endpoints, Socket(e)
        PROVE  fd' \in [Endpoints -> Descriptors \union {NoFd}]
    BY <2>2 DEF Socket
  <2>3. ASSUME NEW e \in Endpoints, ForgetFd(e)
        PROVE  fd' \in [Endpoints -> Descriptors \union {NoFd}]
    BY <2>3 DEF ForgetFd
  <2> QED BY <2>1, <2>2, <2>3
    DEF Create, SocketFails, Bind, BindFails, SetOption, TtlFails, OptionFails, EventFd,
        EventFdFails, Return, Stop, Destroy, CloseEvent, Shutdown, CloseFd
<1>2. efd' \in [Endpoints -> Descriptors \union {NoFd}]
  BY DEF Create, Socket, SocketFails, Bind, BindFails, SetOption, TtlFails, OptionFails,
         EventFd, EventFdFails, Return, Stop, Destroy, CloseEvent, Shutdown, CloseFd, ForgetFd
<1>3. kind' \in [Endpoints -> Kinds]
  BY RequestsAssumption
  DEF Kinds, Create, Socket, SocketFails, Bind, BindFails, SetOption, TtlFails, OptionFails,
      EventFd, EventFdFails, Return, Stop, Destroy, CloseEvent, Shutdown, CloseFd, ForgetFd
<1>4. addr' \in [Endpoints -> Addresses]
  <2>1. CASE UNCHANGED addr
    BY <2>1
  <2>2. ASSUME NEW e \in Endpoints, NEW r \in Requests, Create(e, r)
        PROVE  addr' \in [Endpoints -> Addresses]
    BY <2>2, AddressTypes DEF Create
  <2> QED BY <2>1, <2>2
    DEF Socket, SocketFails, Bind, BindFails, SetOption, TtlFails, OptionFails, EventFd,
        EventFdFails, Return, Stop, Destroy, CloseEvent, Shutdown, CloseFd, ForgetFd
<1>5. failed' \in [Endpoints -> BOOLEAN]
  BY DEF Create, Socket, SocketFails, Bind, BindFails, SetOption, TtlFails, OptionFails,
         EventFd, EventFdFails, Return, Stop, Destroy, CloseEvent, Shutdown, CloseFd, ForgetFd,
         GiveUp
<1>6. ASSUME NEW e \in Endpoints, Factory(e)
      PROVE  /\ at' \in [Endpoints -> Labels]
             /\ after' \in [Endpoints -> {"none", "stopped", "closeEvent"}]
  BY <1>6 DEF Create, Socket, SocketFails, Bind, BindFails, SetOption, TtlFails,
              OptionFails, EventFd, EventFdFails, Return, GiveUp, Trans, Goto
<1>7. ASSUME NEW e \in Endpoints, Closing(e)
      PROVE  /\ at' \in [Endpoints -> Labels]
             /\ after' \in [Endpoints -> {"none", "stopped", "closeEvent"}]
  <2>1. CASE Destroy(e)
    BY <2>1 DEF Destroy, CloseSocket, Goto
  <2>2. CASE CloseEvent(e)
    BY <2>2 DEF CloseEvent, CloseSocket, Goto
  <2>3. CASE ForgetFd(e)
    BY <2>3 DEF ForgetFd, Trans, Goto
  <2> QED BY <1>7, <2>1, <2>2, <2>3
    DEF Stop, Shutdown, CloseFd, CloseSocket, Trans, Goto
<1> QED BY <1>1, <1>2, <1>3, <1>4, <1>5, <1>6, <1>7

LEMMA TypeNext == TypeOK /\ [Next]_vars => TypeOK'
BY TableNext, TodoNext, MembersNext DEF TypeOK, Labels

-----------------------------------------------------------------------------
(* Who owns the descriptors                                                *)

\* What a factory has done is what is no longer on its list.
MakeInv ==
  \A e \in Endpoints :
    at[e] = "make" =>
      /\ WellOrdered(todo[e])
      /\ fd[e] = NoFd <=> todo[e] # <<>> /\ Head(todo[e]) = "socket"
      /\ todo[e] # <<>> => efd[e] = NoFd

\* What is true of the members of an endpoint, while its socket is closed above all.
CloseInv ==
  \A e \in Endpoints :
    /\ fd[e] # NoFd => fd[e] # efd[e]
    /\ at[e] \in {"live", "shutdown", "close", "forget"} => fd[e] # NoFd
    /\ at[e] = "forget" => table[fd[e]].owner # e
    /\ at[e] \in {"shutdown", "close", "forget"} /\ after[e] = "none" => efd[e] = NoFd

OwnersInv == TypeOK /\ NothingLeaks /\ MembersAreOwn /\ MakeInv /\ CloseInv

LEMMA OwnersInit == Init => OwnersInv
<1> SUFFICES ASSUME Init PROVE OwnersInv
  OBVIOUS
<1>1. NothingLeaks
  BY OwnersAssumption DEF Init, NothingLeaks, File
<1> QED BY <1>1, TypeInit DEF Init, OwnersInv, MembersAreOwn, MakeInv, CloseInv

LEMMA NoFdIsFree == NoFd \notin Descriptors
BY DescriptorAssumption DEF NoFd

\* How the owners of the files change.
LEMMA FileReplaced ==
  ASSUME TypeOK, NEW n, NEW o, table' = [table EXCEPT ![n] = File(o)]
  PROVE  \A m \in Descriptors : table'[m].owner = IF m = n THEN o ELSE table[m].owner
BY DEF TypeOK, File

LEMMA FileAllotted ==
  ASSUME TypeOK, NEW n \in Descriptors, NEW o, Allot(n, o)
  PROVE  /\ table[n].owner = Nobody
         /\ \A m \in Descriptors : table'[m].owner = IF m = n THEN o ELSE table[m].owner
<1>1. table' = [table EXCEPT ![n] = File(o)] /\ table[n].owner = Nobody
  BY DEF Allot, Free
<1>2. \A m \in Descriptors : table'[m].owner = IF m = n THEN o ELSE table[m].owner
  BY <1>1 DEF TypeOK, File
<1> QED BY ONLY <1>1, <1>2

LEMMA FileChanged ==
  ASSUME TypeOK, NEW e \in Endpoints, Bind(e) \/ SetOption(e)
  PROVE  \A m \in Descriptors : table'[m].owner = table[m].owner
<1> USE DEF TypeOK, Files
<1>1. CASE Bind(e)
  BY <1>1 DEF Bind
<1>2. CASE SetOption(e)
  BY <1>2 DEF SetOption
<1> QED BY <1>1, <1>2

Parts == NothingLeaks /\ MembersAreOwn /\ MakeInv /\ CloseInv

\* A call of a factory that opens no descriptor.
LEMMA PartsCalled ==
  ASSUME OwnersInv, NEW e \in Endpoints,
         Calling(e, {"bind", "eventfd"} \union Options), Called(e),
         UNCHANGED <<fd, efd, at, after>>,
         \A m \in Descriptors : table'[m].owner = table[m].owner
  PROVE  Parts'
<1>1. /\ TypeOK
      /\ fd \in [Endpoints -> Descriptors \union {NoFd}]
      /\ efd \in [Endpoints -> Descriptors \union {NoFd}]
      /\ todo \in [Endpoints -> Seq(CallNames)]
  BY DEF OwnersInv, TypeOK
<1>2. at[e] = "make" /\ todo[e] # <<>> /\ Head(todo[e]) # "socket"
  BY DEF Calling, Options
<1>3. \A u \in Endpoints : todo'[u] = IF u = e THEN Tail(todo[e]) ELSE todo[u]
  BY <1>1 DEF Called
<1>4. fd[e] # NoFd /\ efd[e] = NoFd /\ WellOrdered(todo[e])
  BY <1>2 DEF OwnersInv, MakeInv
<1>5. /\ WellOrdered(Tail(todo[e]))
      /\ Tail(todo[e]) # <<>> => Head(Tail(todo[e])) # "socket"
  BY <1>1, <1>2, <1>4, RestCalls
<1>6. NothingLeaks'
  BY DEF OwnersInv, NothingLeaks
<1>7. MembersAreOwn'
  BY <1>1 DEF OwnersInv, MembersAreOwn
<1>8. MakeInv'
  BY <1>3, <1>4, <1>5 DEF OwnersInv, MakeInv
<1>9. CloseInv'
  <2>1. \A u \in Endpoints : at[u] = "forget" => fd[u] \in Descriptors
    BY <1>1 DEF OwnersInv, CloseInv
  <2> QED BY <2>1 DEF OwnersInv, CloseInv
<1> QED BY <1>6, <1>7, <1>8, <1>9 DEF Parts

\* A factory gives up after it has opened its socket, or has opened nothing.
LEMMA PartsGivenUp ==
  ASSUME OwnersInv, NEW e \in Endpoints, at[e] = "make", todo[e] # <<>>,
         NEW label, GiveUp(e, label), UNCHANGED <<table, fd, efd>>,
         label \in (IF Head(todo[e]) = "socket" THEN {"none"} ELSE {"close", "shutdown"})
  PROVE  Parts'
<1>1. TypeOK
  BY DEF OwnersInv
<1>2. fd[e] = NoFd <=> label = "none"
  BY DEF OwnersInv, MakeInv
<1>3. efd[e] = NoFd
  BY DEF OwnersInv, MakeInv
<1>4. /\ \A u \in Endpoints : at'[u] = IF u = e THEN label ELSE at[u]
      /\ \A u \in Endpoints : todo'[u] = IF u = e THEN <<>> ELSE todo[u]
      /\ \A u \in Endpoints : after'[u] = IF u = e THEN "none" ELSE after[u]
  BY <1>1 DEF GiveUp, Goto, TypeOK
<1>5. NothingLeaks'
  BY <1>2, <1>3, <1>4, NoFdIsFree DEF OwnersInv, NothingLeaks
<1>6. MembersAreOwn'
  BY <1>3, <1>4 DEF OwnersInv, MembersAreOwn
<1>7. MakeInv'
  BY <1>4 DEF OwnersInv, MakeInv
<1>8. CloseInv'
  BY <1>2, <1>3, <1>4 DEF OwnersInv, CloseInv
<1> QED BY <1>5, <1>6, <1>7, <1>8 DEF Parts

\* A descriptor is opened.
LEMMA PartsOpened ==
  ASSUME OwnersInv, NEW e \in Endpoints, Socket(e) \/ EventFd(e)
  PROVE  Parts'
<1>1. /\ TypeOK
      /\ fd \in [Endpoints -> Descriptors \union {NoFd}]
      /\ efd \in [Endpoints -> Descriptors \union {NoFd}]
      /\ todo \in [Endpoints -> Seq(CallNames)]
  BY DEF OwnersInv, TypeOK
<1>2. /\ at[e] = "make" /\ todo[e] # <<>> /\ UNCHANGED <<at, after>>
      /\ Head(todo[e]) = IF Socket(e) THEN "socket" ELSE "eventfd"
      /\ \A u \in Endpoints : todo'[u] = IF u = e THEN Tail(todo[e]) ELSE todo[u]
  BY <1>1 DEF Socket, EventFd, Calling, Called
<1>3. efd[e] = NoFd /\ WellOrdered(todo[e]) /\ (fd[e] = NoFd <=> Socket(e))
  BY <1>2 DEF OwnersInv, MakeInv
<1>4. /\ WellOrdered(Tail(todo[e]))
      /\ Tail(todo[e]) # <<>> => Head(Tail(todo[e])) # "socket"
      /\ Head(todo[e]) = "eventfd" => Tail(todo[e]) = <<>>
  BY <1>1, <1>2, <1>3, RestCalls
<1>5. PICK n \in Descriptors :
        /\ Allot(n, e)
        /\ \A u \in Endpoints : fd'[u] = IF u = e /\ Socket(e) THEN n ELSE fd[u]
        /\ \A u \in Endpoints : efd'[u] = IF u = e /\ ~Socket(e) THEN n ELSE efd[u]
  <2>1. CASE Socket(e)
    BY <1>1, <2>1 DEF Socket
  <2>2. CASE ~Socket(e)
    BY <1>1, <2>2 DEF EventFd
  <2> QED BY <2>1, <2>2
<1>6. /\ table[n].owner = Nobody
      /\ \A m \in Descriptors : table'[m].owner = IF m = n THEN e ELSE table[m].owner
  BY <1>1, <1>5, FileAllotted
<1>7. NothingLeaks'
  BY <1>2, <1>3, <1>5, <1>6, NoFdIsFree DEF OwnersInv, NothingLeaks
<1>8. MembersAreOwn'
  <2>1. ASSUME NEW u \in Endpoints
        PROVE  /\ fd[u] # NoFd /\ at[u] # "forget" => fd[u] # n /\ table'[fd[u]].owner = u
               /\ efd[u] # NoFd => efd[u] # n /\ table'[efd[u]].owner = u
    BY <1>1, <1>6, OwnersAssumption DEF OwnersInv, MembersAreOwn
  <2>2. table'[n].owner = e
    BY <1>6
  <2> QED BY <1>2, <1>3, <1>5, <2>1, <2>2 DEF MembersAreOwn
<1>9. MakeInv'
  BY <1>2, <1>3, <1>4, <1>5, NoFdIsFree DEF OwnersInv, MakeInv
<1>10. CloseInv'
  <2>1. ASSUME NEW u \in Endpoints, at[u] = "forget" PROVE u # e /\ table'[fd[u]].owner # u
    BY <1>1, <1>2, <1>6, <2>1 DEF OwnersInv, CloseInv
  <2>2. fd'[e] # efd'[e] /\ fd'[e] # NoFd
    BY <1>2, <1>3, <1>5, <1>6, OwnersAssumption, NoFdIsFree DEF OwnersInv, MembersAreOwn
  <2> QED BY <1>2, <1>5, <2>1, <2>2 DEF OwnersInv, CloseInv
<1> QED BY <1>7, <1>8, <1>9, <1>10 DEF Parts

\* Nothing is opened or closed by an endpoint.
LEMMA PartsKept ==
  ASSUME OwnersInv, UNCHANGED <<fd, efd, todo, at, after>>,
         \A m \in Descriptors : table'[m].owner # table[m].owner =>
           {table[m].owner, table'[m].owner} \intersect Endpoints = {}
  PROVE  Parts'
<1>1. /\ fd \in [Endpoints -> Descriptors \union {NoFd}]
      /\ efd \in [Endpoints -> Descriptors \union {NoFd}]
  BY DEF OwnersInv, TypeOK
<1>2. NothingLeaks'
  BY DEF OwnersInv, NothingLeaks
<1>3. MembersAreOwn'
  BY <1>1 DEF OwnersInv, MembersAreOwn
<1>4. MakeInv'
  BY DEF OwnersInv, MakeInv
<1>5. CloseInv'
  BY <1>1 DEF OwnersInv, CloseInv
<1> QED BY <1>2, <1>3, <1>4, <1>5 DEF Parts

\* stop() and the destructors.
LEMMA PartsClosed ==
  ASSUME OwnersInv, NEW e \in Endpoints, Closing(e)
  PROVE  Parts'
<1>0. /\ TypeOK
      /\ fd \in [Endpoints -> Descriptors \union {NoFd}]
      /\ efd \in [Endpoints -> Descriptors \union {NoFd}]
      /\ DOMAIN at = Endpoints /\ DOMAIN after = Endpoints
  BY DEF OwnersInv, TypeOK
<1> USE <1>0
<1>1. CASE Stop(e)
  <2>1. /\ UNCHANGED <<table, fd, efd, todo>> /\ at[e] = "live"
        /\ \A u \in Endpoints : at'[u] = IF u = e THEN "shutdown" ELSE at[u]
        /\ \A u \in Endpoints : after'[u] = IF u = e THEN "stopped" ELSE after[u]
    BY <1>1 DEF Stop, CloseSocket, Goto
  <2>2. (NothingLeaks /\ MembersAreOwn)'
    BY <2>1 DEF OwnersInv, NothingLeaks, MembersAreOwn
  <2>3. (MakeInv /\ CloseInv)'
    BY <2>1 DEF OwnersInv, MakeInv, CloseInv
  <2> QED BY <2>2, <2>3 DEF Parts
<1>2. CASE Destroy(e)
  <2>1. /\ UNCHANGED <<table, fd, efd, todo>> /\ at[e] \in {"live", "stopped"}
        /\ \A u \in Endpoints \ {e} : at'[u] = at[u] /\ after'[u] = after[u]
        /\ \/ at[e] = "live" /\ at'[e] = "shutdown" /\ after'[e] = "closeEvent"
           \/ at'[e] = "closeEvent"
    BY <1>2 DEF Destroy, CloseSocket, Goto
  <2>2. (NothingLeaks /\ MembersAreOwn)'
    BY <2>1 DEF OwnersInv, NothingLeaks, MembersAreOwn
  <2>3. (MakeInv /\ CloseInv)'
    BY <2>1 DEF OwnersInv, MakeInv, CloseInv
  <2> QED BY <2>2, <2>3 DEF Parts
<1>3. CASE CloseEvent(e)
  <2>1. \A m \in Descriptors : table'[m].owner = IF m = efd[e] THEN Nobody ELSE table[m].owner
    <3>1. CASE efd[e] # NoFd
      BY <1>3, <3>1, FileReplaced DEF CloseEvent
    <3>2. CASE efd[e] = NoFd
      BY <1>3, <3>2, NoFdIsFree DEF CloseEvent
    <3> QED BY <3>1, <3>2
  <2>2. /\ UNCHANGED <<fd, todo>> /\ at[e] = "closeEvent"
        /\ \A u \in Endpoints : efd'[u] = IF u = e THEN NoFd ELSE efd[u]
        /\ \A u \in Endpoints :
             at'[u] = IF u # e THEN at[u] ELSE IF fd[e] # NoFd THEN "shutdown" ELSE "none"
        /\ \A u \in Endpoints \ {e} : after'[u] = after[u]
    BY <1>3 DEF CloseEvent, CloseSocket, Goto
  <2>3. NothingLeaks'
    BY <2>1, <2>2, NoFdIsFree, OwnersAssumption DEF OwnersInv, NothingLeaks
  <2>4. MembersAreOwn'
    <3>1. ASSUME NEW u \in Endpoints
          PROVE  /\ fd[u] # NoFd /\ at[u] # "forget" => table'[fd[u]].owner = u
                 /\ u # e /\ efd[u] # NoFd => table'[efd[u]].owner = u
      BY <2>1 DEF OwnersInv, MembersAreOwn, CloseInv
    <3>2. \A u \in Endpoints : at'[u] # "forget" => at[u] # "forget"
      BY <2>2
    <3> QED BY <2>2, <3>1, <3>2 DEF MembersAreOwn
  <2>5. MakeInv'
    BY <2>2 DEF OwnersInv, MakeInv
  <2>6. CloseInv'
    BY <2>1, <2>2, OwnersAssumption DEF OwnersInv, CloseInv
  <2> QED BY <2>3, <2>4, <2>5, <2>6 DEF Parts
<1>4. CASE Shutdown(e)
  <2>1. /\ UNCHANGED <<table, fd, efd, todo, after>> /\ at[e] = "shutdown"
        /\ \A u \in Endpoints : at'[u] = IF u = e THEN "close" ELSE at[u]
    BY <1>4 DEF Shutdown, Trans, Goto
  <2>2. (NothingLeaks /\ MembersAreOwn)'
    BY <2>1 DEF OwnersInv, NothingLeaks, MembersAreOwn
  <2>3. (MakeInv /\ CloseInv)'
    BY <2>1 DEF OwnersInv, MakeInv, CloseInv
  <2> QED BY <2>2, <2>3 DEF Parts
<1>5. CASE CloseFd(e)
  <2>1. \A m \in Descriptors : table'[m].owner = IF m = fd[e] THEN Nobody ELSE table[m].owner
    <3>1. table' = [table EXCEPT ![fd[e]] = File(Nobody)]
      BY <1>5 DEF CloseFd
    <3> QED BY <3>1 DEF TypeOK, File
  <2>2. /\ UNCHANGED <<fd, efd, todo, after>> /\ at[e] = "close"
        /\ \A u \in Endpoints : at'[u] = IF u = e THEN "forget" ELSE at[u]
    BY <1>5 DEF CloseFd, Trans, Goto
  <2>3. fd[e] \in Descriptors /\ table[fd[e]].owner = e
    BY <2>2 DEF OwnersInv, CloseInv, MembersAreOwn
  <2>4. NothingLeaks'
    BY <2>1, <2>2, OwnersAssumption DEF OwnersInv, NothingLeaks
  <2>5. MembersAreOwn'
    <3>1. ASSUME NEW u \in Endpoints, u # e
          PROVE  /\ fd[u] # NoFd /\ at[u] # "forget" => table'[fd[u]].owner = u
                 /\ efd[u] # NoFd => table'[efd[u]].owner = u
      BY <2>1, <2>3, <3>1 DEF OwnersInv, MembersAreOwn
    <3>2. efd[e] # NoFd => table'[efd[e]].owner = e
      BY <2>1, <2>3, NoFdIsFree DEF OwnersInv, MembersAreOwn, CloseInv
    <3> QED BY <2>2, <3>1, <3>2 DEF MembersAreOwn
  <2>6. MakeInv'
    BY <2>2 DEF OwnersInv, MakeInv
  <2>7. CloseInv'
    BY <2>1, <2>2, <2>3, OwnersAssumption DEF OwnersInv, CloseInv
  <2> QED BY <2>4, <2>5, <2>6, <2>7 DEF Parts
<1>6. CASE ForgetFd(e)
  <2>1. /\ UNCHANGED <<table, efd, todo, after>> /\ at[e] = "forget"
        /\ \A u \in Endpoints : fd'[u] = IF u = e THEN NoFd ELSE fd[u]
        /\ \A u \in Endpoints : at'[u] = IF u = e THEN after[e] ELSE at[u]
    BY <1>6 DEF ForgetFd, Trans, Goto
  <2>2. after[e] \in {"none", "stopped", "closeEvent"}
    BY DEF TypeOK
  <2>3. NothingLeaks'
    BY <2>1, <2>2, NoFdIsFree DEF OwnersInv, NothingLeaks, CloseInv
  <2>4. MembersAreOwn'
    BY <2>1 DEF OwnersInv, MembersAreOwn
  <2>5. (MakeInv /\ CloseInv)'
    BY <2>1, <2>2 DEF OwnersInv, MakeInv, CloseInv
  <2> QED BY <2>3, <2>4, <2>5 DEF Parts
<1> QED BY <1>1, <1>2, <1>3, <1>4, <1>5, <1>6 DEF Closing

LEMMA PartsCreated ==
  ASSUME OwnersInv, NEW e \in Endpoints, NEW r \in Requests, Create(e, r)
  PROVE  Parts'
<1>1. TypeOK
  BY DEF OwnersInv
<1>2. /\ Calls[r.kind] \in Seq(CallNames) /\ WellOrdered(Calls[r.kind])
      /\ Calls[r.kind] # <<>> /\ Head(Calls[r.kind]) = "socket"
  BY RequestsAssumption, CallsOrdered DEF Kinds
<1>3. /\ UNCHANGED <<table, fd, efd, after>> /\ at[e] = "none"
      /\ \A u \in Endpoints : at'[u] = IF u = e THEN "make" ELSE at[u]
      /\ \A u \in Endpoints : todo'[u] = IF u = e THEN Calls[r.kind] ELSE todo[u]
  BY <1>1 DEF Create, Trans, Goto, TypeOK
<1>4. fd[e] = NoFd /\ efd[e] = NoFd
  <2>1. fd[e] \in Descriptors \union {NoFd} /\ efd[e] \in Descriptors \union {NoFd}
    BY <1>1 DEF TypeOK
  <2>2. \A n \in Descriptors : table[n].owner # e
    BY <1>3 DEF OwnersInv, NothingLeaks
  <2> QED BY <1>3, <2>1, <2>2 DEF OwnersInv, MembersAreOwn
<1>5. (NothingLeaks /\ MembersAreOwn)'
  BY <1>3 DEF OwnersInv, NothingLeaks, MembersAreOwn
<1>6. (MakeInv /\ CloseInv)'
  BY <1>2, <1>3, <1>4 DEF OwnersInv, MakeInv, CloseInv
<1> QED BY <1>5, <1>6 DEF Parts

LEMMA PartsReturned ==
  ASSUME OwnersInv, NEW e \in Endpoints, Return(e)
  PROVE  Parts'
<1>1. /\ UNCHANGED <<table, fd, efd, todo, after>> /\ at[e] = "make" /\ todo[e] = <<>>
      /\ \A u \in Endpoints : at'[u] = IF u = e THEN "live" ELSE at[u]
  BY DEF OwnersInv, TypeOK, Return, Trans, Goto
<1>2. (NothingLeaks /\ MembersAreOwn)'
  BY <1>1 DEF OwnersInv, NothingLeaks, MembersAreOwn
<1>3. (MakeInv /\ CloseInv)'
  BY <1>1 DEF OwnersInv, MakeInv, CloseInv
<1> QED BY <1>2, <1>3 DEF Parts

LEMMA OwnersNext == OwnersInv /\ [Next]_vars => OwnersInv'
<1> SUFFICES ASSUME OwnersInv, [Next]_vars PROVE Parts'
  BY TypeNext DEF OwnersInv, Parts
<1>0. TypeOK
  BY DEF OwnersInv
<1>1. CASE UNCHANGED vars
  BY <1>1, PartsKept DEF vars
<1>2. ASSUME NEW e \in Endpoints, Factory(e) PROVE Parts'
  <2>1. CASE \E r \in Requests : Create(e, r)
    BY <2>1, PartsCreated
  <2>2. CASE Socket(e) \/ EventFd(e)
    BY <2>2, PartsOpened
  <2>3. CASE Bind(e) \/ SetOption(e)
    <3>1. \A m \in Descriptors : table'[m].owner = table[m].owner
      BY <1>0, <2>3, FileChanged
    <3>2. /\ Calling(e, {"bind", "eventfd"} \union Options) /\ Called(e)
          /\ UNCHANGED <<fd, efd, at, after>>
      BY <2>3 DEF Bind, SetOption, Calling
    <3> QED BY <3>1, <3>2, PartsCalled
  <2>4. CASE TtlFails(e) \/ EventFdFails(e)
    BY <2>4, PartsCalled DEF TtlFails, EventFdFails, Calling, Options
  <2>5. CASE SocketFails(e)
    BY <2>5, PartsGivenUp DEF SocketFails, Calling, request
  <2>6. CASE BindFails(e)
    BY <2>6, PartsGivenUp DEF BindFails, Calling, request
  <2>7. CASE OptionFails(e)
    BY <2>7, PartsGivenUp DEF OptionFails, Calling, Options, request
  <2>8. CASE Return(e)
    BY <2>8, PartsReturned
  <2> QED BY <1>2, <2>1, <2>2, <2>3, <2>4, <2>5, <2>6, <2>7, <2>8 DEF Factory
<1>3. ASSUME NEW e \in Endpoints, Closing(e) PROVE Parts'
  BY <1>3, PartsClosed
<1>4. CASE StrangerOpens
  <2>1. PICK n \in Descriptors : Allot(n, Stranger)
    BY <1>4 DEF StrangerOpens
  <2> QED BY <1>0, <1>4, <2>1, FileAllotted, PartsKept, OwnersAssumption DEF StrangerOpens
<1>5. CASE StrangerCloses
  <2>1. PICK n \in Descriptors :
          table[n].owner = Stranger /\ table' = [table EXCEPT ![n] = File(Nobody)]
    BY <1>5 DEF StrangerCloses
  <2>2. \A m \in Descriptors : table'[m].owner = IF m = n THEN Nobody ELSE table[m].owner
    BY <1>0, <2>1 DEF TypeOK, File
  <2> QED BY <1>5, <2>1, <2>2, PartsKept, OwnersAssumption DEF StrangerCloses
<1> QED BY <1>1, <1>2, <1>3, <1>4, <1>5 DEF Next

-----------------------------------------------------------------------------
(* Who changes the files                                                   *)

\* A file changes by a step of its owner, or of whoever it is given to.
OwnersAct ==
  \A n \in Descriptors :
    table'[n] # table[n] =>
      \/ table[n].owner = Nobody
      \/ table[n].owner = Stranger /\ <<at, todo>>' = <<at, todo>>
      \/ \E e \in Endpoints :
           table[n].owner = e /\ <<at[e], todo[e]>>' # <<at[e], todo[e]>>

LEMMA FilesNext == OwnersInv /\ [Next]_vars => [OwnersAct]_vars
<1> SUFFICES ASSUME OwnersInv, Next, NEW n \in Descriptors, table'[n] # table[n]
             PROVE  \/ table[n].owner = Nobody
                    \/ table[n].owner = Stranger /\ <<at, todo>>' = <<at, todo>>
                    \/ \E e \in Endpoints :
                         table[n].owner = e /\ <<at[e], todo[e]>>' # <<at[e], todo[e]>>
  BY DEF OwnersAct
<1>0. /\ table \in [Descriptors -> Files] /\ todo \in [Endpoints -> Seq(CallNames)]
      /\ DOMAIN at = Endpoints
  BY DEF OwnersInv, TypeOK
<1>1. ASSUME NEW e \in Endpoints, Socket(e) \/ EventFd(e) PROVE table[n].owner = Nobody
  BY <1>0, <1>1 DEF Socket, EventFd, Allot, Free
<1>2. ASSUME NEW e \in Endpoints, Bind(e) \/ SetOption(e)
      PROVE  table[n].owner = e /\ todo'[e] # todo[e]
  <2>1. at[e] = "make" /\ todo[e] # <<>> /\ Head(todo[e]) # "socket"
    BY <1>2 DEF Bind, SetOption, Calling, Options
  <2>2. table[fd[e]].owner = e
    BY <2>1 DEF OwnersInv, MakeInv, MembersAreOwn
  <2>3. n = fd[e]
    BY <1>0, <1>2 DEF Bind, SetOption
  <2>4. todo'[e] = Tail(todo[e]) /\ Tail(todo[e]) # todo[e]
    BY <1>0, <1>2, <2>1, TailShifts DEF Bind, SetOption, Called
  <2> QED BY <2>2, <2>3, <2>4
<1>3. ASSUME NEW e \in Endpoints, CloseEvent(e)
      PROVE  table[n].owner = e /\ at'[e] # at[e]
  <2>1. n = efd[e] /\ efd[e] # NoFd
    BY <1>0, <1>3 DEF CloseEvent
  <2>2. at[e] = "closeEvent" /\ at'[e] \in {"shutdown", "none"}
    BY <1>0, <1>3 DEF CloseEvent, CloseSocket, Goto
  <2> QED BY <2>1, <2>2 DEF OwnersInv, MembersAreOwn
<1>4. ASSUME NEW e \in Endpoints, CloseFd(e)
      PROVE  table[n].owner = e /\ at'[e] # at[e]
  <2>1. n = fd[e]
    BY <1>0, <1>4 DEF CloseFd
  <2>2. at[e] = "close" /\ at'[e] = "forget"
    BY <1>0, <1>4 DEF CloseFd, Trans, Goto
  <2> QED BY <2>1, <2>2 DEF OwnersInv, MembersAreOwn, CloseInv
<1>5. CASE StrangerOpens
  BY <1>0, <1>5 DEF StrangerOpens, Allot, Free
<1>6. CASE StrangerCloses
  BY <1>0, <1>6 DEF StrangerCloses
<1> QED BY <1>1, <1>2, <1>3, <1>4, <1>5, <1>6
  DEF Next, Factory, Closing, Create, SocketFails, BindFails, TtlFails, OptionFails,
      EventFdFails, Return, Stop, Destroy, Shutdown, ForgetFd

-----------------------------------------------------------------------------
(* What a factory has done                                                 *)

LEMMA NothingInEmpty == ToSet(<<>>) = {}
BY DEF ToSet

LEMMA FirstAndRest ==
  ASSUME NEW S, NEW s \in Seq(S), s # <<>>
  PROVE  ToSet(s) = {Head(s)} \union ToSet(Tail(s))
<1>1. /\ Len(s) \in Nat \ {0} /\ Head(s) = s[1] /\ Tail(s) \in Seq(S)
      /\ Len(Tail(s)) = Len(s) - 1
      /\ \A i \in 1..(Len(s) - 1) : Tail(s)[i] = s[i + 1]
  BY TailShifts
<1>2. ASSUME NEW x \in ToSet(s) PROVE x \in {Head(s)} \union ToSet(Tail(s))
  <2>1. PICK i \in 1..Len(s) : s[i] = x
    BY <1>2 DEF ToSet
  <2>2. CASE i = 1
    BY <1>1, <2>1, <2>2
  <2>3. CASE i # 1
    <3>1. i - 1 \in 1..Len(Tail(s)) /\ (i - 1) + 1 = i
      BY <1>1, <2>3
    <3>2. Tail(s)[i - 1] = x
      BY <1>1, <2>1, <3>1
    <3>3. DOMAIN Tail(s) = 1..Len(Tail(s))
      BY <1>1
    <3>4. x \in ToSet(Tail(s))
      BY <3>1, <3>2, <3>3, Zenon DEF ToSet
    <3> QED BY <3>4
  <2> QED BY <2>2, <2>3
<1>3. Head(s) \in ToSet(s)
  BY <1>1 DEF ToSet
<1>4. ASSUME NEW x \in ToSet(Tail(s)) PROVE x \in ToSet(s)
  <2>1. PICK i \in 1..Len(Tail(s)) : Tail(s)[i] = x
    BY <1>1, <1>4 DEF ToSet
  <2>2. i + 1 \in 1..Len(s) /\ s[i + 1] = x
    BY <1>1, <2>1
  <2> QED BY <2>2 DEF ToSet
<1> QED BY <1>2, <1>3, <1>4

\* What was asked for and is no longer on the list has been done; a failure that is
\* not yet reported is that of the call before this one.
Done(e) ==
  /\ failed[e] => at[e] = "make" /\ todo[e] # <<>> /\ Head(todo[e]) = "loop"
  /\ at[e] = "make" /\ fd[e] = NoFd => todo[e] = Calls[kind[e]]
  /\ at[e] \in {"make", "live"} /\ fd[e] # NoFd /\ ~failed[e] =>
       /\ "bind" \in ToSet(Calls[kind[e]]) =>
            "bind" \in ToSet(todo[e]) \/ table[fd[e]].bound = addr[e]
       /\ table[fd[e]].options \union (ToSet(todo[e]) \intersect Options)
            = ToSet(Calls[kind[e]]) \intersect Options

DoneInv == \A e \in Endpoints : Done(e)

\* The steps of the others leave an endpoint and its socket as they are.
LEMMA DoneApart ==
  ASSUME OwnersInv, [Next]_vars, NEW e \in Endpoints, Done(e),
         UNCHANGED <<at[e], todo[e], fd[e], kind[e], addr[e], failed[e]>>
  PROVE  Done(e)'
<1>1. CASE at[e] \in {"make", "live"} /\ fd[e] # NoFd
  <2>1. fd[e] \in Descriptors /\ table[fd[e]].owner = e
    BY <1>1 DEF OwnersInv, TypeOK, MembersAreOwn
  <2>2. OwnersAct
    BY FilesNext DEF vars, OwnersAct
  <2>3. table'[fd[e]] = table[fd[e]]
    BY <2>1, <2>2, OwnersAssumption DEF OwnersAct
  <2> QED BY <2>3 DEF Done
<1>2. CASE ~(at[e] \in {"make", "live"} /\ fd[e] # NoFd)
  BY <1>2 DEF Done
<1> QED BY <1>1, <1>2

LEMMA StepOfOne ==
  ASSUME TypeOK, [Next]_vars, NEW e \in Endpoints, ~Factory(e), ~Closing(e)
  PROVE  UNCHANGED <<at[e], todo[e], fd[e], kind[e], addr[e], failed[e]>>
<1>1. ASSUME NEW u \in Endpoints \ {e}, Factory(u)
      PROVE  UNCHANGED <<at[e], todo[e], fd[e], kind[e], addr[e], failed[e]>>
  BY <1>1
  DEF TypeOK, Factory, Create, Socket, SocketFails, Bind, BindFails, SetOption, TtlFails,
      OptionFails, EventFd, EventFdFails, Return, Called, GiveUp, Trans, Goto, request
<1>2. ASSUME NEW u \in Endpoints \ {e}, Closing(u)
      PROVE  UNCHANGED <<at[e], todo[e], fd[e], kind[e], addr[e], failed[e]>>
  BY <1>2
  DEF TypeOK, Closing, Stop, Destroy, CloseEvent, Shutdown, CloseFd, ForgetFd, CloseSocket,
      Trans, Goto, request
<1> QED BY <1>1, <1>2 DEF Next, vars, StrangerOpens, StrangerCloses, request

\* A call that succeeds moves what it does from the list to the socket.
LEMMA DoneCalled ==
  ASSUME OwnersInv, NEW e \in Endpoints, Done(e), Called(e),
         at[e] = "make", todo[e] # <<>>, fd[e] # NoFd, ~failed[e],
         UNCHANGED <<fd, at, kind, addr, failed>>,
         NEW f \in Files, f = table'[fd[e]],
         f.bound = (IF Head(todo[e]) = "bind" THEN addr[e] ELSE table[fd[e]].bound),
         f.options = table[fd[e]].options \union ({Head(todo[e])} \intersect Options)
  PROVE  Done(e)'
<1>1. todo[e] \in Seq(CallNames) /\ todo'[e] = Tail(todo[e])
  BY DEF OwnersInv, TypeOK, Called
<1>2. ToSet(todo[e]) = {Head(todo[e])} \union ToSet(todo'[e])
  BY <1>1, FirstAndRest
<1>3. "bind" \in ToSet(Calls[kind[e]]) =>
        "bind" \in ToSet(todo'[e]) \/ f.bound = addr[e]
  BY <1>2 DEF Done
<1>4. f.options \union (ToSet(todo'[e]) \intersect Options)
        = ToSet(Calls[kind[e]]) \intersect Options
  BY <1>2 DEF Done
<1> QED BY <1>3, <1>4 DEF Done

LEMMA DoneNext == OwnersInv /\ DoneInv /\ [Next]_vars => DoneInv'
<1> SUFFICES ASSUME OwnersInv, DoneInv, [Next]_vars, NEW e \in Endpoints PROVE Done(e)'
  BY DEF DoneInv
<1>0. Done(e) /\ TypeOK
  BY DEF DoneInv, OwnersInv
<1>1. CASE ~Factory(e) /\ ~Closing(e)
  BY <1>0, <1>1, StepOfOne, DoneApart
<1>2. CASE Closing(e)
  BY <1>0, <1>2
  DEF TypeOK, Done, Closing, Stop, Destroy, CloseEvent, Shutdown, CloseFd, ForgetFd,
      CloseSocket, Trans, Goto
<1>3. ASSUME NEW label \in {"none", "close", "shutdown"}, GiveUp(e, label)
      PROVE  Done(e)'
  BY <1>0, <1>3 DEF TypeOK, Done, GiveUp, Goto
<1>4. ASSUME NEW r \in Requests, Create(e, r) PROVE Done(e)'
  <2>1. at[e] = "none" /\ UNCHANGED <<fd, failed>>
    BY <1>4 DEF Create, Trans
  <2>2. fd[e] = NoFd
    <3> SUFFICES ASSUME fd[e] # NoFd PROVE FALSE
      OBVIOUS
    <3>1. fd[e] \in Descriptors
      BY <1>0 DEF TypeOK
    <3>2. table[fd[e]].owner = e
      BY <2>1 DEF OwnersInv, MembersAreOwn
    <3> QED BY <2>1, <3>1, <3>2 DEF OwnersInv, NothingLeaks
  <2>3. todo'[e] = Calls[kind'[e]] /\ at'[e] = "make"
    BY <1>0, <1>4 DEF Create, Trans, Goto, TypeOK
  <2> QED BY <1>0, <2>1, <2>2, <2>3 DEF Done
<1>5. CASE Socket(e)
  <2>1. /\ at[e] = "make" /\ todo[e] # <<>> /\ Head(todo[e]) = "socket"
        /\ UNCHANGED <<at, kind, addr, failed>>
    BY <1>5 DEF Socket, Calling, request
  <2>2. fd[e] = NoFd /\ ~failed[e] /\ todo[e] = Calls[kind[e]]
    BY <1>0, <2>1 DEF OwnersInv, MakeInv, Done
  <2>3. PICK n \in Descriptors : table' = [table EXCEPT ![n] = File(e)]
                                /\ fd' = [fd EXCEPT ![e] = n]
    BY <1>5 DEF Socket, Allot
  <2>4. fd'[e] = n /\ n # NoFd /\ table'[n] = File(e)
    BY <1>0, <2>3, NoFdIsFree DEF TypeOK
  <2>5. todo[e] \in Seq(CallNames) /\ todo'[e] = Tail(todo[e])
    BY <1>0, <1>5 DEF TypeOK, Socket, Called
  <2>6. ToSet(Calls[kind[e]]) = {"socket"} \union ToSet(todo'[e])
    BY <2>1, <2>2, <2>5, FirstAndRest
  <2> QED BY <2>1, <2>2, <2>4, <2>6 DEF Done, File, Options
<1>6. ASSUME Calling(e, {"bind", "ttl", "eventfd"} \union Options)
      PROVE  /\ at[e] = "make" /\ todo[e] # <<>> /\ fd[e] # NoFd
             /\ Head(todo[e]) # "loop" => ~failed[e]
             /\ fd[e] \in Descriptors /\ table[fd[e]].owner = e /\ table[fd[e]] \in Files
             /\ table'[fd[e]] \in Files
  <2>1. at[e] = "make" /\ todo[e] # <<>> /\ Head(todo[e]) # "socket"
    BY <1>6 DEF Calling, Options
  <2>2. fd[e] # NoFd /\ fd[e] \in Descriptors /\ table[fd[e]].owner = e
    BY <1>0, <2>1 DEF OwnersInv, MakeInv, MembersAreOwn, TypeOK
  <2>3. table'[fd[e]] \in Files /\ table[fd[e]] \in Files
    BY <1>0, <2>2, TableNext DEF TypeOK
  <2> QED BY <1>0, <2>1, <2>2, <2>3 DEF Done
<1>7. CASE Bind(e)
  <2>1. Head(todo[e]) = "bind" /\ Calling(e, {"bind"}) /\ UNCHANGED <<fd, at, kind, addr, failed>>
    BY <1>7 DEF Bind, Calling, request
  <2>2. /\ table'[fd[e]].bound = addr[e]
        /\ table'[fd[e]].options = table[fd[e]].options
    BY <1>0, <1>6, <1>7, <2>1 DEF Bind, TypeOK, Files, Calling
  <2>3. {"bind"} \intersect Options = {}
    BY DEF Options
  <2> QED BY <1>0, <1>6, <1>7, <2>1, <2>2, <2>3, DoneCalled DEF Bind, Calling
<1>8. CASE SetOption(e)
  <2>1. /\ Head(todo[e]) \in Options /\ Calling(e, Options) /\ ~failed[e]
        /\ UNCHANGED <<fd, at, kind, addr, failed>>
    BY <1>8 DEF SetOption, Calling, request
  <2>2. /\ table'[fd[e]].bound = table[fd[e]].bound
        /\ table'[fd[e]].options = table[fd[e]].options \union {Head(todo[e])}
    BY <1>0, <1>6, <1>8, <2>1 DEF SetOption, TypeOK, Files, Calling
  <2>3. {Head(todo[e])} \intersect Options = {Head(todo[e])} /\ Head(todo[e]) # "bind"
    BY <2>1 DEF Options
  <2> QED BY <1>0, <1>6, <1>8, <2>1, <2>2, <2>3, DoneCalled DEF SetOption, Calling
<1>9. CASE TtlFails(e)
  <2>1. /\ Head(todo[e]) = "ttl" /\ Calling(e, {"ttl"}) /\ UNCHANGED <<fd, at>>
        /\ failed'[e] /\ todo'[e] = Tail(todo[e])
    BY <1>0, <1>9 DEF TtlFails, Called, Calling, TypeOK
  <2>2. at[e] = "make" /\ todo[e] # <<>> /\ fd[e] # NoFd
    BY <1>6, <2>1 DEF Calling
  <2>3. todo[e] \in Seq(CallNames) /\ WellOrdered(todo[e])
    BY <1>0, <2>2 DEF TypeOK, OwnersInv, MakeInv
  <2>4. Tail(todo[e]) # <<>> /\ Head(Tail(todo[e])) = "loop"
    BY <2>1, <2>2, <2>3, LoopFollows
  <2> QED BY <2>1, <2>2, <2>4 DEF Done
<1>10. CASE EventFd(e) \/ EventFdFails(e)
  <2>1. /\ Head(todo[e]) = "eventfd" /\ Calling(e, {"eventfd"}) /\ Called(e)
        /\ UNCHANGED <<fd, at, kind, addr, failed>>
    BY <1>10 DEF EventFd, EventFdFails, Calling, request
  <2>2. table'[fd[e]] = table[fd[e]]
    <3>1. CASE UNCHANGED table
      BY <3>1
    <3>2. ASSUME NEW n \in Descriptors, Allot(n, e)
          PROVE  table'[fd[e]] = table[fd[e]]
      <4>1. table' = [table EXCEPT ![n] = File(e)] /\ table[n].owner = Nobody
        BY <3>2 DEF Allot, Free
      <4>2. table[fd[e]].owner = e /\ e # Nobody
        BY <1>0, <1>6, <2>1, OwnersAssumption DEF Calling
      <4> QED BY <1>0, <4>1, <4>2 DEF TypeOK
    <3> QED BY <1>10, <3>1, <3>2 DEF EventFd, EventFdFails
  <2>3. {"eventfd"} \intersect Options = {}
    BY DEF Options
  <2> QED BY <1>0, <1>6, <2>1, <2>2, <2>3, DoneCalled DEF Calling
<1>11. CASE Return(e)
  <2>1. /\ at[e] = "make" /\ at'[e] = "live" /\ todo[e] = <<>>
        /\ UNCHANGED <<table, fd, kind, addr, todo, failed>>
    BY <1>0, <1>11 DEF Return, Trans, Goto, TypeOK, request
  <2> QED BY <1>0, <2>1 DEF Done
<1> QED
  BY <1>1, <1>2, <1>3, <1>4, <1>5, <1>7, <1>8, <1>9, <1>10, <1>11
  DEF Factory, SocketFails, BindFails, OptionFails

-----------------------------------------------------------------------------
(* The theorems                                                            *)

THEOREM OwnersInvariant == Spec => []OwnersInv
<1>1. Init => OwnersInv
  BY OwnersInit
<1>2. OwnersInv /\ [Next]_vars => OwnersInv'
  BY OwnersNext
<1> QED BY <1>1, <1>2, PTL DEF Spec

\* The members of the endpoints, and the table of the process, keep their types.
THEOREM EndpointTypes == Spec => []TypeOK
<1>1. OwnersInv => TypeOK
  BY DEF OwnersInv
<1> QED BY <1>1, OwnersInvariant, PTL

\* Whichever call of a factory fails, and however an endpoint is stopped or
\* destroyed, no descriptor stays open that is not a member of an endpoint.
THEOREM NoDescriptorLeaks == Spec => []NothingLeaks
<1>1. OwnersInv => NothingLeaks
  BY DEF OwnersInv
<1> QED BY <1>1, OwnersInvariant, PTL

\* fd holds the number of somebody else's file only between ::close() and fd = -1.
THEOREM MembersStayOwn == Spec => []MembersAreOwn
<1>1. OwnersInv => MembersAreOwn
  BY DEF OwnersInv
<1> QED BY <1>1, OwnersInvariant, PTL

\* No close() changes or closes a file of another owner.
THEOREM OwnerCloses == Spec => OnlyTheOwnerCloses
BY FilesNext, OwnersInvariant, PTL DEF Spec, OnlyTheOwnerCloses, OwnersAct

\* Of the calls of a factory none is skipped, and the result of none is lost: the
\* endpoint it returns is bound, and has its options and its group.
THEOREM ReturnedEndpointsAreComplete == Spec => []ReturnedIsComplete
<1>1. Init => DoneInv
  BY DEF Init, DoneInv, Done
<1>2. OwnersInv /\ DoneInv /\ [Next]_vars => DoneInv'
  BY DoneNext
<1>3. OwnersInv /\ DoneInv => ReturnedIsComplete
  <2> SUFFICES ASSUME OwnersInv, DoneInv, NEW e \in Endpoints, at[e] = "live"
               PROVE  /\ fd[e] # NoFd
                      /\ "bind" \in ToSet(Calls[kind[e]]) => table[fd[e]].bound = addr[e]
                      /\ table[fd[e]].options = ToSet(Calls[kind[e]]) \intersect Options
    BY DEF ReturnedIsComplete
  <2>1. fd[e] # NoFd /\ todo[e] = <<>>
    BY DEF OwnersInv, CloseInv, TypeOK
  <2>2. ToSet(todo[e]) = {}
    BY <2>1, NothingInEmpty
  <2> QED BY <2>1, <2>2 DEF DoneInv, Done
<1> QED BY <1>1, <1>2, <1>3, OwnersInvariant, PTL DEF Spec
=============================================================================
