---------------------------- MODULE MCGenericServer ----------------------------
(***************************************************************************)
(* Small instances of GenericServer.                                       *)
(***************************************************************************)
EXTENDS GenericServerProperties

CONSTANTS a1, a2, main

A == UnixInfo("A")
B == UnixInfo("B")

Datagram(reqId, from, n, size) ==
  [reqId |-> reqId, from |-> from, n |-> n, size |-> size]

Ping == Datagram(IPC_PING_REQ, A, 1, 4)
Ten == Datagram(10, A, 2, 8)
Twenty == Datagram(20, B, 3, 8)
Again == Datagram(10, A, 4, 8)
Short == Datagram(0, B, 5, 2)

Traffic == {Ping, Ten, Twenty}
BadTraffic == {Ping, Ten, Twenty, Again, Short}

AnyMessage == [sigsel |-> {}, from |-> AnyFrom]
FromB == [sigsel |-> {}, from |-> B]

Asks == {[timeoutMs |-> -1, filter |-> AnyMessage],
         [timeoutMs |-> 5, filter |-> FromB]}
=============================================================================
