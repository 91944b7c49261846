------------------------- MODULE MCGenericSimpleServer -------------------------
(***************************************************************************)
(* Small instances of GenericSimpleServer.                                 *)
(***************************************************************************)
EXTENDS GenericSimpleServerProperties

A == UnixInfo("A")
B == UnixInfo("B")

Datagram(reqId, from, n, size) ==
  [reqId |-> reqId, from |-> from, n |-> n, size |-> size]

Ping == Datagram(IPC_PING_REQ, A, 1, 4)
Ten == Datagram(10, A, 2, 8)
Twenty == Datagram(20, B, 3, 12)
Short == Datagram(0, B, 4, 2)
Flood == {Datagram(IPC_PING_REQ, B, 5, 4), Datagram(30, B, 6, 8)}

Traffic == {Ping, Ten, Twenty, Short} \union Flood
Sizes == {Ten, Twenty}

AnyMessage == [sigsel |-> {}, from |-> AnyFrom]
TenOnly == [sigsel |-> {10}, from |-> AnyFrom]
TwentyOfB == [sigsel |-> {20}, from |-> B]

Asks == {[timeoutMs |-> -1, filter |-> TenOnly],
         [timeoutMs |-> 5, filter |-> TwentyOfB],
         [timeoutMs |-> 0, filter |-> TenOnly]}
Anything == {[timeoutMs |-> -1, filter |-> AnyMessage]}
=============================================================================
