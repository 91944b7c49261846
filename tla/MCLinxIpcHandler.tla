--------------------------- MODULE MCLinxIpcHandler ---------------------------
(***************************************************************************)
(* Small instances of LinxIpcHandler.                                      *)
(***************************************************************************)
EXTENDS LinxIpcHandlerProperties

CONSTANTS l1, l2

A == UnixInfo("A")
Message(reqId, n) == [reqId |-> reqId, from |-> A, n |-> n]

\* Nothing is ever registered for the last one.
Traffic == {Message(10, 1), Message(10, 2), Message(30, 3)}
Registered == {10}

AnyMessage == [sigsel |-> {}, from |-> AnyFrom]

\* A request whose time may be up at any moment does whatever one without a timeout
\* does.
Asks == {[timeoutMs |-> 1000, filter |-> AnyMessage]}
=============================================================================
