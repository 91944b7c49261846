------------------------------ MODULE MCLinxQueue ------------------------------
(***************************************************************************)
(* Small instances of LinxQueue.  Two senders, one of them on an address a *)
(* multicast identifier stands for as well, two signals; the filters       *)
(* overlap without being equal, so that a wakeup can reach a receiver that *)
(* has no use for the message.                                             *)
(***************************************************************************)
EXTENDS LinxQueueProperties

CONSTANTS worker, user, r1, r2, closer

A == PortInfo(<<10, 0, 0, 1>>, 7)
B == PortInfo(<<10, 0, 0, 2>>, 8)
Group == PortInfo(<<224, 0, 0, 1>>, 7)

Message(reqId, from, n) == [reqId |-> reqId, from |-> from, n |-> n]
Filter(sigsel, from) == [sigsel |-> sigsel, from |-> from]
Request(timeoutMs, filter) == [timeoutMs |-> timeoutMs, filter |-> filter]

ThreeMessages == {Message(10, A, 1), Message(20, A, 2), Message(20, B, 3)}
TwoMessages == {Message(10, A, 1), Message(20, B, 2)}

AnyMessage == Filter({}, AnyFrom)
FromGroup == Filter({}, Group)
Only20 == Filter({20}, AnyFrom)

AllTimeouts == {Request(timeoutMs, filter) :
                  timeoutMs \in {0, -1, 5}, filter \in {FromGroup, Only20}}
Blocking == {Request(-1, FromGroup), Request(5, Only20)}

\* The receivers are interchangeable.
Symmetry == Permutations(Getters)
=============================================================================
