---------------------------- MODULE MCGenericClient ----------------------------
(***************************************************************************)
(* Small instances of GenericClient.                                       *)
(***************************************************************************)
EXTENDS GenericClientProperties

TheServer == UnixInfo("server")
Somebody == UnixInfo("somebody")

Call(op, timeoutMs, selected) == [op |-> op, timeoutMs |-> timeoutMs, sigsel |-> selected]

AllCalls ==
  {Call("send", 0, {}), Call("receive", 50, {}), Call("receive", -1, {}),
   Call("sendReceive", 50, {RESPONSE}), Call("connect", 500, {})}
=============================================================================
