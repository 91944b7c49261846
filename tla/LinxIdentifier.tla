---------------------------- MODULE LinxIdentifier ----------------------------
(***************************************************************************)
(* The identifiers of senders: IIdentifier and its two implementations,    *)
(* UnixInfo (the name of a unix socket) and PortInfo (an IPv4 address and  *)
(* a port).  An address is its four octets, so that the range test of      *)
(* isMulticastIp stays within TLC's integers.                              *)
(***************************************************************************)
EXTENDS Naturals

\* nullptr, the value of LINX_ANY_FROM.
AnyFrom == [type |-> "nullptr"]

UnixInfo(value) == [type |-> "UnixInfo", value |-> value]

isBroadcastIp(ip) == ip = <<255, 255, 255, 255>>

\* 0xE0000000 <= ip <= 0xEFFFFFFF
isMulticastIp(ip) == ip[1] \in 224..239

PortInfo(ip, port) ==
  [type |-> "PortInfo", ip |-> ip, port |-> port,
   isRestrictedIp |-> isBroadcastIp(ip) \/ isMulticastIp(ip)]

\* A broadcast or multicast address stands for every host on the port.
isEqual(a, b) ==
  \/ a.type = "UnixInfo" /\ a.value = b.value
  \/ /\ a.type = "PortInfo"
     /\ a.port = b.port
     /\ a.isRestrictedIp \/ b.isRestrictedIp \/ a.ip = b.ip

\* IIdentifier::operator==
SameIdentifier(a, b) == a.type = b.type /\ isEqual(a, b)
=============================================================================
