----------------------------- MODULE MCEndpoints -----------------------------
(***************************************************************************)
(* Small instances of Endpoints.                                           *)
(***************************************************************************)
EXTENDS EndpointsProperties

CONSTANTS e1, e2

Unix(name) == [ip |-> "unix", port |-> name]
Udp(ip) == [ip |-> ip, port |-> "8080"]

Asked ==
  {[kind |-> "unixSimple", addrs |-> {Unix("S")}],
   [kind |-> "unixServer", addrs |-> {Unix("S")}],
   [kind |-> "unixClient", addrs |-> {Unix("client_1_S"), Unix("client_2_S")}],
   [kind |-> "udpSimple", addrs |-> {Udp("0.0.0.0")}],
   [kind |-> "udpServer", addrs |-> {Udp("0.0.0.0")}],
   [kind |-> "multicastServer", addrs |-> {Udp("239.0.0.1")}],
   [kind |-> "udpClient", addrs |-> {NoAddr}],
   [kind |-> "multicastClient", addrs |-> {NoAddr}],
   [kind |-> "broadcastClient", addrs |-> {NoAddr}]}

Numbers == 3..5
=============================================================================
