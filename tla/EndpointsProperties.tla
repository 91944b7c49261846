-------------------------- MODULE EndpointsProperties --------------------------
(***************************************************************************)
(* What must hold of the endpoints and of the descriptors of the process.  *)
(***************************************************************************)
EXTENDS Endpoints, SequencesExt

Kinds == DOMAIN Calls
CallNames == {"socket", "bind", "eventfd"} \union Options
Addresses == (UNION {r.addrs : r \in Requests}) \union {NoAddr}
Files == [owner : Endpoints \union {Stranger, Nobody},
          bound : Addresses, options : SUBSET Options]

\* The types of the members of the endpoints, and of the table.
TypeOK ==
  /\ table \in [Descriptors -> Files]
  /\ fd \in [Endpoints -> Descriptors \union {NoFd}]
  /\ efd \in [Endpoints -> Descriptors \union {NoFd}]
  /\ kind \in [Endpoints -> Kinds]
  /\ addr \in [Endpoints -> Addresses]
  /\ todo \in [Endpoints -> Seq(CallNames)]
  /\ \A e \in Endpoints : todo[e] # <<>> => at[e] = "make"
  /\ failed \in [Endpoints -> BOOLEAN]
  /\ at \in [Endpoints -> {"none", "make", "live", "stopped",
                           "closeEvent", "shutdown", "close", "forget"}]
  /\ after \in [Endpoints -> {"none", "stopped", "closeEvent"}]

\* A descriptor an endpoint opened is one of its members: whichever call of a
\* factory fails, and whichever way an endpoint is stopped or destroyed, none is
\* left open, and no name taken.
NothingLeaks ==
  \A n \in Descriptors : \A e \in Endpoints :
    table[n].owner = e => n \in {fd[e], efd[e]} /\ at[e] # "none"

\* What fd and efd hold is a descriptor of the endpoint's own, except between
\* ::close() and fd = -1: only there can a receiver, or a sender, that loads fd
\* reach a file of somebody else.
MembersAreOwn ==
  \A e \in Endpoints :
    /\ fd[e] # NoFd /\ at[e] # "forget" => table[fd[e]].owner = e
    /\ efd[e] # NoFd => table[efd[e]].owner = e

\* A file is changed or closed by its owner only: close() is called by stop(), by
\* the destructor of the server and by that of the socket, and numbers are used
\* again at once.
OnlyTheOwnerCloses ==
  [][\A n \in Descriptors :
       table'[n] # table[n] =>
         \/ table[n].owner = Nobody
         \/ table[n].owner = Stranger /\ <<at, todo>>' = <<at, todo>>
         \/ \E e \in Endpoints :
              table[n].owner = e /\ <<at[e], todo[e]>>' # <<at[e], todo[e]>>]_vars

\* An endpoint that a factory returned has all that was asked for: it is bound to
\* its address, has joined its group, and its options are set.
ReturnedIsComplete ==
  \A e \in Endpoints :
    at[e] = "live" =>
      /\ fd[e] # NoFd
      /\ "bind" \in ToSet(Calls[kind[e]]) => table[fd[e]].bound = addr[e]
      /\ table[fd[e]].options = ToSet(Calls[kind[e]]) \intersect Options
=============================================================================
