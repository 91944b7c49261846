----------------------------- MODULE MCLinxMessage -----------------------------
(***************************************************************************)
(* A small instance of LinxMessage.  Sizes have four bits, so that a       *)
(* payload of twelve bytes or more wraps.                                  *)
(***************************************************************************)
EXTENDS LinxMessageProperties

Bytes == 0..255

Ids == {<<0, 0, 0, 10>>, <<1, 2, 3, 255>>}
Value == <<0, 1, 2, 3>>
Temperature == <<3, 2, 0, 255>>

\* Nothing, less than a T, a T, more than a T, a Data and more, and the
\* boundaries of the size: 11 bytes fit with the number, 12 and 15 wrap.
Payloads == {[i \in 1..n |-> i % 4] : n \in {0, 2, 3, 5, 8, 11, 12, 15}}

AllMessages ==
  {[kind |-> "raw", reqId |-> i, payload |-> p] : i \in Ids, p \in Payloads}
    \cup {[kind |-> "typed", reqId |-> i, payload |-> <<1, 2, 3>>] : i \in Ids}
    \cup {[kind |-> "my", reqId |-> i, value |-> Value, temperature |-> Temperature] : i \in Ids}

JunkBytes == {<<0, 0, 0, 0, 0, 0, 0, 0>>, <<255, 3, 255, 1, 0, 0, 2, 1>>}
=============================================================================
