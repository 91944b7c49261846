------------------------------ MODULE LinxMessage ------------------------------
(***************************************************************************)
(* Messages as bytes: serialize() of RawMessage, of ILinxMessage<T> and of *)
(* MyMessage on one host, deserialize() on the same or another one.        *)
(*                                                                         *)
(* A 32 bit number is the sequence of its four bytes, the most significant *)
(* first; where it lies in memory depends on the byte order of the host.   *)
(* The payload of a RawMessage, and a T, are the bytes in memory.  The     *)
(* bits of a float are a number too.                                       *)
(*                                                                         *)
(* The definitions marked variant are errors that the properties must      *)
(* catch; nothing uses them.                                               *)
(***************************************************************************)
EXTENDS Integers, Sequences, SequencesExt

CONSTANTS
  Byte,
  Messages,    \* records with kind "raw", "typed" or "my", see TypeOfMessage
  TSize,       \* sizeof(T) of the ILinxMessage<T> that is received
  SizeLimit,   \* 2^32: sizes are uint32_t
  MaxRoom,     \* bound: the largest buffer given to serialize()
  Junk,        \* what may lie in memory behind a payload: sequences of DataSize bytes
  NoMessage

Hosts == {"little", "big"}   \* byte orders

SizeOfReqId == 4
WordSize == 4
DataSize == 2 * WordSize     \* sizeof(MyMessage::Data): no padding

Word == {w \in Seq(Byte) : Len(w) = WordSize}

RawMessages == [kind : {"raw"}, reqId : Word, payload : Seq(Byte)]
TypedMessages == [kind : {"typed"}, reqId : Word, payload : Seq(Byte)]
MyMessages == [kind : {"my"}, reqId : Word, value : Word, temperature : Word]
TypeOfMessage == RawMessages \cup TypedMessages \cup MyMessages

ASSUME MessagesAssumption == Messages \subseteq TypeOfMessage
ASSUME SizesAssumption ==
  /\ TSize \in Nat /\ MaxRoom \in Nat /\ SizeLimit \in Nat
  /\ DataSize + SizeOfReqId < SizeLimit
\* A payload of 2^32 bytes or more is left out: its size alone would wrap.
ASSUME PayloadAssumption ==
  \A m \in Messages : m.kind # "my" => Len(m.payload) < SizeLimit
ASSUME JunkAssumption == \A j \in Junk : j \in Seq(Byte) /\ Len(j) = DataSize
ASSUME NoMessageAssumption == NoMessage \notin TypeOfMessage

VARIABLES
  sent,      \* the message serialized last
  sender,    \* the host that serialized it
  room,      \* bufferSize
  ret,       \* what serialize() returned
  bytes,     \* what it wrote from the start of the buffer on
  reader,    \* the host that deserialized it
  read       \* what that host made of it

vars == <<sent, sender, room, ret, bytes, reader, read>>

-----------------------------------------------------------------------------
(* Byte order *)

Swap(host, word) == IF host = "little" THEN Reverse(word) ELSE word

htonl(host, number) == Swap(host, number)
ntohl(host, number) == Swap(host, number)

\* The bytes of a number as they lie in memory, and the number they are.
InMemory(host, number) == Swap(host, number)
FromMemory(host, word) == Swap(host, word)

-----------------------------------------------------------------------------
(* Sending *)

\* serializePayload(): the bytes that it copies into the buffer
serializePayload(host, m) ==
  IF m.kind = "my"
    THEN InMemory(host, htonl(host, m.value)) \o InMemory(host, m.temperature)
    ELSE m.payload

getPayloadSize(m) ==
  IF m.kind = "my" THEN DataSize ELSE Len(m.payload) % SizeLimit

getSize(m) == (SizeOfReqId + getPayloadSize(m)) % SizeLimit

\* variant: a test of the buffer that forgets the signal number
PayloadDoesNotFit(m, size) == size < getPayloadSize(m)

BufferIsTooSmall(m, size) == size < getSize(m)

\* return ret + sizeof(reqId) != totalSize ? 0 : totalSize, where the sum is a size_t
BytesWritten(m) ==
  IF getPayloadSize(m) + SizeOfReqId # getSize(m) THEN 0 ELSE getSize(m)

Serialized(host, m) ==
  InMemory(host, htonl(host, m.reqId)) \o serializePayload(host, m)

\* uint32_t serialize(buffer, bufferSize)
serialize(host, m, size) ==
  /\ sent' = m
  /\ sender' = host
  /\ room' = size
  /\ IF BufferIsTooSmall(m, size)
       THEN ret' = 0 /\ bytes' = <<>>
       ELSE ret' = BytesWritten(m) /\ bytes' = Serialized(host, m)
  /\ reader' = host
  /\ read' = NoMessage

-----------------------------------------------------------------------------
(* Receiving: only what serialize() did not refuse is sent                   *)

\* variant: the number as it lies in memory
ReqIdAsItLies(host, buffer) == FromMemory(host, SubSeq(buffer, 1, SizeOfReqId))

ReqIdOf(host, buffer) ==
  ntohl(host, FromMemory(host, SubSeq(buffer, 1, SizeOfReqId)))

IsTooShort(buffer, payloadSize) == Len(buffer) < SizeOfReqId + payloadSize

\* RawMessage::deserialize
DeserializedRaw(host, buffer) ==
  [kind    |-> "raw",
   reqId   |-> ReqIdOf(host, buffer),
   payload |-> SubSeq(buffer, SizeOfReqId + 1, Len(buffer))]

\* ILinxMessage<T>::deserialize: the bytes behind the T are left alone
DeserializedTyped(host, buffer) ==
  [kind    |-> "typed",
   reqId   |-> ReqIdOf(host, buffer),
   payload |-> SubSeq(buffer, SizeOfReqId + 1, SizeOfReqId + TSize)]

deserializeRaw(host) ==
  /\ ret # 0
  /\ read = NoMessage
  /\ reader' = host
  /\ read' = IF IsTooShort(bytes, 0) THEN NoMessage ELSE DeserializedRaw(host, bytes)
  /\ UNCHANGED <<sent, sender, room, ret, bytes>>

deserializeTyped(host) ==
  /\ ret # 0
  /\ read = NoMessage
  /\ reader' = host
  /\ read' = IF IsTooShort(bytes, TSize) THEN NoMessage ELSE DeserializedTyped(host, bytes)
  /\ UNCHANGED <<sent, sender, room, ret, bytes>>

\* The Data that getPayloadAs<Data>() points to: a short payload is followed by
\* whatever lies behind it in memory.
PayloadAsData(payload, junk) == SubSeq(payload \o junk, 1, DataSize)

\* variant: the value as it lies in memory
MyMessageAsItLies(host, m, data) ==
  [kind        |-> "my",
   reqId       |-> m.reqId,
   value       |-> FromMemory(host, SubSeq(data, 1, WordSize)),
   temperature |-> FromMemory(host, SubSeq(data, WordSize + 1, DataSize))]

MyMessageOf(host, m, data) ==
  [kind        |-> "my",
   reqId       |-> m.reqId,
   value       |-> ntohl(host, FromMemory(host, SubSeq(data, 1, WordSize))),
   temperature |-> FromMemory(host, SubSeq(data, WordSize + 1, DataSize))]

\* MyMessage::fromRawMessage
fromRawMessage ==
  /\ read # NoMessage /\ read.kind = "raw"
  /\ \E junk \in Junk :
       read' = MyMessageOf(reader, read, PayloadAsData(read.payload, junk))
  /\ UNCHANGED <<sent, sender, room, ret, bytes, reader>>

-----------------------------------------------------------------------------
Init ==
  /\ sent = NoMessage
  /\ sender = "little" /\ reader = "little"
  /\ room = 0 /\ ret = 0
  /\ bytes = <<>>
  /\ read = NoMessage

Next ==
  \/ \E host \in Hosts, m \in Messages, size \in 0..MaxRoom : serialize(host, m, size)
  \/ \E host \in Hosts : deserializeRaw(host) \/ deserializeTyped(host)
  \/ fromRawMessage

Spec == Init /\ [][Next]_vars
=============================================================================
