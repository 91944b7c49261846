--------------------------- MODULE LinxMessageProofs ---------------------------
(***************************************************************************)
(* A message survives the way through bytes, for any bytes, messages,      *)
(* sizes and byte orders.                                                  *)
(***************************************************************************)
EXTENDS LinxMessageProperties, SequenceTheorems, TLAPS

-----------------------------------------------------------------------------
(* Byte order *)

LEMMA SwapProperties ==
  ASSUME NEW host \in Hosts, NEW w \in Word
  PROVE  Swap(host, w) \in Word /\ Swap(host, Swap(host, w)) = w
<1>1. Reverse(w) \in Word
  <2>1. \A i \in 1..Len(w) : w[Len(w) - i + 1] \in Byte
    BY ElementOfSeq DEF Word
  <2>2. Reverse(w) = [i \in 1..4 |-> w[4 - i + 1]] /\ \A i \in 1..4 : w[4 - i + 1] \in Byte
    BY <2>1 DEF Reverse, Word, WordSize
  <2>3. [i \in 1..4 |-> w[4 - i + 1]] \in [1..4 -> Byte]
    BY <2>2
  <2>4. [i \in 1..4 |-> w[4 - i + 1]] \in Seq(Byte)
    BY <2>3, SeqDef
  <2> QED BY <2>2, <2>3, <2>4, LenProperties DEF Word, WordSize
<1>2. Reverse(Reverse(w)) = w
  <2>1. Len(Reverse(w)) = 4 /\ Len(w) = 4 /\ Reverse(w) \in Seq(Byte)
    BY <1>1 DEF Word, WordSize
  <2>2. Reverse(Reverse(w)) \in Word
    <3>1. \A i \in 1..4 : Reverse(w)[4 - i + 1] \in Byte
      <4>1. \A i \in 1..4 : Reverse(w)[i] \in Byte
        BY <2>1, ElementOfSeq
      <4>2. \A i \in 1..4 : 4 - i + 1 \in 1..4
        OBVIOUS
      <4> QED BY <4>1, <4>2
    <3>2. Reverse(Reverse(w)) \in [1..4 -> Byte]
      BY <2>1, <3>1 DEF Reverse
    <3>3. Reverse(Reverse(w)) \in Seq(Byte)
      BY <3>2, SeqDef
    <3> QED BY <3>2, <3>3, LenProperties DEF Word, WordSize
  <2>3. \A i \in 1..4 : Reverse(w)[i] = w[4 - i + 1]
    BY <2>1 DEF Reverse
  <2>4. \A i \in 1..4 : Reverse(Reverse(w))[i] = Reverse(w)[4 - i + 1]
    BY <2>1 DEF Reverse
  <2>5. \A i \in 1..4 : Reverse(Reverse(w))[i] = w[i]
    BY <2>3, <2>4
  <2> QED BY <2>1, <2>2, <2>5, SeqEqual DEF Word, WordSize
<1> QED BY <1>1, <1>2 DEF Swap, Hosts

\* A number that one host sends in the byte order of the network is the same
\* number on any other.
LEMMA NumberSurvives ==
  ASSUME NEW from \in Hosts, NEW to \in Hosts, NEW n \in Word
  PROVE  /\ InMemory(from, htonl(from, n)) = n
         /\ ntohl(to, FromMemory(to, n)) = n
BY SwapProperties DEF InMemory, htonl, ntohl, FromMemory

-----------------------------------------------------------------------------
(* The pieces of a datagram *)

\* What is joined comes apart again.
LEMMA Split ==
  ASSUME NEW u \in Seq(Byte), NEW v \in Seq(Byte)
  PROVE  /\ SubSeq(u \o v, 1, Len(u)) = u
         /\ SubSeq(u \o v, Len(u) + 1, Len(u \o v)) = v
         /\ \A n \in 0..Len(v) : SubSeq(u \o v, Len(u) + 1, Len(u) + n) = SubSeq(v, 1, n)
<1>1. Len(u) \in Nat /\ Len(v) \in Nat /\ Len(u \o v) = Len(u) + Len(v) /\ u \o v \in Seq(Byte)
  BY LenProperties, ConcatProperties
<1>2. SubSeq(u \o v, 1, Len(u)) = u
  <2>1. CASE Len(u) = 0
    <3>1. u = <<>>
      BY <2>1, EmptySeq
    <3> QED BY <2>1, <3>1, SubSeqEmpty
  <2>2. CASE Len(u) > 0
    BY <1>1, <2>2, SubSeqOfConcat1, SubSeqFull
  <2> QED BY <1>1, <2>1, <2>2
<1>3. ASSUME NEW n \in 0..Len(v)
      PROVE  SubSeq(u \o v, Len(u) + 1, Len(u) + n) = SubSeq(v, 1, n)
  <2>1. CASE n = 0
    BY <1>1, <2>1, SubSeqEmpty
  <2>2. CASE n > 0
    <3>1. Len(u) + 1 \in Len(u)+1 .. Len(u)+Len(v) /\ Len(u) + n \in Len(u)+1 .. Len(u)+Len(v)
      BY <1>1, <2>2
    <3>2. Len(u) + 1 - Len(u) = 1 /\ Len(u) + n - Len(u) = n
      BY <1>1
    <3> QED BY <3>1, <3>2, SubSeqOfConcat2
  <2> QED BY <1>3, <1>1, <2>1, <2>2
<1>4. SubSeq(v, 1, Len(v)) = v
  BY SubSeqFull
<1>5. SubSeq(u \o v, Len(u) + 1, Len(u \o v)) = v
  <2>1. Len(v) \in 0..Len(v)
    BY <1>1
  <2> QED BY <1>1, <1>3, <1>4, <2>1
<1> QED BY <1>2, <1>3, <1>5

LEMMA PayloadBytes ==
  ASSUME NEW host \in Hosts, NEW m \in Messages
  PROVE  /\ serializePayload(host, m) \in Seq(Byte)
         /\ m.reqId \in Word
         /\ Len(serializePayload(host, m)) = getPayloadSize(m)
         /\ getPayloadSize(m) \in Nat
<1>1. m \in TypeOfMessage
  BY MessagesAssumption
<1>2. CASE m.kind = "my"
  <2>1. m \in MyMessages
    BY <1>1, <1>2 DEF TypeOfMessage, RawMessages, TypedMessages
  <2>2. m.value \in Word /\ m.temperature \in Word /\ m.reqId \in Word
    BY <2>1 DEF MyMessages
  <2>3. InMemory(host, htonl(host, m.value)) \in Word /\ InMemory(host, m.temperature) \in Word
    BY <2>2, SwapProperties DEF InMemory, htonl
  <2> DEFINE a == InMemory(host, htonl(host, m.value))
             b == InMemory(host, m.temperature)
  <2>4. a \in Seq(Byte) /\ b \in Seq(Byte) /\ Len(a) = 4 /\ Len(b) = 4
    BY <2>3 DEF Word, WordSize
  <2>5. a \o b \in Seq(Byte) /\ Len(a \o b) = 8
    <3> HIDE DEF a, b
    <3>1. a \o b \in Seq(Byte) /\ Len(a \o b) = Len(a) + Len(b)
      BY <2>4, ConcatProperties
    <3> QED BY <2>4, <3>1
  <2>6. serializePayload(host, m) = a \o b /\ getPayloadSize(m) = 8
    BY <1>2 DEF serializePayload, getPayloadSize, DataSize, WordSize
  <2> QED BY <2>2, <2>5, <2>6
<1>3. CASE m.kind # "my"
  <2>1. m.payload \in Seq(Byte) /\ m.reqId \in Word
    BY <1>1, <1>3 DEF TypeOfMessage, RawMessages, TypedMessages, MyMessages
  <2>2. Len(m.payload) \in Nat /\ Len(m.payload) < SizeLimit /\ SizeLimit \in Nat
    BY <1>3, <2>1, PayloadAssumption, SizesAssumption, LenProperties
  <2>3. Len(m.payload) % SizeLimit = Len(m.payload)
    <3>1. \A k, l \in Nat : k < l => k % l = k
      OBVIOUS
    <3> QED BY <2>2, <3>1
  <2> QED BY <1>3, <2>1, <2>2, <2>3 DEF serializePayload, getPayloadSize
<1> QED BY <1>2, <1>3

\* The datagram: the number, most significant byte first, and the payload.
LEMMA DatagramLayout ==
  ASSUME NEW host \in Hosts, NEW m \in Messages
  PROVE  /\ Serialized(host, m) = m.reqId \o serializePayload(host, m)
         /\ Serialized(host, m) \in Seq(Byte)
         /\ Len(Serialized(host, m)) = SizeOfReqId + getPayloadSize(m)
<1>1. Serialized(host, m) = m.reqId \o serializePayload(host, m)
  BY PayloadBytes, NumberSurvives DEF Serialized
<1>2. m.reqId \in Seq(Byte) /\ Len(m.reqId) = 4
  BY PayloadBytes DEF Word, WordSize
<1>3. /\ serializePayload(host, m) \in Seq(Byte)
      /\ Len(serializePayload(host, m)) = getPayloadSize(m)
  BY PayloadBytes
<1>4. /\ m.reqId \o serializePayload(host, m) \in Seq(Byte)
      /\ Len(m.reqId \o serializePayload(host, m)) =
           Len(m.reqId) + Len(serializePayload(host, m))
  BY <1>2, <1>3, ConcatProperties
<1> QED BY <1>1, <1>2, <1>3, <1>4 DEF SizeOfReqId

\* What serialize() returns, when it is not 0, is the length of the datagram,
\* and the buffer holds it.
LEMMA SizeReturned ==
  ASSUME NEW host \in Hosts, NEW m \in Messages, NEW size \in Nat
  PROVE  /\ BytesWritten(m) \in 0..(SizeLimit - 1)
         /\ BytesWritten(m) # 0 => BytesWritten(m) = Len(Serialized(host, m))
         /\ ~BufferIsTooSmall(m, size) =>
              /\ BytesWritten(m) <= size
              /\ Len(Serialized(host, m)) > size => SizeWraps(m) /\ BytesWritten(m) = 0
<1> DEFINE p == getPayloadSize(m)
<1>1. p \in Nat /\ SizeLimit \in Nat /\ SizeLimit > 4
  BY PayloadBytes, SizesAssumption DEF DataSize, WordSize, SizeOfReqId
<1>2. Len(Serialized(host, m)) = 4 + p
  BY DatagramLayout DEF SizeOfReqId
<1>3. getSize(m) \in 0..(SizeLimit - 1)
  <2>1. \A k, l \in Nat : l > 0 => k % l \in 0..(l - 1)
    OBVIOUS
  <2>2. 4 + p \in Nat
    BY <1>1
  <2> QED BY <1>1, <2>1, <2>2 DEF getSize, SizeOfReqId
<1>4. 4 + p < SizeLimit => getSize(m) = 4 + p
  <2>1. \A k, l \in Nat : k < l => k % l = k
    OBVIOUS
  <2>2. 4 + p \in Nat
    BY <1>1
  <2> QED BY <1>1, <2>1, <2>2 DEF getSize, SizeOfReqId
<1>5. BytesWritten(m) = IF p + 4 # getSize(m) THEN 0 ELSE getSize(m)
  BY DEF BytesWritten, SizeOfReqId
<1>6. SizeWraps(m) <=> 4 + p >= SizeLimit
  BY DEF SizeWraps, SizeOfReqId
<1>7. ~BufferIsTooSmall(m, size) => getSize(m) <= size
  BY <1>3, SizesAssumption DEF BufferIsTooSmall
<1> HIDE DEF p
<1> QED BY <1>1, <1>2, <1>3, <1>4, <1>5, <1>6, <1>7

-----------------------------------------------------------------------------
(* Reading *)

\* What any host reads from a whole datagram.
LEMMA ReadBack ==
  ASSUME NEW from \in Hosts, NEW to \in Hosts, NEW m \in Messages
  PROVE  LET datagram == Serialized(from, m)
             payload == serializePayload(from, m)
         IN  /\ ~IsTooShort(datagram, 0)
             /\ ReqIdOf(to, datagram) = m.reqId
             /\ SubSeq(datagram, SizeOfReqId + 1, Len(datagram)) = payload
             /\ ~IsTooShort(datagram, TSize) =>
                  /\ TSize <= Len(payload)
                  /\ SubSeq(datagram, SizeOfReqId + 1, SizeOfReqId + TSize)
                       = SubSeq(payload, 1, TSize)
<1> DEFINE datagram == Serialized(from, m)
           payload == serializePayload(from, m)
<1>1. /\ datagram = m.reqId \o payload
      /\ Len(datagram) = SizeOfReqId + Len(payload)
      /\ payload \in Seq(Byte) /\ Len(payload) \in Nat
  BY DatagramLayout, PayloadBytes
<1>2. m.reqId \in Word /\ m.reqId \in Seq(Byte) /\ Len(m.reqId) = SizeOfReqId
  BY PayloadBytes DEF Word, WordSize, SizeOfReqId
<1> HIDE DEF datagram, payload
<1>3. /\ SubSeq(datagram, 1, SizeOfReqId) = m.reqId
      /\ SubSeq(datagram, SizeOfReqId + 1, Len(datagram)) = payload
      /\ \A n \in 0..Len(payload) :
           SubSeq(datagram, SizeOfReqId + 1, SizeOfReqId + n) = SubSeq(payload, 1, n)
  <2>1. m.reqId \in Seq(Byte) /\ payload \in Seq(Byte)
    BY <1>1, <1>2
  <2>2. /\ SubSeq(m.reqId \o payload, 1, Len(m.reqId)) = m.reqId
        /\ SubSeq(m.reqId \o payload, Len(m.reqId) + 1, Len(m.reqId \o payload)) = payload
        /\ \A n \in 0..Len(payload) :
             SubSeq(m.reqId \o payload, Len(m.reqId) + 1, Len(m.reqId) + n) = SubSeq(payload, 1, n)
    BY ONLY <2>1, Split
  <2>3. m.reqId \o payload = datagram /\ Len(m.reqId) = SizeOfReqId
    BY <1>1, <1>2
  <2> QED BY ONLY <2>2, <2>3
<1>4. ReqIdOf(to, datagram) = m.reqId
  BY <1>2, <1>3, NumberSurvives DEF ReqIdOf
<1>5. ~IsTooShort(datagram, 0)
  BY <1>1 DEF IsTooShort, SizeOfReqId
<1>6. ~IsTooShort(datagram, TSize) => TSize \in 0..Len(payload)
  BY <1>1, SizesAssumption DEF IsTooShort, SizeOfReqId
<1>7. ~IsTooShort(datagram, TSize) => TSize <= Len(payload)
  BY <1>1, <1>6
<1> QED BY <1>3, <1>4, <1>5, <1>6, <1>7 DEF datagram, payload

\* A piece of a sequence of bytes is one.
LEMMA PieceOfBytes ==
  ASSUME NEW s \in Seq(Byte), NEW i \in Nat, NEW j \in Nat, i >= 1, j <= Len(s), i <= j + 1
  PROVE  SubSeq(s, i, j) \in Seq(Byte) /\ Len(SubSeq(s, i, j)) = j - i + 1
<1>1. \A k \in i..j : s[k] \in Byte
  <2> TAKE k \in i..j
  <2>1. k \in 1..Len(s)
    BY LenProperties
  <2> QED BY <2>1, ElementOfSeq
<1>2. i \in Int /\ j \in Int
  OBVIOUS
<1>3. /\ SubSeq(s, i, j) \in Seq(Byte)
      /\ Len(SubSeq(s, i, j)) = IF i <= j THEN j - i + 1 ELSE 0
  BY <1>1, <1>2, SubSeqProperties
<1> QED BY <1>3

\* A payload taken for a Data is two words, which are its own if it is as long.
LEMMA DataIsTwoWords ==
  ASSUME NEW payload \in Seq(Byte), NEW junk \in Junk
  PROVE  LET data == PayloadAsData(payload, junk)
         IN  /\ SubSeq(data, 1, WordSize) \in Word
             /\ SubSeq(data, WordSize + 1, DataSize) \in Word
             /\ Len(payload) = DataSize => data = payload
<1> DEFINE data == PayloadAsData(payload, junk)
<1>1. junk \in Seq(Byte) /\ Len(junk) = 8 /\ Len(payload) \in Nat
  BY JunkAssumption, LenProperties DEF DataSize, WordSize
<1>2. payload \o junk \in Seq(Byte) /\ Len(payload \o junk) = Len(payload) + 8
  <2>1. payload \o junk \in Seq(Byte) /\ Len(payload \o junk) = Len(payload) + Len(junk)
    BY <1>1, ConcatProperties
  <2> QED BY <1>1, <2>1
<1>3. data = SubSeq(payload \o junk, 1, 8)
  BY DEF PayloadAsData, DataSize, WordSize
<1>4. Len(payload) = 8 => data = payload
  BY <1>1, <1>3, Split
<1>5. data \in Seq(Byte) /\ Len(data) = 8
  <2>1. 1 \in Nat /\ 8 \in Nat /\ 1 >= 1 /\ 8 <= Len(payload \o junk) /\ 1 <= 8 + 1 /\ 8 - 1 + 1 = 8
    BY <1>1, <1>2
  <2>2. SubSeq(payload \o junk, 1, 8) \in Seq(Byte) /\ Len(SubSeq(payload \o junk, 1, 8)) = 8 - 1 + 1
    BY ONLY <1>2, <2>1, PieceOfBytes
  <2> QED BY ONLY <1>3, <2>1, <2>2
<1> HIDE DEF data
<1>6. /\ SubSeq(data, 1, 4) \in Seq(Byte) /\ Len(SubSeq(data, 1, 4)) = 4
      /\ SubSeq(data, 5, 8) \in Seq(Byte) /\ Len(SubSeq(data, 5, 8)) = 4
  <2>1. /\ 1 \in Nat /\ 4 \in Nat /\ 1 >= 1 /\ 4 <= Len(data) /\ 1 <= 4 + 1 /\ 4 - 1 + 1 = 4
        /\ 5 \in Nat /\ 8 \in Nat /\ 5 >= 1 /\ 8 <= Len(data) /\ 5 <= 8 + 1 /\ 8 - 5 + 1 = 4
    BY <1>5
  <2>2. SubSeq(data, 1, 4) \in Seq(Byte) /\ Len(SubSeq(data, 1, 4)) = 4 - 1 + 1
    BY ONLY <1>5, <2>1, PieceOfBytes
  <2>3. SubSeq(data, 5, 8) \in Seq(Byte) /\ Len(SubSeq(data, 5, 8)) = 8 - 5 + 1
    BY ONLY <1>5, <2>1, PieceOfBytes
  <2> QED BY ONLY <2>1, <2>2, <2>3
<1> QED BY <1>4, <1>6 DEF data, Word, WordSize, DataSize

-----------------------------------------------------------------------------
(* The invariant *)

\* What lies in the buffer is nothing, or the message that was serialized last
\* with what its serialize() returned; only what was sent is read.
WireInv ==
  /\ sent = NoMessage => bytes = <<>> /\ ret = 0
  /\ sent # NoMessage =>
       \/ bytes = <<>> /\ ret = 0
       \/ /\ bytes = Serialized(sender, sent)
          /\ ret = BytesWritten(sent)
          /\ ~BufferIsTooSmall(sent, room)
  /\ read # NoMessage => ret # 0

MessageInv ==
  /\ TypeOK
  /\ WireInv
  /\ SameMessageOnEveryHost
  /\ ValueOnEveryHost

LEMMA NoMessageIsNone == NoMessage \notin Messages
BY MessagesAssumption, NoMessageAssumption

LEMMA MessageInit == Init => MessageInv
<1> SUFFICES ASSUME Init PROVE MessageInv
  OBVIOUS
<1>1. SizeLimit \in Nat /\ SizeLimit > 4 /\ MaxRoom \in Nat
  BY SizesAssumption DEF DataSize, WordSize, SizeOfReqId
<1>2. <<>> \in Seq(Byte)
  BY EmptySeq
<1> QED BY <1>1, <1>2
        DEF Init, MessageInv, TypeOK, WireInv, SameMessageOnEveryHost, ValueOnEveryHost, Hosts

LEMMA SerializeKeepsInv ==
  ASSUME MessageInv, NEW host \in Hosts, NEW m \in Messages, NEW size \in 0..MaxRoom,
         serialize(host, m, size)
  PROVE  MessageInv'
<1>1. size \in Nat /\ SizeLimit \in Nat /\ SizeLimit > 4
  BY SizesAssumption DEF DataSize, WordSize, SizeOfReqId
<1>2. BytesWritten(m) \in 0..(SizeLimit - 1) /\ Serialized(host, m) \in Seq(Byte)
  BY <1>1, SizeReturned, DatagramLayout
<1>3. <<>> \in Seq(Byte)
  BY EmptySeq
<1>4. TypeOK'
  <2>1. ret' \in 0..(SizeLimit - 1) /\ bytes' \in Seq(Byte)
    <3>1. CASE BufferIsTooSmall(m, size)
      BY <1>1, <1>3, <3>1 DEF serialize
    <3>2. CASE ~BufferIsTooSmall(m, size)
      BY <1>2, <3>2 DEF serialize
    <3> QED BY <3>1, <3>2
  <2> QED BY <2>1 DEF serialize, TypeOK
<1>5. WireInv'
  BY NoMessageIsNone DEF serialize, WireInv
<1>6. SameMessageOnEveryHost' /\ ValueOnEveryHost'
  BY DEF serialize, SameMessageOnEveryHost, ValueOnEveryHost
<1> QED BY <1>4, <1>5, <1>6 DEF MessageInv

\* Whatever is read was written whole.
LEMMA WrittenWhole ==
  ASSUME MessageInv, ret # 0
  PROVE  sent \in Messages /\ bytes = Serialized(sender, sent)
BY DEF MessageInv, TypeOK, WireInv

LEMMA DeserializeRawKeepsInv ==
  ASSUME MessageInv, NEW host \in Hosts, deserializeRaw(host)
  PROVE  MessageInv'
<1>1. sent \in Messages /\ bytes = Serialized(sender, sent) /\ sender \in Hosts
  BY WrittenWhole DEF deserializeRaw, MessageInv, TypeOK
<1>2. /\ ~IsTooShort(bytes, 0)
      /\ ReqIdOf(host, bytes) = sent.reqId
      /\ SubSeq(bytes, SizeOfReqId + 1, Len(bytes)) = serializePayload(sender, sent)
  BY <1>1, ReadBack
<1>3. read' = [kind |-> "raw", reqId |-> sent.reqId, payload |-> serializePayload(sender, sent)]
  BY <1>2 DEF deserializeRaw, DeserializedRaw
<1>4. read' \in RawMessages
  BY <1>1, <1>3, PayloadBytes DEF RawMessages
<1>5. TypeOK'
  BY <1>4 DEF deserializeRaw, MessageInv, TypeOK, TypeOfMessage
<1>6. WireInv'
  BY DEF deserializeRaw, MessageInv, WireInv
<1>7. SameMessageOnEveryHost'
  BY <1>3 DEF deserializeRaw, SameMessageOnEveryHost
<1>8. ValueOnEveryHost'
  BY <1>3 DEF ValueOnEveryHost
<1> QED BY <1>5, <1>6, <1>7, <1>8 DEF MessageInv

LEMMA DeserializeTypedKeepsInv ==
  ASSUME MessageInv, NEW host \in Hosts, deserializeTyped(host)
  PROVE  MessageInv'
<1>1. sent \in Messages /\ bytes = Serialized(sender, sent) /\ sender \in Hosts
  BY WrittenWhole DEF deserializeTyped, MessageInv, TypeOK
<1> DEFINE piece == SubSeq(serializePayload(sender, sent), 1, TSize)
<1>2. CASE IsTooShort(bytes, TSize)
  <2>1. read' = NoMessage
    BY <1>2 DEF deserializeTyped
  <2> QED BY <2>1 DEF deserializeTyped, MessageInv, TypeOK, WireInv,
                      SameMessageOnEveryHost, ValueOnEveryHost
<1>3. CASE ~IsTooShort(bytes, TSize)
  <2>1. read' = [kind |-> "typed", reqId |-> sent.reqId, payload |-> piece]
    BY <1>1, <1>3, ReadBack DEF deserializeTyped, DeserializedTyped
  <2>2. piece \in Seq(Byte)
    <3>1. /\ serializePayload(sender, sent) \in Seq(Byte)
          /\ TSize \in Nat /\ TSize <= Len(serializePayload(sender, sent))
      BY <1>1, <1>3, ReadBack, PayloadBytes, SizesAssumption
    <3> QED BY <3>1, PieceOfBytes
  <2>3. read' \in TypedMessages
    BY <1>1, <2>1, <2>2, PayloadBytes DEF TypedMessages
  <2>4. TypeOK'
    BY <2>3 DEF deserializeTyped, MessageInv, TypeOK, TypeOfMessage
  <2>5. WireInv'
    BY DEF deserializeTyped, MessageInv, WireInv
  <2>6. SameMessageOnEveryHost' /\ ValueOnEveryHost'
    BY <2>1 DEF deserializeTyped, SameMessageOnEveryHost, ValueOnEveryHost
  <2> QED BY <2>4, <2>5, <2>6 DEF MessageInv
<1> QED BY <1>2, <1>3

LEMMA FromRawKeepsInv ==
  ASSUME MessageInv, fromRawMessage
  PROVE  MessageInv'
<1>1. PICK junk \in Junk :
        read' = MyMessageOf(reader, read, PayloadAsData(read.payload, junk))
  BY DEF fromRawMessage
<1> DEFINE data == PayloadAsData(read.payload, junk)
           payload == serializePayload(sender, sent)
<1>2. read # NoMessage /\ read.kind = "raw" /\ ret # 0
  BY DEF fromRawMessage, MessageInv, WireInv
<1>3. sent \in Messages /\ sender \in Hosts /\ reader \in Hosts
  BY <1>2, WrittenWhole DEF MessageInv, TypeOK
<1>4. read.reqId = sent.reqId /\ read.payload = payload
  BY <1>2 DEF MessageInv, SameMessageOnEveryHost
<1>5. payload \in Seq(Byte) /\ sent.reqId \in Word /\ Len(payload) = getPayloadSize(sent)
  BY <1>3, PayloadBytes
<1>6. /\ SubSeq(data, 1, WordSize) \in Word
      /\ SubSeq(data, WordSize + 1, DataSize) \in Word
      /\ Len(payload) = DataSize => data = payload
  BY <1>1, <1>4, <1>5, DataIsTwoWords
<1>7. read' = [kind        |-> "my",
               reqId       |-> sent.reqId,
               value       |-> ntohl(reader, FromMemory(reader, SubSeq(data, 1, WordSize))),
               temperature |-> FromMemory(reader, SubSeq(data, WordSize + 1, DataSize))]
  BY <1>1, <1>4 DEF MyMessageOf
<1> HIDE DEF data
<1>8. TypeOK'
  <2>1. /\ ntohl(reader, FromMemory(reader, SubSeq(data, 1, WordSize))) \in Word
        /\ FromMemory(reader, SubSeq(data, WordSize + 1, DataSize)) \in Word
    BY <1>3, <1>6, SwapProperties DEF ntohl, FromMemory
  <2>2. read' \in MyMessages
    BY <1>5, <1>7, <2>1 DEF MyMessages
  <2> QED BY <2>2 DEF fromRawMessage, MessageInv, TypeOK, TypeOfMessage
<1>9. WireInv'
  BY <1>2 DEF fromRawMessage, MessageInv, WireInv
<1>10. SameMessageOnEveryHost'
  BY <1>7 DEF fromRawMessage, SameMessageOnEveryHost
<1>11. ValueOnEveryHost'
  <2>1. CASE sent.kind # "my"
    BY <2>1 DEF fromRawMessage, ValueOnEveryHost
  <2>2. CASE sent.kind = "my"
    <3> DEFINE v == InMemory(sender, htonl(sender, sent.value))
               t == InMemory(sender, sent.temperature)
    <3>1. sent \in MyMessages
      BY <1>3, <2>2, MessagesAssumption DEF TypeOfMessage, RawMessages, TypedMessages
    <3>2. sent.value \in Word /\ sent.temperature \in Word
      BY <3>1 DEF MyMessages
    <3>3. v = sent.value
      BY <1>3, <3>2, NumberSurvives
    <3>4. t \in Word /\ FromMemory(sender, t) = sent.temperature
      BY <1>3, <3>2, SwapProperties DEF InMemory, FromMemory
    <3>5. data = v \o t
      <4>1. Len(payload) = DataSize
        BY <1>5, <2>2 DEF getPayloadSize
      <4> QED BY <1>6, <2>2, <4>1 DEF serializePayload
    <3>6. /\ SubSeq(data, 1, WordSize) = v
          /\ SubSeq(data, WordSize + 1, DataSize) = t
      <4>1. v \in Seq(Byte) /\ t \in Seq(Byte) /\ Len(v) = 4 /\ Len(t) = 4
        BY <3>2, <3>3, <3>4 DEF Word, WordSize
      <4> HIDE DEF v, t
      <4>2. Len(v \o t) = Len(v) + Len(t)
        BY <4>1, ConcatProperties
      <4>3. Len(v \o t) = 8
        BY <4>1, <4>2
      <4>4. SubSeq(v \o t, 1, Len(v)) = v /\ SubSeq(v \o t, Len(v) + 1, Len(v \o t)) = t
        BY <4>1, Split
      <4> QED BY <3>5, <4>1, <4>3, <4>4 DEF WordSize, DataSize
    <3>7. ntohl(reader, FromMemory(reader, v)) = sent.value
      BY <1>3, <3>2, <3>3, NumberSurvives
    <3>8. read'.value = sent.value
      BY <1>7, <3>6, <3>7
    <3>9. reader = sender => read'.temperature = sent.temperature
      BY <1>7, <3>4, <3>6
    <3> QED BY <3>8, <3>9 DEF fromRawMessage, ValueOnEveryHost
  <2> QED BY <2>1, <2>2
<1> QED BY <1>8, <1>9, <1>10, <1>11 DEF MessageInv

LEMMA MessageNext == MessageInv /\ [Next]_vars => MessageInv'
<1> SUFFICES ASSUME MessageInv, [Next]_vars PROVE MessageInv'
  OBVIOUS
<1>1. CASE \E host \in Hosts, m \in Messages, size \in 0..MaxRoom : serialize(host, m, size)
  BY <1>1, SerializeKeepsInv
<1>2. CASE \E host \in Hosts : deserializeRaw(host)
  BY <1>2, DeserializeRawKeepsInv
<1>3. CASE \E host \in Hosts : deserializeTyped(host)
  BY <1>3, DeserializeTypedKeepsInv
<1>4. CASE fromRawMessage
  BY <1>4, FromRawKeepsInv
<1>5. CASE UNCHANGED vars
  BY <1>5 DEF vars, MessageInv, TypeOK, WireInv, SameMessageOnEveryHost, ValueOnEveryHost
<1> QED BY <1>1, <1>2, <1>3, <1>4, <1>5 DEF Next

LEMMA MessageInvariance == Spec => []MessageInv
BY MessageInit, MessageNext, PTL DEF Spec

-----------------------------------------------------------------------------
(* The theorems *)

\* Sizes stay sizes, bytes stay bytes, and what is read is a message.
THEOREM MessageTypes == Spec => []TypeOK
<1>1. MessageInv => TypeOK
  BY DEF MessageInv
<1> QED BY <1>1, MessageInvariance, PTL

\* serialize() writes the whole message into the buffer and returns its length,
\* or returns 0; it passes the end of the buffer only when the size wraps.
THEOREM SerializeReports == Spec => []ReturnsWhatItWrote
<1>1. MessageInv => ReturnsWhatItWrote
  <2> SUFFICES ASSUME MessageInv PROVE ReturnsWhatItWrote
    OBVIOUS
  <2>1. room \in Nat /\ sender \in Hosts /\ sent \in Messages \cup {NoMessage}
    BY SizesAssumption DEF MessageInv, TypeOK
  <2>2. CASE bytes = <<>> /\ ret = 0
    BY <2>1, <2>2, EmptySeq DEF ReturnsWhatItWrote
  <2>3. CASE /\ sent # NoMessage
             /\ bytes = Serialized(sender, sent)
             /\ ret = BytesWritten(sent)
             /\ ~BufferIsTooSmall(sent, room)
    BY <2>1, <2>3, SizeReturned DEF ReturnsWhatItWrote
  <2> QED BY <2>2, <2>3 DEF MessageInv, WireInv
<1> QED BY <1>1, MessageInvariance, PTL

\* Whatever the byte orders of the two hosts, what deserialize() makes of the
\* bytes has the signal number and the payload of the message.
THEOREM MessagesSurvive == Spec => []SameMessageOnEveryHost
<1>1. MessageInv => SameMessageOnEveryHost
  BY DEF MessageInv
<1> QED BY <1>1, MessageInvariance, PTL

\* A MyMessage has its value on every host, and its temperature on those with
\* the byte order of the sender.
THEOREM ValuesSurvive == Spec => []ValueOnEveryHost
<1>1. MessageInv => ValueOnEveryHost
  BY DEF MessageInv
<1> QED BY <1>1, MessageInvariance, PTL
=============================================================================
