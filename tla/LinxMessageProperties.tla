------------------------- MODULE LinxMessageProperties -------------------------
(***************************************************************************)
(* What must hold of messages on their way through bytes.                  *)
(***************************************************************************)
EXTENDS LinxMessage

\* Sizes are uint32_t, what is written are bytes, what is read is a message.
TypeOK ==
  /\ sent \in Messages \cup {NoMessage}
  /\ sender \in Hosts /\ reader \in Hosts
  /\ room \in 0..MaxRoom
  /\ ret \in 0..(SizeLimit - 1)
  /\ bytes \in Seq(Byte)
  /\ read \in TypeOfMessage \cup {NoMessage}

\* The sum of the sizes of the payload and of the number does not fit uint32_t.
SizeWraps(m) == SizeOfReqId + getPayloadSize(m) >= SizeLimit

\* README.md:155: serialize() returns the number of bytes it wrote, or 0.  What
\* it returns is what the sockets hand to sendto(), so it must be what was
\* written, it must be the whole message, and it must lie inside the buffer.  A
\* message whose size wraps passes the test of the buffer, and is then written
\* past its end; the comparison at the end is what makes serialize() fail.
ReturnsWhatItWrote ==
  /\ ret # 0 => ret = Len(bytes) /\ ret <= room
  /\ Len(bytes) > room => SizeWraps(sent) /\ ret = 0

\* What any host reads from the bytes that any host wrote has the same signal
\* number, whatever their byte orders, and the payload byte for byte.  Read as a
\* T, it is as much of the payload as a T holds.
SameMessageOnEveryHost ==
  read # NoMessage =>
    /\ read.reqId = sent.reqId
    /\ read.kind = "raw" => read.payload = serializePayload(sender, sent)
    /\ read.kind = "typed" => read.payload = SubSeq(serializePayload(sender, sent), 1, TSize)

\* A MyMessage that is read from a MyMessage has its value on every host, and
\* its temperature on hosts with the byte order of the sender: only value is
\* converted.
ValueOnEveryHost ==
  read # NoMessage /\ read.kind = "my" /\ sent.kind = "my" =>
    /\ read.value = sent.value
    /\ reader = sender => read.temperature = sent.temperature

=============================================================================
