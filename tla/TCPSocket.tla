----------------------------- MODULE TCPSocket ------------------------------
(***************************************************************************)
(* TCPSocket: messages over a stream of bytes.  A message is sent with its *)
(* length in front; a receiver appends to its buffer whatever part of the  *)
(* stream has arrived and takes a message out when it is whole.            *)
(*                                                                         *)
(* A stream is a record: the bytes in the kernel or on their way (wire),   *)
(* those in the receiver's buffer, and, as history, the messages sent and  *)
(* not handed over (promised).  The kernel is assumed to have room for     *)
(* what is sent, so that send never spins on EAGAIN, and no message is     *)
(* longer than SAKUSEN_COMMS_BUFFER_LEN, which is fatal to its receiver.   *)
(***************************************************************************)
EXTENDS Integers, Sequences, SequencesExt

CONSTANTS
    Base, HeaderBytes,   \* 256 and 4 in the code
    Datagrams            \* TRUE for Unix sockets, which keep messages apart

ASSUME SocketAssumption ==
    /\ Base \in Nat /\ Base > 1
    /\ HeaderBytes \in Nat \ {0}
    /\ Datagrams \in BOOLEAN

Byte == 0..(Base - 1)
NoStream == [wire |-> <<>>, buffer |-> <<>>, promised |-> <<>>]

\* htonl and ntohl: the most significant byte comes first
Power[k \in 0..HeaderBytes] == IF k = 0 THEN 1 ELSE Base * Power[k - 1]
Header(n) == [i \in 1..HeaderBytes |-> (n \div Power[HeaderBytes - i]) % Base]
NextLength(buffer) ==
    LET value[k \in 0..HeaderBytes] == IF k = 0 THEN 0 ELSE Base * value[k - 1] + buffer[k]
    IN  value[HeaderBytes]

\* send
Frame(message) == Header(Len(message)) \o message
Frames(messages) == FlattenSeq([i \in DOMAIN messages |-> Frame(messages[i])])
Sent(stream, messages) ==
    [wire |-> stream.wire \o Frames(messages), buffer |-> stream.buffer,
     promised |-> stream.promised \o messages]

\* The test of receive for a whole message, and what it leaves in the buffer
Whole(buffer) ==
    /\ Len(buffer) >= HeaderBytes
    /\ Len(buffer) >= HeaderBytes + NextLength(buffer)
\* Mutant: as much is copied as has been received
AllReceived(buffer) == SubSeq(buffer, HeaderBytes + 1, Len(buffer))
First(buffer) == SubSeq(buffer, HeaderBytes + 1, HeaderBytes + NextLength(buffer))

AfterFirst(buffer) == SubSeq(buffer, HeaderBytes + NextLength(buffer) + 1, Len(buffer))

\* receive called until it returns 0: all messages that are whole, and the rest
Split[buffer \in Seq(Byte)] ==
    IF ~Whole(buffer) THEN [messages |-> <<>>, rest |-> buffer]
    ELSE LET later == Split[AfterFirst(buffer)]
         IN  [later EXCEPT !.messages = <<First(buffer)>> \o @]

\* The bytes a call of receive may find: any part of the stream, but whole
\* datagrams
Arrivals(stream) ==
    {n \in 0..Len(stream.wire) :
        Datagrams => Split[SubSeq(stream.wire, 1, n)].rest = <<>>}
Arrived(stream, n) ==
    [wire |-> SubSeq(stream.wire, n + 1, Len(stream.wire)),
     buffer |-> stream.buffer \o SubSeq(stream.wire, 1, n), promised |-> stream.promised]

\* The messages of a stream, and its state when they are handed over
Handed(stream, messages, rest) ==
    [messages |-> messages,
     stream |-> [wire |-> stream.wire, buffer |-> rest,
                 promised |-> SubSeq(stream.promised, Len(messages) + 1, Len(stream.promised))]]
OneTaken(stream) ==
    IF Whole(stream.buffer)
    THEN Handed(stream, <<First(stream.buffer)>>, AfterFirst(stream.buffer))
    ELSE Handed(stream, <<>>, stream.buffer)
AllTaken(stream) ==
    LET split == Split[stream.buffer] IN Handed(stream, split.messages, split.rest)

\* The messages that a stream will hand over
Contents(stream) == Split[stream.buffer \o stream.wire].messages
=============================================================================
