--------------------------- MODULE MessageFraming ---------------------------
(***************************************************************************)
(* The bytes below the messages of one connection: a packet is a length    *)
(* and a message, a read may end anywhere in a packet or after several.    *)
(* player.go (Run), ws_conn.go and the client's NetworkManager.gd.         *)
(*                                                                         *)
(* A byte knows its message, its place in the packet and the length the    *)
(* packet announces.  Requests have the serial numbers 1, 2, ...; an       *)
(* answer has the number of its request.                                   *)
(***************************************************************************)
EXTENDS Integers, Sequences, FiniteSets

CONSTANTS
  HeaderSize,    \* bytes of the length (4)
  ReadSize,      \* bytes of tempBuf (1024)
  Lengths,       \* lengths of messages, which are never empty
  RecvCap,       \* capacity of RecvChan (1000)
  SendCap,       \* capacity of SendChan (1000)
  MaxRequests    \* bound: requests the client sends

ASSUME FramingConstants ==
  /\ {HeaderSize, ReadSize, RecvCap, SendCap} \subseteq Nat \ {0}
  /\ Lengths \subseteq Nat \ {0}
  /\ MaxRequests \in Nat

VARIABLES
  kind,            \* "tcp" or "ws"
  open,            \* the connection
  cancelled,       \* the context of the server's goroutines
  crashed,         \* the server process has panicked
  serial,          \* message_serial_no of the client
  wire,            \* bytes on the way to the server
  reader,          \* the reader of Run: "read", "parse" or "done"
  buffer,          \* its buffer
  RecvChan,
  handler,         \* the request being answered, Idle or Done
  SendChan,
  sender,          \* "select" or "done"
  packets,         \* packets on the way to the client
  client,          \* _process of the client: "poll" or "parse"
  message_buffer,  \* its buffer
  received,        \* requests put into RecvChan, in order (history)
  overflowed,      \* requests met by a full RecvChan (history)
  answers          \* answers the client has handled, in order (history)

up == <<wire, reader, buffer, received, overflowed>>
down == <<packets, client, message_buffer, answers>>
link == <<kind, open, cancelled, crashed>>
vars == <<link, serial, up, RecvChan, handler, SendChan, sender, down>>

Idle == 0
Done == -1
Requests == 1..MaxRequests

-----------------------------------------------------------------------------
(* Packets *)

Packet(m, len) == [i \in 1..HeaderSize + len |-> [msg |-> m, at |-> i, len |-> len]]

\* The number in the first four bytes: bytes that are no header read as some number.
AnnouncedLength(bytes) ==
  IF \A i \in 1..HeaderSize : bytes[i].msg = bytes[1].msg /\ bytes[i].at = i
  THEN bytes[1].len ELSE bytes[HeaderSize].at

HasPacket(bytes) ==
  Len(bytes) >= HeaderSize /\ Len(bytes) >= HeaderSize + AnnouncedLength(bytes)

\* The packet at the front, without its length.
MessageBuf(bytes) == SubSeq(bytes, HeaderSize + 1, HeaderSize + AnnouncedLength(bytes))

\* Plausible slip: buffer[length:], which forgets the header.
RestOfLength(bytes) == SubSeq(bytes, AnnouncedLength(bytes) + 1, Len(bytes))

Rest(bytes) == SubSeq(bytes, HeaderSize + AnnouncedLength(bytes) + 1, Len(bytes))

\* proto.Unmarshal takes the bytes of a message, and nothing else.
Unmarshals(bytes) ==
  /\ bytes # <<>>
  /\ bytes = MessageBuf(Packet(bytes[1].msg, bytes[1].len))

-----------------------------------------------------------------------------
Init ==
  /\ kind \in {"tcp", "ws"}
  /\ open = TRUE /\ cancelled = FALSE /\ crashed = FALSE
  /\ serial = 0
  /\ wire = <<>> /\ reader = "read" /\ buffer = <<>>
  /\ RecvChan = <<>> /\ handler = Idle
  /\ SendChan = <<>> /\ sender = "select"
  /\ packets = <<>> /\ client = "poll" /\ message_buffer = <<>>
  /\ received = <<>> /\ overflowed = {} /\ answers = <<>>

Serving == ~crashed

\* send_message
SendMessage ==
  /\ open /\ serial < MaxRequests
  /\ serial' = serial + 1
  /\ \E len \in Lengths : wire' = wire \o Packet(serial', len)
  /\ UNCHANGED <<link, reader, buffer, received, overflowed, RecvChan, handler, SendChan,
                 sender, down>>

\* The client goes, or the network fails.
Disconnect ==
  /\ open /\ open' = FALSE
  /\ UNCHANGED <<kind, cancelled, crashed, serial, up, RecvChan, handler, SendChan, sender,
                 down>>

-----------------------------------------------------------------------------
(* The reader *)

\* What one Read finds: of a stream up to tempBuf, of a websocket one packet.
Chunks ==
  IF kind = "tcp" THEN {SubSeq(wire, 1, n) : n \in 1 .. IF Len(wire) < ReadSize THEN Len(wire)
                                                        ELSE ReadSize}
  ELSE {SubSeq(wire, 1, HeaderSize + wire[1].len)}

Read ==
  /\ Serving /\ reader = "read" /\ wire # <<>>
  /\ \E chunk \in Chunks :
       /\ Len(chunk) =< ReadSize
       /\ buffer' = buffer \o chunk
       /\ wire' = SubSeq(wire, Len(chunk) + 1, Len(wire))
  /\ reader' = "parse"
  /\ UNCHANGED <<link, serial, RecvChan, handler, SendChan, sender, received, overflowed, down>>

\* A packet of a websocket that is longer than tempBuf: tempBuf[:n] is out of range.
ReadPanics ==
  /\ Serving /\ reader = "read" /\ wire # <<>>
  /\ \E chunk \in Chunks : Len(chunk) > ReadSize
  /\ crashed' = TRUE
  /\ UNCHANGED <<kind, open, cancelled, serial, up, RecvChan, handler, SendChan, sender, down>>

ReadFails ==
  /\ Serving /\ reader = "read" /\ ~open
  /\ reader' = "done" /\ cancelled' = TRUE
  /\ UNCHANGED <<kind, open, crashed, serial, wire, buffer, received, overflowed, RecvChan,
                 handler, SendChan, sender, down>>

\* Plausible slip: a channel without a limit, as RecvChan' in ParsePacket would be
\* without the default branch.
ParsePacketUnbounded ==
  /\ Serving /\ reader = "parse" /\ HasPacket(buffer)
  /\ buffer' = Rest(buffer)
  /\ RecvChan' = Append(RecvChan, MessageBuf(buffer)[1].msg)
  /\ received' = Append(received, MessageBuf(buffer)[1].msg)
  /\ UNCHANGED <<link, serial, wire, reader, overflowed, handler, SendChan, sender, down>>

\* Plausible slip: one packet for each read, as if no read ended behind two.
ParseOnePacket ==
  /\ Serving /\ reader = "parse" /\ HasPacket(buffer)
  /\ buffer' = Rest(buffer) /\ reader' = "read"
  /\ LET m == MessageBuf(buffer)[1].msg IN
     IF Len(RecvChan) < RecvCap
     THEN /\ RecvChan' = Append(RecvChan, m) /\ received' = Append(received, m)
          /\ UNCHANGED overflowed
     ELSE overflowed' = overflowed \cup {m} /\ UNCHANGED <<RecvChan, received>>
  /\ UNCHANGED <<link, serial, wire, handler, SendChan, sender, down>>

\* One round of the inner loop.  A full RecvChan drops the message.
ParsePacket ==
  /\ Serving /\ reader = "parse" /\ HasPacket(buffer)
  /\ buffer' = Rest(buffer)
  /\ LET bytes == MessageBuf(buffer) IN
     IF ~Unmarshals(bytes) THEN UNCHANGED <<RecvChan, received, overflowed>>
     ELSE IF Len(RecvChan) < RecvCap
     THEN /\ RecvChan' = Append(RecvChan, bytes[1].msg)
          /\ received' = Append(received, bytes[1].msg)
          /\ UNCHANGED overflowed
     ELSE /\ overflowed' = overflowed \cup {bytes[1].msg}
          /\ UNCHANGED <<RecvChan, received>>
  /\ UNCHANGED <<link, serial, wire, reader, handler, SendChan, sender, down>>

\* The select at the head of the outer loop looks at the context.
ParseEnds ==
  /\ Serving /\ reader = "parse" /\ ~HasPacket(buffer)
  /\ reader' = IF cancelled THEN "done" ELSE "read"
  /\ UNCHANGED <<link, serial, wire, buffer, received, overflowed, RecvChan, handler, SendChan,
                 sender, down>>

-----------------------------------------------------------------------------
(* The handler and the sender *)

HandlerTakes ==
  /\ Serving /\ handler = Idle /\ RecvChan # <<>>
  /\ handler' = Head(RecvChan)
  /\ RecvChan' = Tail(RecvChan)
  /\ UNCHANGED <<link, serial, up, SendChan, sender, down>>

\* SendResponse waits for room in SendChan.
SendResponse ==
  /\ Serving /\ handler \in Requests /\ Len(SendChan) < SendCap
  /\ SendChan' = Append(SendChan, handler)
  /\ handler' = Idle
  /\ UNCHANGED <<link, serial, up, RecvChan, sender, down>>

HandlerStops ==
  /\ Serving /\ handler = Idle /\ cancelled
  /\ handler' = Done
  /\ UNCHANGED <<link, serial, up, RecvChan, SendChan, sender, down>>

\* A packet is written whole.
Write ==
  /\ Serving /\ sender = "select" /\ SendChan # <<>> /\ open
  /\ \E len \in Lengths : packets' = Append(packets, Packet(Head(SendChan), len))
  /\ SendChan' = Tail(SendChan)
  /\ UNCHANGED <<link, serial, up, RecvChan, handler, sender, client, message_buffer, answers>>

WriteFails ==
  /\ Serving /\ sender = "select" /\ SendChan # <<>> /\ ~open
  /\ SendChan' = Tail(SendChan)
  /\ sender' = "done" /\ cancelled' = TRUE
  /\ UNCHANGED <<kind, open, crashed, serial, up, RecvChan, handler, down>>

SenderStops ==
  /\ Serving /\ sender = "select" /\ cancelled
  /\ sender' = "done"
  /\ UNCHANGED <<link, serial, up, RecvChan, handler, SendChan, down>>

-----------------------------------------------------------------------------
(* The client *)

\* get_packet
Poll ==
  /\ open /\ ~crashed /\ client = "poll" /\ packets # <<>>
  /\ message_buffer' = message_buffer \o Head(packets)
  /\ packets' = Tail(packets)
  /\ client' = "parse"
  /\ UNCHANGED <<link, serial, up, RecvChan, handler, SendChan, sender, answers>>

\* Plausible slip: the message handled stays in the buffer.
ProcessMessageAgain ==
  /\ client = "parse" /\ HasPacket(message_buffer) /\ Len(answers) =< serial
  /\ answers' = Append(answers, MessageBuf(message_buffer)[1].msg)
  /\ UNCHANGED <<link, serial, up, RecvChan, handler, SendChan, sender, packets, client,
                 message_buffer>>

\* process_message_buffer: one round of its loop.
ProcessMessage ==
  /\ client = "parse" /\ HasPacket(message_buffer)
  /\ message_buffer' = Rest(message_buffer)
  /\ LET bytes == MessageBuf(message_buffer) IN
     answers' = IF Unmarshals(bytes) THEN Append(answers, bytes[1].msg) ELSE answers
  /\ UNCHANGED <<link, serial, up, RecvChan, handler, SendChan, sender, packets, client>>

ProcessEnds ==
  /\ client = "parse" /\ ~HasPacket(message_buffer)
  /\ client' = "poll"
  /\ UNCHANGED <<link, serial, up, RecvChan, handler, SendChan, sender, packets,
                 message_buffer, answers>>

-----------------------------------------------------------------------------
Reader == Read \/ ReadPanics \/ ReadFails \/ ParsePacket \/ ParseEnds
Handler == HandlerTakes \/ SendResponse \/ HandlerStops
Sender == Write \/ WriteFails \/ SenderStops
Client == Poll \/ ProcessMessage \/ ProcessEnds

Next == SendMessage \/ Disconnect \/ Reader \/ Handler \/ Sender \/ Client

\* Goroutines that can run run, and so does the client's frame loop.
Fairness == WF_vars(Reader) /\ WF_vars(Handler) /\ WF_vars(Sender) /\ WF_vars(Client)

Spec == Init /\ [][Next]_vars /\ Fairness

-----------------------------------------------------------------------------
(* Properties *)

Bytes == [msg : Requests, at : Nat \ {0}, len : Lengths]

TypeOK ==
  /\ kind \in {"tcp", "ws"} /\ {open, cancelled, crashed} \subseteq BOOLEAN
  /\ serial \in 0..MaxRequests
  /\ reader \in {"read", "parse", "done"} /\ sender \in {"select", "done"}
  /\ client \in {"poll", "parse"}
  /\ handler \in Requests \cup {Idle, Done}
  /\ {wire, buffer, message_buffer} \subseteq Seq(Bytes) /\ packets \in Seq(Seq(Bytes))
  /\ RecvChan \in Seq(Requests) /\ Len(RecvChan) =< RecvCap
  /\ SendChan \in Seq(Requests) /\ Len(SendChan) =< SendCap
  /\ received \in Seq(Requests) /\ answers \in Seq(Requests) /\ overflowed \subseteq Requests

\* Where messages end in bytes, and these messages in order.
Ends(bytes) == {i \in DOMAIN bytes : bytes[i].at = HeaderSize + bytes[i].len}
Nth(k, S) == CHOOSE i \in S : Cardinality({j \in S : j =< i}) = k
Ending(bytes) ==
  LET ends == Ends(bytes) IN [k \in 1..Cardinality(ends) |-> bytes[Nth(k, ends)].msg]

\* The requests on the way up, and the answers on the way down.
Asked == Ending(buffer \o wire)
MessagesOf(ps) == [i \in 1..Len(ps) |-> ps[i][1].msg]
Answered == Ending(message_buffer) \o MessagesOf(packets) \o SendChan

\* Requests go through any split of the stream whole, in order and at most once, are
\* lost only to a full RecvChan, and never stay in a buffer.
Upstream == INSTANCE MessageStream WITH
  Messages <- Requests,
  pending <- Asked,
  delivered <- received,
  full <- Len(RecvChan) = RecvCap,
  alive <- open /\ ~cancelled /\ ~crashed

RequestsArrive == Upstream!Spec

\* The same of the answers, of which none is lost while the connection stands.
Downstream == INSTANCE MessageStream WITH
  Messages <- Requests,
  pending <- Answered,
  delivered <- answers,
  full <- FALSE,
  alive <- open /\ ~cancelled /\ ~crashed

AnswersArrive == Downstream!Spec

\* The client is answered in the order it asked, and each request once.
AnswersInOrder ==
  /\ \A i, j \in 1..Len(answers) : i < j => answers[i] < answers[j]
  /\ \A i \in 1..Len(answers) : answers[i] =< serial /\ answers[i] \notin overflowed

\* While the connection stands and no packet is longer than a read, every request is
\* answered unless RecvChan was full.
RequestIsAnswered ==
  \A n \in Requests :
    serial >= n ~> (\/ n \in overflowed \/ \E i \in 1..Len(answers) : answers[i] = n
                    \/ ~open \/ crashed)

-----------------------------------------------------------------------------
(* What makes these inductive *)

\* Whole packets one behind the other: every byte is in a packet.
PacketBehind(n, bytes, m, len) ==
  /\ n + HeaderSize + len =< Len(bytes)
  /\ \A j \in 1..HeaderSize + len : bytes[n + j] = Packet(m, len)[j]

IsWhole(bytes) ==
  \A i \in 1..Len(bytes) : \E n \in 0..i - 1, m \in Requests, len \in Lengths :
    i =< n + HeaderSize + len /\ PacketBehind(n, bytes, m, len)

ArePackets(ps) ==
  \A i \in 1..Len(ps) : \E m \in Requests, len \in Lengths : ps[i] = Packet(m, len)

StreamsAreWhole ==
  /\ IsWhole(buffer \o wire) /\ IsWhole(message_buffer)
  /\ kind = "ws" => IsWhole(buffer) /\ IsWhole(wire)
  /\ ArePackets(packets)

\* From the answers the client has had back to the requests that have not arrived.
Handling == IF handler \in Requests THEN <<handler>> ELSE <<>>
Chain == answers \o Answered \o Handling \o RecvChan \o Asked

ChainInOrder ==
  /\ \A i, j \in 1..Len(Chain) : i < j => Chain[i] < Chain[j]
  /\ \A i \in 1..Len(Chain) : Chain[i] =< serial /\ Chain[i] \notin overflowed
  /\ \A m \in overflowed : m =< serial

FramingInv == TypeOK /\ StreamsAreWhole /\ ChainInOrder

=============================================================================
