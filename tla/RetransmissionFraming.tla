----------------------- MODULE RetransmissionFraming -----------------------
(***************************************************************************)
(* RetransmissionClient::process_incoming_data: messages of the            *)
(* retransmission protocol and market data messages are cut out of one TCP *)
(* byte stream, which recv returns in pieces of any length.                *)
(*                                                                         *)
(* wire is what the server has sent on a connection. tcp_receive_buffer_   *)
(* is a range of its bytes, from erased to received, and so is not a       *)
(* variable. Messages leave through the handlers of protocol messages, or  *)
(* through market_data_callback_ and TaifexSdk::process_message.           *)
(***************************************************************************)
EXTENDS WireFormat

CONSTANTS
  Items,      \* what the server may send
  MaxItems    \* bound on the items that it sends on a connection

\* An item is a message and what is wrong with its bytes ("none" for nothing). A
\* "checksum" does not match; a "length" in the header does not belong to any
\* message: a MsgSize that leaves no room for the header, or a BODY-LENGTH that is
\* not BCD; a length that is "longer" or "shorter" is not the item's own: its last
\* byte is counted up, by the length of a message without a payload, or down.
Messages == {i.msg : i \in Items}

Encode(m) == IF m.kind = "protocol" THEN serialize(m) ELSE EncodeMarket(m)

\* The bytes of an item, by what the server or its line does to them.
Harmed(m, harm) ==
  LET b == Encode(m)
      sum == IF m.kind = "protocol" THEN Len(b) ELSE Len(b) - 2
      size == IF m.kind = "protocol" THEN 2 ELSE MarketHeaderSize
  IN  CASE harm = "none" -> b
        [] harm = "checksum" -> [b EXCEPT ![sum] = (@ + 1) % 256]
        [] harm = "length" /\ m.kind = "protocol" -> <<0, 3>> \o Slice(b, 2, 4)
        [] harm = "length" /\ m.kind = "market" -> [b EXCEPT ![18] = 10]
        [] harm = "longer" -> [b EXCEPT ![size] = @ + HeaderSize + 1]
        [] harm = "shorter" -> [b EXCEPT ![size] = @ - 1]

\* The items with their bytes.
Sent == {[msg |-> i.msg, harm |-> i.harm, bytes |-> Harmed(i.msg, i.harm)] :
           i \in Items}

VARIABLES
  wire,       \* the items that the server has sent, each with where its bytes start
  stream,     \* their bytes, one after the other
  expected,   \* history: the messages of them that the client is meant to handle
  received,   \* how many of their bytes recv has returned
  erased,     \* how many of those are erased from tcp_receive_buffer_
  looping,    \* process_incoming_data is in its loop
  running,    \* running_
  fate,       \* "live", or "terminated" by an exception on the client thread
  handled     \* the messages that were handled, in order

serverVars == <<wire, stream, expected>>
vars == <<serverVars, received, erased, looping, running, fate, handled>>

tcp_receive_buffer == SubSeq(stream, erased + 1, received)

-----------------------------------------------------------------------------
(* The buffer *)

IsMarket(buf) == buf[1] = ESC

\* How many bytes it takes to go on with the message at the front: enough to
\* know its length, and then that length.
Needed(buf) ==
  IF IsMarket(buf)
  THEN IF Len(buf) < MarketHeaderSize THEN MarketHeaderSize
       ELSE MarketFrame + getBodyLength(buf)
  ELSE IF Len(buf) < 2 THEN 2
       ELSE 2 + network_to_host(Slice(buf, 0, 2)) + 1

Throws(buf) ==
  IsMarket(buf) /\ Len(buf) >= MarketHeaderSize /\ ~ IsBcd(BodyLengthBytes(buf))

\* handle_protocol_message: the types that it knows, deserialized again; and the
\* way of a market data message into the SDK.
Known ==
  {LoginResponse030, RetransmissionStart050, DataResponse102,
   HeartbeatServer104, ErrorNotification010}

Handle(bytes) ==
  IF IsMarket(bytes) THEN DecodeMarket(bytes)
  ELSE IF Len(bytes) < HeaderSize THEN None
  ELSE LET type == network_to_host(Slice(bytes, 2, 2))
       IN  IF \E c \in Known : c.type = type
           THEN deserialize(ClassOf(type), bytes) ELSE None

-----------------------------------------------------------------------------
(* The server *)

\* The header ends the program; or it has the length of something else, and the
\* client, which goes by it, loses the beginnings of the messages behind it; or the
\* message is undamaged and of a known type.
Fatal(i) == i.harm = "length" /\ i.msg.kind = "market"
Misleads(i) == i.harm \in {"longer", "shorter"}

Welcome(i) ==
  /\ i.harm = "none"
  /\ i.msg.kind = "protocol" => \E c \in Known : c.type = i.msg.type

ASSUME ItemsAssumption ==
  /\ MaxItems \in Nat
  /\ \A i \in Items : i.msg.kind \in {"protocol", "market"}

\* The header of an item that is not fatal announces the item's own length, unless it
\* misleads.
ASSUME FramedAssumption ==
  \A i \in Sent :
    /\ i.bytes \in Seq(0 .. 255)
    /\ IF IsMarket(i.bytes)
       THEN /\ Len(i.bytes) >= MarketHeaderSize
            /\ IsBcd(BodyLengthBytes(i.bytes)) <=> ~ Fatal(i)
            /\ ~ Fatal(i) /\ ~ Misleads(i) =>
                 Len(i.bytes) = MarketFrame + getBodyLength(i.bytes)
       ELSE /\ Len(i.bytes) >= 2 /\ ~ Fatal(i)
            /\ ~ Misleads(i) =>
                 Len(i.bytes) = 2 + network_to_host(Slice(i.bytes, 0, 2)) + 1

\* Whatever stands where a length is looked for, it is read as a natural number.
ASSUME LengthsAssumption ==
  \A a, b \in 0 .. 255 :
    /\ network_to_host(<<a, b>>) \in Nat
    /\ IsBcd(<<a, b>>) => FromBcd(<<a, b>>) \in Nat

\* A whole item is handled as the message it was made of if it is welcome, and
\* comes to nothing if it is damaged or unknown.
ASSUME HandledAssumption ==
  \A i \in Sent : ~ Fatal(i) /\ ~ Misleads(i) =>
    Handle(i.bytes) = IF Welcome(i) THEN i.msg ELSE None

\* The server sends an item. The client is meant to handle the welcome ones up to
\* the first that ends the program or misleads.
Send(i) ==
  /\ Len(wire) < MaxItems
  /\ wire' = Append(wire, [item |-> i, start |-> Len(stream), due |-> Len(expected)])
  /\ stream' = stream \o i.bytes
  /\ expected' = IF /\ Welcome(i)
                    /\ \A k \in 1 .. Len(wire) :
                         ~ Fatal(wire[k].item) /\ ~ Misleads(wire[k].item)
                 THEN Append(expected, i.msg) ELSE expected
  /\ UNCHANGED <<received, erased, looping, running, fate, handled>>

-----------------------------------------------------------------------------
(* The client thread *)

\* recv returns some bytes, and process_incoming_data appends them.
Recv ==
  /\ running /\ fate = "live" /\ ~ looping
  /\ received' \in received + 1 .. Len(stream)
  /\ looping' = TRUE
  /\ UNCHANGED <<serverVars, erased, running, fate, handled>>

\* Faulty variant of EraseFront: the last byte of a message is not waited for.
EraseFrontEarly ==
  /\ looping /\ running /\ fate = "live" /\ erased < received
  /\ ~ Throws(tcp_receive_buffer)
  /\ Len(tcp_receive_buffer) >= Needed(tcp_receive_buffer) - 1
  /\ erased' = erased + Needed(tcp_receive_buffer)
  /\ UNCHANGED <<serverVars, received, running, fate>>

\* The message at the front is complete, and its bytes are erased.
EraseFront ==
  /\ looping /\ running /\ fate = "live" /\ erased < received
  /\ ~ Throws(tcp_receive_buffer)
  /\ Len(tcp_receive_buffer) >= Needed(tcp_receive_buffer)
  /\ erased' = erased + Needed(tcp_receive_buffer)
  /\ UNCHANGED <<serverVars, received, running, fate>>

\* Faulty variant of HandleFront: all that is in the buffer is handed on.
HandleBuffer ==
  LET msg == Handle(SubSeq(stream, erased + 1, received))
  IN  handled' = IF msg = None THEN handled ELSE Append(handled, msg)

\* The erased bytes go to market_data_callback_ or handle_protocol_message.
HandleFront ==
  LET msg == Handle(SubSeq(stream, erased + 1, erased'))
  IN  handled' = IF msg = None THEN handled ELSE Append(handled, msg)

\* Faulty variant of TakeMessage: one message is taken per call.
TakeOneMessage ==
  /\ EraseFront
  /\ HandleFront
  /\ looping' = FALSE

\* One round of the loop: the message at the front is handled, or dropped with an
\* error in the log, and erased.
TakeMessage ==
  /\ EraseFront
  /\ HandleFront
  /\ UNCHANGED looping

\* The loop ends: no byte is left, or the message at the front is not complete.
LeaveLoop ==
  /\ looping /\ fate = "live"
  /\ \/ ~ running
     \/ erased = received
     \/ /\ erased < received /\ ~ Throws(tcp_receive_buffer)
        /\ Len(tcp_receive_buffer) < Needed(tcp_receive_buffer)
  /\ looping' = FALSE
  /\ UNCHANGED <<serverVars, received, erased, running, fate, handled>>

\* Faulty variant of ThrowBodyLength: the headers in the buffer are looked at before
\* the first message is handled.
ThrowAhead ==
  /\ looping /\ running /\ fate = "live"
  /\ \E k \in 1 .. Len(wire) :
       Fatal(wire[k].item) /\ wire[k].start + MarketHeaderSize <= received
  /\ fate' = "terminated"
  /\ UNCHANGED <<serverVars, received, erased, looping, running, handled>>

\* getBodyLength throws, and nothing on the client thread catches it.
ThrowBodyLength ==
  /\ looping /\ running /\ fate = "live" /\ erased < received
  /\ Throws(tcp_receive_buffer)
  /\ fate' = "terminated"
  /\ UNCHANGED <<serverVars, received, erased, looping, running, handled>>

\* stop() from the application.
stop ==
  /\ running /\ fate = "live"
  /\ running' = FALSE
  /\ UNCHANGED <<serverVars, received, erased, looping, fate, handled>>

Init ==
  /\ wire = <<>> /\ stream = <<>> /\ expected = <<>>
  /\ received = 0
  /\ erased = 0
  /\ looping = FALSE
  /\ running = TRUE
  /\ fate = "live"
  /\ handled = <<>>

Next ==
  \/ \E i \in Sent : Send(i)
  \/ Recv \/ TakeMessage \/ LeaveLoop \/ ThrowBodyLength \/ stop

\* The client thread goes on, and TCP delivers what the server has sent. (A
\* message that can be erased is handled, so the handlers need no mention.)
Spec ==
  /\ Init /\ [][Next]_vars
  /\ WF_erased(EraseFront)
  /\ WF_vars(Recv \/ LeaveLoop \/ ThrowBodyLength)

-----------------------------------------------------------------------------
(* Properties *)

\* The client has gone by a length that misleads.
adrift == \E k \in 1 .. Len(wire) : Misleads(wire[k].item) /\ erased > wire[k].start

\* The buffer is a range of the bytes that the server has sent: process_incoming_data
\* never erases more than it holds, whatever lengths it goes by, and every message
\* that it handles costs bytes.
TypeOK ==
  /\ received \in 0 .. Len(stream)
  /\ erased \in 0 .. received
  /\ Len(handled) <= erased
  /\ fate \in {"live", "terminated"}

\* What one side writes is what the other side reads, field by field, for every
\* message of the protocol, the orders and sizes of whose fields are written down
\* once in serialize and once in deserialize, and for market data. (Nothing of it
\* changes later, so it is looked at before the first byte.)
RoundTrip ==
  received = 0 => \A m \in {wire[k].item.msg : k \in 1 .. Len(wire)} :
    m = IF m.kind = "protocol" THEN deserialize(ClassOf(m.type), serialize(m))
        ELSE DecodeMarket(EncodeMarket(m))

\* When process_incoming_data returns to recv, the buffer holds less than one
\* message: nothing that has arrived whole waits for the next bytes, unless its own
\* header makes it wait or the client is adrift.
NothingWholeWaits ==
  ~ looping /\ running /\ fate = "live" /\ erased < received /\ ~ adrift =>
    \E k \in 1 .. Len(wire) :
      /\ erased = wire[k].start
      /\ received < erased + Len(wire[k].item.bytes) \/ Misleads(wire[k].item)

\* The exception that ends the program comes after everything that was sent before
\* the message with the bad BODY-LENGTH is handled, though it may all have arrived
\* with one recv.
ThrownAfterHandling == fate = "terminated" /\ ~ adrift => handled = expected

\* What was handled before the client went adrift: all that was expected.
HandledOnCourse ==
  IF adrift /\ Len(handled) >= Len(expected)
  THEN SubSeq(handled, 1, Len(expected)) ELSE handled

MS == INSTANCE MessageStream WITH
  Messages <- Messages,
  todo <- SubSeq(expected, Len(HandledOnCourse) + 1, Len(expected)),
  done <- HandledOnCourse,
  open <- running /\ fate = "live" /\ ~ adrift

\* The client is a message stream: however the bytes are cut, the messages come
\* out whole, in order, once, and in the end all of them, and one that is damaged
\* or unknown costs none of its neighbours. A length that is not the message's own
\* closes the stream, since process_incoming_data goes by it: everything before it
\* comes out, and nothing is said of what comes after it.
ImplementsMessageStream == MS!Spec

=============================================================================
