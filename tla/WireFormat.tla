----------------------------- MODULE WireFormat -----------------------------
(***************************************************************************)
(* The bytes of a message, as the code reads and writes them: big-endian   *)
(* and packed BCD numbers, the two checksums, the messages of the          *)
(* retransmission protocol (networking/retransmission_protocol.cpp) and    *)
(* the frame of a market data message (common_header.cpp,                  *)
(* sdk/taifex_sdk.cpp).                                                    *)
(*                                                                         *)
(* A byte is a number from 0 to 255, data are sequences of bytes. What a   *)
(* market data message carries after its header is left uninterpreted.     *)
(***************************************************************************)
EXTENDS Integers, Sequences
LOCAL INSTANCE SequencesExt

ESC == 27

\* n bytes of data from an offset, counted from 0 as in the code.
Slice(data, offset, n) == SubSeq(data, offset + 1, offset + n)

\* A result that stands for "false", or for an exception.
None == [kind |-> "none"]

-----------------------------------------------------------------------------
(* Numbers *)

\* htons, htonl: the n bytes of v, the highest first.
host_to_network(v, n) == [i \in 1 .. n |-> (v \div 256 ^ (n - i)) % 256]

\* ntohs, ntohl
network_to_host(bytes) == FoldLeft(LAMBDA v, b : v * 256 + b, 0, bytes)

\* The value of a sequence of decimal digits (std::stoul).
Decimal(digits) == FoldLeft(LAMBDA v, d : v * 10 + d, 0, digits)

Nibbles(bytes) == [i \in 1 .. 2 * Len(bytes) |->
  IF i % 2 = 1 THEN bytes[(i + 1) \div 2] \div 16 ELSE bytes[i \div 2] % 16]

IsBcd(bytes) == \A i \in 1 .. 2 * Len(bytes) : Nibbles(bytes)[i] <= 9

\* packBcdToAscii of num_digits digits: zeros are put in front, or the leading
\* digits dropped. It throws unless IsBcd.
packBcdToAscii(bytes, num_digits) ==
  LET all == [i \in 1 .. num_digits |-> 0] \o Nibbles(bytes)
  IN  SubSeq(all, Len(all) - num_digits + 1, Len(all))

\* asciiToPackBcd: an odd number of digits gets a zero in front.
asciiToPackBcd(digits) ==
  LET d == IF Len(digits) % 2 = 1 THEN <<0>> \o digits ELSE digits
  IN  [i \in 1 .. Len(d) \div 2 |-> 16 * d[2 * i - 1] + d[2 * i]]

\* A number as n BCD bytes, as the exchange fills a field 9(2n).
ToBcd(v, n) ==
  asciiToPackBcd([i \in 1 .. 2 * n |->
    IF 2 * n - i > 8 THEN 0 ELSE (v \div 10 ^ (2 * n - i)) % 10])

FromBcd(bytes) == Decimal(packBcdToAscii(bytes, 2 * Len(bytes)))

-----------------------------------------------------------------------------
(* Checksums *)

calculate_retransmission_checksum(data) ==
  FoldLeft(LAMBDA sum, b : sum + b, 0, data) % 256

\* a ^ b: bit k is that of the two quotients' sum.
Xor(a, b) ==
  LET bit(k) == 2 ^ k * ((a \div 2 ^ k + b \div 2 ^ k) % 2)
  IN  bit(0) + bit(1) + bit(2) + bit(3) + bit(4) + bit(5) + bit(6) + bit(7)

calculateXorChecksum(data) == FoldLeft(Xor, 0, data)

-----------------------------------------------------------------------------
(* The retransmission protocol *)

\* The fields of each payload with their sizes: _written in the order in which the
\* class's serialize puts them into the buffer, _read in the order in which its
\* deserialize takes them out.
LoginRequest020_written ==
  <<<<"multiplication_operator", 2>>, <<"check_code", 1>>, <<"session_id", 2>>>>

\* Faulty variant of LoginRequest020_read: two fields change places.
LoginRequest020_misread ==
  <<<<"multiplication_operator", 2>>, <<"session_id", 2>>, <<"check_code", 1>>>>

LoginRequest020_read ==
  <<<<"multiplication_operator", 2>>, <<"check_code", 1>>, <<"session_id", 2>>>>

LoginResponse030_written == <<<<"channel_id", 2>>>>
LoginResponse030_read == <<<<"channel_id", 2>>>>

ErrorNotification010_written == <<<<"status_code", 1>>>>
ErrorNotification010_read == <<<<"status_code", 1>>>>

DataRequest101_written ==
  <<<<"channel_id", 2>>, <<"begin_seq_no", 4>>, <<"recover_num", 2>>>>
DataRequest101_read ==
  <<<<"channel_id", 2>>, <<"begin_seq_no", 4>>, <<"recover_num", 2>>>>

DataResponse102_written ==
  <<<<"channel_id", 2>>, <<"status_code", 1>>, <<"begin_seq_no", 4>>,
    <<"recover_num", 2>>>>
DataResponse102_read ==
  <<<<"channel_id", 2>>, <<"status_code", 1>>, <<"begin_seq_no", 4>>,
    <<"recover_num", 2>>>>

\* A message class: its MESSAGE_TYPE, its PAYLOAD_SIZE constant, the two orders of
\* its fields, and whether data of any length follow them.
Class(type, size, written, read, variable) ==
  [type |-> type, size |-> size, written |-> written, read |-> read,
   variable |-> variable]

LoginRequest020 ==
  Class(20, 2 + 1 + 2, LoginRequest020_written, LoginRequest020_read, FALSE)
LoginResponse030 ==
  Class(30, 2, LoginResponse030_written, LoginResponse030_read, FALSE)
RetransmissionStart050 == Class(50, 0, <<>>, <<>>, FALSE)
ErrorNotification010 ==
  Class(10, 1, ErrorNotification010_written, ErrorNotification010_read, FALSE)
HeartbeatServer104 == Class(104, 0, <<>>, <<>>, FALSE)
HeartbeatClient105 == Class(105, 0, <<>>, <<>>, FALSE)
DataRequest101 ==
  Class(101, 2 + 4 + 2, DataRequest101_written, DataRequest101_read, FALSE)
DataResponse102 ==
  Class(102, 2 + 1 + 4 + 2, DataResponse102_written, DataResponse102_read, TRUE)

Classes ==
  {LoginRequest020, LoginResponse030, RetransmissionStart050,
   ErrorNotification010, HeartbeatServer104, HeartbeatClient105,
   DataRequest101, DataResponse102}

ClassOf(type) == CHOOSE c \in Classes : c.type = type

\* CheckCode of a login: the two digits above the last two of the product.
calculate_check_code(mult_op, password) == ((mult_op * password) \div 100) % 100

\* RetransmissionMsgHeader::SIZE, and the part of it that MsgSize counts.
HeaderSize == 16
CountedHeader == HeaderSize - 2

\* How many bytes the first n fields take.
Width(layout, n) == FoldLeft(LAMBDA s, f : s + f[2], 0, SubSeq(layout, 1, n))

\* serialize: MsgSize is that of the class's constant and the data, and the checksum
\* is taken over the bytes that it counts. A message is [kind, type, num, time,
\* fields, data], its fields by their names.
serialize(m) ==
  LET c == ClassOf(m.type)
      msg_size == CountedHeader + c.size + Len(m.data)
      buffer ==
        host_to_network(msg_size, 2)
          \o host_to_network(m.type, 2)
          \o host_to_network(m.num, 4)
          \o host_to_network(m.time[1], 4) \o host_to_network(m.time[2], 4)
          \o FlattenSeq([i \in 1 .. Len(c.written) |->
               host_to_network(m.fields[c.written[i][1]], c.written[i][2])])
          \o m.data
  IN  Append(buffer, calculate_retransmission_checksum(Slice(buffer, 0, 2 + msg_size)))

\* deserialize: MsgSize has to be the class's, or no less. The fields are read one
\* after the other, the footer where they and the data end, and that has to be the
\* end of the message.
deserialize(c, bytes) ==
  LET msg_size == network_to_host(Slice(bytes, 0, 2))
      least == CountedHeader + c.size
      full == 2 + msg_size + 1
      data_at == HeaderSize + Width(c.read, Len(c.read))
      footer_at == data_at + (msg_size - least)
      field(i) ==
        network_to_host(Slice(bytes, HeaderSize + Width(c.read, i - 1), c.read[i][2]))
      ok == /\ Len(bytes) >= HeaderSize
            /\ network_to_host(Slice(bytes, 2, 2)) = c.type
            /\ IF c.variable THEN msg_size >= least ELSE msg_size = least
            /\ Len(bytes) >= full
            /\ footer_at + 1 = full
            /\ bytes[full] =
                 calculate_retransmission_checksum(Slice(bytes, 0, 2 + msg_size))
  IN  IF ~ ok THEN None
      ELSE [kind |-> "protocol", type |-> c.type,
            num |-> network_to_host(Slice(bytes, 4, 4)),
            time |-> <<network_to_host(Slice(bytes, 8, 4)),
                       network_to_host(Slice(bytes, 12, 4))>>,
            fields |-> [f \in {c.read[i][1] : i \in 1 .. Len(c.read)} |->
              field(CHOOSE i \in 1 .. Len(c.read) : c.read[i][1] = f)],
            data |-> Slice(bytes, data_at, msg_size - least)]

-----------------------------------------------------------------------------
(* Market data *)

\* CommonHeader::HEADER_SIZE; a checksum and a terminal code follow the body.
MarketHeaderSize == 19
MarketFrame == MarketHeaderSize + 1 + 2

\* CommonHeader::getBodyLength throws unless these bytes are BCD.
BodyLengthBytes(bytes) == Slice(bytes, 17, 2)
getBodyLength(bytes) == FromBcd(BodyLengthBytes(bytes))

\* A message of the exchange, [kind, tc, mk, ch, seq, body], on the wire.
EncodeMarket(m) ==
  LET segment ==
        <<m.tc, m.mk>> \o ToBcd(0, 6) \o ToBcd(m.ch, 2) \o ToBcd(m.seq, 5)
          \o ToBcd(1, 1) \o ToBcd(Len(m.body), 2) \o m.body
  IN  <<ESC>> \o segment \o <<calculateXorChecksum(segment), 13, 10>>

\* What process_message makes of a packet whose header is BCD: its length has to
\* be exactly that of one message, and the checksum leaves the ESC out.
DecodeMarket(bytes) ==
  LET body == getBodyLength(bytes)
      ok == /\ Len(bytes) >= MarketFrame
            /\ Len(bytes) = MarketFrame + body
            /\ bytes[MarketHeaderSize + body + 1] =
                 calculateXorChecksum(Slice(bytes, 1, MarketHeaderSize - 1 + body))
  IN  IF ~ ok THEN None
      ELSE [kind |-> "market", tc |-> bytes[2], mk |-> bytes[3],
            ch |-> FromBcd(Slice(bytes, 9, 2)),
            seq |-> FromBcd(Slice(bytes, 11, 5)),
            body |-> Slice(bytes, MarketHeaderSize, body)]

=============================================================================
