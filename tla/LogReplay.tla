----------------------------- MODULE LogReplay -----------------------------
(***************************************************************************)
(* LogFilePacketSimulator and its driver, the main loop of                 *)
(* pcap_replay_example: a capture file is read record by record, and the   *)
(* market data message of each record goes to TaifexSdk::process_message.  *)
(*                                                                         *)
(* A capture is a global header and records, a record a header of 16 bytes *)
(* and the captured data: the frame's own headers, usually one message,    *)
(* sometimes padding. The file may end anywhere in it, as when the capture *)
(* was interrupted. It is written before it is read.                       *)
(***************************************************************************)
EXTENDS WireFormat
LOCAL INSTANCE SequencesExt

CONSTANTS
  Captures,   \* what a record may hold
  MaxRecords  \* bound on the records of a file

DEFAULT_GLOBAL_HEADER_SIZE == 24
DEFAULT_PACKET_HEADER_SIZE == 16
MAX_SANE_PACKET_LENGTH == 70000

VARIABLES
  file,          \* the records of the capture, each with where it starts
  bytes,         \* what the file holds of it
  expected,      \* history: the messages that a replay is meant to process
  is_file_open,  \* is_file_open_
  pos,           \* where file_stream_ reads
  good,          \* file_stream_.good()
  place,         \* where main is
  packet,        \* what get_next_taifex_packet returned
  processed      \* the messages that process_message took

fileVars == <<file, bytes, expected>>
vars == <<fileVars, is_file_open, pos, good, place, packet, processed>>

Places ==
  {"closed", "refused", "top", "get", "empty", "packet", "end", "ended",
   "terminated"}

-----------------------------------------------------------------------------
(* process_message *)

\* getBodyLength throws on a packet that is long enough to be looked at.
Throws(p) == Len(p) >= MarketFrame /\ ~ IsBcd(BodyLengthBytes(p))

\* What it makes of a packet otherwise.
Take(p) == IF Len(p) < MarketFrame THEN None ELSE DecodeMarket(p)

-----------------------------------------------------------------------------
(* The capturing program *)

\* A capture is [prefix, msgs, trailer, swapped]: the bytes before the messages,
\* the messages, the bytes after them, and whether the capturing host has the
\* other byte order.
Data(c) ==
  c.prefix \o FlattenSeq([k \in 1 .. Len(c.msgs) |-> EncodeMarket(c.msgs[k])])
    \o c.trailer

\* A record header: a time, the captured length and the length on the line, which
\* is larger when the capture was limited.
RecordHeader(c) ==
  LET word(v) == IF c.swapped THEN host_to_network(v, 4)
                 ELSE Reverse(host_to_network(v, 4))
  IN  [i \in 1 .. 8 |-> ESC] \o word(Len(Data(c))) \o word(Len(Data(c)) + 4)

\* The records with their bytes.
Records == {[capture |-> c, bytes |-> RecordHeader(c) \o Data(c)] : c \in Captures}

Messages == UNION {{c.msgs[k] : k \in 1 .. Len(c.msgs)} : c \in Captures}

\* The captured length of a record, as a little-endian host reads it.
Announced(r) == network_to_host(Reverse(Slice(r.bytes, 8, 4)))

FirstEsc(r, i) ==
  /\ i \in DEFAULT_PACKET_HEADER_SIZE + 1 .. Len(r.bytes)
  /\ r.bytes[i] = ESC
  /\ \A j \in DEFAULT_PACKET_HEADER_SIZE + 1 .. i - 1 : r.bytes[j] # ESC

\* The first thing that looks like a message is all that the record holds.
Clean(r) ==
  /\ ESC \notin {r.capture.prefix[i] : i \in 1 .. Len(r.capture.prefix)}
  /\ Len(r.capture.msgs) = 1 /\ r.capture.trailer = <<>>

\* The record ends the replay: its length makes no sense, or what follows the
\* first ESC has a body length that is none.
Fatal(r) ==
  \/ Announced(r) > MAX_SANE_PACKET_LENGTH
  \/ \E i \in 1 .. Len(r.bytes) :
       FirstEsc(r, i) /\ Throws(SubSeq(r.bytes, i, Len(r.bytes)))

\* A record's header has the length of its data, or one that makes no sense.
ASSUME RecordsAssumption ==
  /\ MaxRecords \in Nat
  /\ \A c \in Captures : \A k \in 1 .. Len(c.msgs) : c.msgs[k].kind = "market"
  /\ \A r \in Records :
       /\ r.bytes \in Seq(0 .. 255) /\ Len(r.bytes) >= DEFAULT_PACKET_HEADER_SIZE
       /\ Announced(r) \in Nat
       /\ \/ Announced(r) = Len(r.bytes) - DEFAULT_PACKET_HEADER_SIZE
          \/ Announced(r) > MAX_SANE_PACKET_LENGTH

\* What follows the first ESC of a record that is not fatal is taken as the record's
\* message if the record is clean, and comes to nothing if it is not.
ASSUME TakenAssumption ==
  \A r \in Records : ~ Fatal(r) =>
    /\ Clean(r) => \E i \in 1 .. Len(r.bytes) : FirstEsc(r, i)
    /\ \A i \in 1 .. Len(r.bytes) : FirstEsc(r, i) =>
         Take(SubSeq(r.bytes, i, Len(r.bytes))) =
           IF Clean(r) THEN r.capture.msgs[1] ELSE None

\* Where the k-th record starts.
Boundary(k) ==
  IF k = 1 THEN DEFAULT_GLOBAL_HEADER_SIZE
  ELSE file[k - 1].start + Len(file[k - 1].record.bytes)

\* A record is written, or its first size bytes: nothing follows what was
\* interrupted. The message of a clean record is meant to be replayed if the record
\* is whole and no record before it is fatal.
Capture(r, size) ==
  /\ place = "closed" /\ Len(file) < MaxRecords
  /\ Len(bytes) = Boundary(Len(file) + 1)
  /\ file' = Append(file, [record |-> r, start |-> Len(bytes), due |-> Len(expected)])
  /\ bytes' = bytes \o SubSeq(r.bytes, 1, size)
  /\ expected' = IF /\ size = Len(r.bytes) /\ Clean(r) /\ ~ Fatal(r)
                    /\ \A k \in 1 .. Len(file) : ~ Fatal(file[k].record)
                 THEN Append(expected, r.capture.msgs[1]) ELSE expected
  /\ UNCHANGED <<is_file_open, pos, good, place, packet, processed>>

-----------------------------------------------------------------------------
(* LogFilePacketSimulator *)

\* open: a seek past the end of a short file does not fail.
open ==
  /\ place = "closed"
  /\ is_file_open' = TRUE
  /\ pos' = DEFAULT_GLOBAL_HEADER_SIZE
  /\ good' = TRUE
  /\ place' = "top"
  /\ UNCHANGED <<fileVars, packet, processed>>

\* open returns false, and main ends: there is no such file.
OpenFails ==
  /\ place = "closed"
  /\ place' = "refused"
  /\ UNCHANGED <<fileVars, is_file_open, pos, good, packet, processed>>

\* has_next_packet: peek at the end of the file makes the stream fail.
has_next_packet == is_file_open /\ good /\ pos < Len(bytes)
Peek == good' = (good /\ (is_file_open => pos < Len(bytes)))

HasHeader == Len(bytes) - pos >= DEFAULT_PACKET_HEADER_SIZE

\* Faulty variant of read_pcap_packet_captured_length: the next field is read.
read_original_length == network_to_host(Reverse(Slice(bytes, pos + 12, 4)))

\* The field at offset 8, in the order of this host, a little-endian one.
read_pcap_packet_captured_length ==
  network_to_host(Reverse(Slice(bytes, pos + 8, 4)))

RecordEnd == pos + DEFAULT_PACKET_HEADER_SIZE + read_pcap_packet_captured_length

\* The header is complete, and so are the data that it announces.
WholeRecord ==
  /\ HasHeader
  /\ read_pcap_packet_captured_length <= MAX_SANE_PACKET_LENGTH
  /\ RecordEnd <= Len(bytes)

\* Where the captured data have an ESC.
Escs == {i \in pos + DEFAULT_PACKET_HEADER_SIZE + 1 .. RecordEnd : bytes[i] = ESC}

\* get_next_taifex_packet returns the data from the first ESC on.
GetPacket ==
  /\ place = "get" /\ WholeRecord
  /\ \E i \in Escs :
       /\ \A j \in Escs : i <= j
       /\ packet' = SubSeq(bytes, i, RecordEnd)
  /\ pos' = RecordEnd
  /\ place' = "packet"
  /\ UNCHANGED <<fileVars, is_file_open, good, processed>>

\* It returns nothing: the record is empty, or has no ESC.
SkipRecord ==
  /\ place = "get" /\ WholeRecord /\ Escs = {}
  /\ pos' = RecordEnd
  /\ place' = "empty"
  /\ UNCHANGED <<fileVars, is_file_open, good, packet, processed>>

\* It returns nothing, and has closed the file: no record is that long.
CloseOversized ==
  /\ place = "get" /\ HasHeader
  /\ read_pcap_packet_captured_length > MAX_SANE_PACKET_LENGTH
  /\ pos' = pos + DEFAULT_PACKET_HEADER_SIZE
  /\ is_file_open' = FALSE
  /\ place' = "empty"
  /\ UNCHANGED <<fileVars, good, packet, processed>>

CutShort ==
  \/ ~ HasHeader
  \/ /\ HasHeader
     /\ read_pcap_packet_captured_length <= MAX_SANE_PACKET_LENGTH
     /\ RecordEnd > Len(bytes)

\* Faulty variant of ReadFails: the position is counted on by what was asked for.
ReadFailsPast ==
  /\ place = "get" /\ CutShort
  /\ pos' = pos + DEFAULT_PACKET_HEADER_SIZE
  /\ good' = FALSE
  /\ place' = "empty"
  /\ UNCHANGED <<fileVars, is_file_open, packet, processed>>

\* Faulty variant of ReadFails: the stream is set back to try again.
ReadFailsRetried ==
  /\ place = "get" /\ CutShort
  /\ place' = "empty"
  /\ UNCHANGED <<fileVars, is_file_open, pos, good, packet, processed>>

\* It returns nothing: the file ends within the record.
ReadFails ==
  /\ place = "get" /\ CutShort
  /\ pos' = Len(bytes)
  /\ good' = FALSE
  /\ place' = "empty"
  /\ UNCHANGED <<fileVars, is_file_open, packet, processed>>

close ==
  /\ place = "end"
  /\ is_file_open' = FALSE
  /\ place' = "ended"
  /\ UNCHANGED <<fileVars, pos, good, packet, processed>>

-----------------------------------------------------------------------------
(* main *)

LoopTop ==
  /\ place = "top"
  /\ Peek
  /\ place' = IF has_next_packet THEN "get" ELSE "end"
  /\ UNCHANGED <<fileVars, is_file_open, pos, packet, processed>>

\* Faulty variant of AfterEmpty: nothing returned is taken for the end.
AfterEmptyStops ==
  /\ place = "empty"
  /\ Peek
  /\ place' = "end"
  /\ UNCHANGED <<fileVars, is_file_open, pos, packet, processed>>

\* Nothing was returned: the loop goes on unless the file is over or closed.
AfterEmpty ==
  /\ place = "empty"
  /\ Peek
  /\ place' = IF has_next_packet THEN "top" ELSE "end"
  /\ UNCHANGED <<fileVars, is_file_open, pos, packet, processed>>

\* process_message returns to the loop.
ProcessReturns ==
  /\ place = "packet" /\ ~ Throws(packet)
  /\ place' = "top"
  /\ UNCHANGED <<fileVars, is_file_open, pos, good, packet>>

process_message ==
  /\ ProcessReturns
  /\ LET msg == Take(packet)
     IN  processed' = IF msg = None THEN processed ELSE Append(processed, msg)

\* The exception leaves main.
ProcessThrows ==
  /\ place = "packet" /\ Throws(packet)
  /\ place' = "terminated"
  /\ UNCHANGED <<fileVars, is_file_open, pos, good, packet, processed>>

\* The file has the global header, or a part of it.
Init ==
  /\ file = <<>> /\ expected = <<>>
  /\ \E size \in 0 .. DEFAULT_GLOBAL_HEADER_SIZE : bytes = [i \in 1 .. size |-> ESC]
  /\ is_file_open = FALSE
  /\ pos = 0
  /\ good = TRUE
  /\ place = "closed"
  /\ packet = <<>>
  /\ processed = <<>>

\* main's steps other than the return from process_message.
Reading ==
  \/ open \/ OpenFails \/ close \/ LoopTop \/ AfterEmpty
  \/ GetPacket \/ SkipRecord \/ CloseOversized \/ ReadFails \/ ProcessThrows

Next ==
  \/ \E r \in Records : \E size \in 1 .. Len(r.bytes) : Capture(r, size)
  \/ Reading \/ process_message

\* main runs on. (Whether process_message returns does not depend on the message
\* it takes, so its fairness is that of ProcessReturns.)
Spec == Init /\ [][Next]_vars /\ WF_vars(Reading) /\ WF_place(ProcessReturns)

-----------------------------------------------------------------------------
(* Properties *)

\* Every variable has its type: file_stream_ reads at a place within the file, or
\* past the global header of a file that is too short for one, and no record yields
\* two messages.
TypeOK ==
  /\ is_file_open \in BOOLEAN
  /\ good \in BOOLEAN
  /\ pos \in 0 .. Len(bytes) \cup {DEFAULT_GLOBAL_HEADER_SIZE}
  /\ place \in Places
  /\ Len(processed) <= MaxRecords

\* Whenever main asks for the next packet of a file that can be read, the stream
\* is at the start of a record: no record that was skipped, or whose data start or
\* end with something else, makes the reader take data for a header.
AlignedOnRecords ==
  place = "top" /\ is_file_open /\ good =>
    \E k \in 1 .. Len(file) + 1 : pos = Boundary(k)

MS == INSTANCE MessageStream WITH
  Messages <- Messages,
  todo <- SubSeq(expected, Len(processed) + 1, Len(expected)),
  done <- processed,
  open <- place # "refused"

\* A replay is a message stream that is never closed early: the message of every
\* clean record comes out, in order and once, whatever lies between them and
\* wherever the file ends. Nothing is expected of the records behind one that
\* ends the replay (Fatal), by its length or by an exception.
ImplementsMessageStream == MS!Spec

\* Every replay comes to an end, also of a file that ends within a record.
ReplayEnds == <>(place \in {"refused", "ended", "terminated"})

=============================================================================
