--------------------------- MODULE LogReplayProofs ---------------------------
(***************************************************************************)
(* get_next_taifex_packet stays on the record boundaries of a capture, and *)
(* the replay processes the messages of its clean records in order and     *)
(* once, for every set of records whose headers announce their length and  *)
(* wherever the file ends.                                                 *)
(***************************************************************************)
EXTENDS LogReplay, SequenceRanges

Bytes == 0 .. 255

\* What the capturing program writes, and the message that a clean record holds.
LEMMA RecordFacts ==
  ASSUME NEW r \in Records
  PROVE  /\ r.bytes \in Seq(Bytes) /\ Len(r.bytes) \in Nat /\ Len(r.bytes) >= 16
         /\ Announced(r) \in Nat
         /\ Announced(r) = Len(r.bytes) - 16 \/ Announced(r) > MAX_SANE_PACKET_LENGTH
         /\ Clean(r) => r.capture.msgs[1] \in Messages /\ r.capture.msgs[1] # None
<1>1. r.bytes \in Seq(Bytes)
  BY RecordsAssumption DEF Bytes
<1>2. Len(r.bytes) \in Nat
  BY <1>1, LenProperties
<1>3. /\ Len(r.bytes) >= 16 /\ Announced(r) \in Nat
      /\ Announced(r) = Len(r.bytes) - 16 \/ Announced(r) > MAX_SANE_PACKET_LENGTH
  BY RecordsAssumption DEF DEFAULT_PACKET_HEADER_SIZE
<1>4. ASSUME Clean(r)
      PROVE  r.capture.msgs[1] \in Messages /\ r.capture.msgs[1] # None
  <2>1. PICK c \in Captures : r.capture = c
    BY DEF Records
  <2>2. Len(c.msgs) = 1
    BY <1>4, <2>1 DEF Clean
  <2>3. 1 \in 1 .. Len(c.msgs)
    BY <2>2
  <2>4. c.msgs[1].kind = "market"
    BY <2>3, RecordsAssumption
  <2>5. c.msgs[1] # None
    BY <2>4 DEF None
  <2>6. c.msgs[1] \in Messages
    BY <2>3 DEF Messages
  <2> QED
    BY <2>1, <2>5, <2>6
<1> QED
  BY <1>1, <1>2, <1>3, <1>4

-----------------------------------------------------------------------------
(* The inductive invariant *)

\* How many messages are due before the k-th record; one past the last record, all.
Due(k) == IF k > Len(file) THEN Len(expected) ELSE file[k].due

Sound(k) == \A j \in 1 .. k : ~ Fatal(file[j].record)

ReplayTypeOK ==
  /\ file \in Seq([record : Records, start : Nat, due : Nat])
  /\ bytes \in Seq(Bytes)
  /\ expected \in Seq(Messages)
  /\ Len(file) <= MaxRecords /\ Len(expected) <= Len(file)
  /\ is_file_open \in BOOLEAN /\ good \in BOOLEAN
  /\ pos \in 0 .. Len(bytes) \cup {DEFAULT_GLOBAL_HEADER_SIZE}
  /\ place \in Places
  /\ processed \in Seq(Messages)

\* The file is the global header and the records' bytes, one after the other, as
\* far as it was written, and the expected messages are those of the clean records
\* in it before the first fatal one.
Layout ==
  /\ Len(bytes) <= Boundary(Len(file) + 1)
  /\ Due(1) = 0
  /\ \A k \in 1 .. Len(file) :
       /\ file[k].start = Boundary(k) /\ Boundary(k) <= Len(bytes)
       /\ \A j \in 1 .. Len(file[k].record.bytes) :
            Boundary(k) + j <= Len(bytes) => bytes[Boundary(k) + j] = file[k].record.bytes[j]
       /\ Due(k) <= Len(expected)
       /\ Boundary(k + 1) <= Len(bytes) /\ Sound(k) =>
            IF Clean(file[k].record)
            THEN /\ Due(k + 1) = Due(k) + 1
                 /\ expected[Due(k) + 1] = file[k].record.capture.msgs[1]
            ELSE Due(k + 1) = Due(k)

\* The packet that process_message gets is what follows the first ESC of the k-th
\* record, which the reader has passed.
Passed(k) ==
  /\ k <= Len(file) /\ is_file_open /\ good
  /\ pos = Boundary(k + 1) /\ pos <= Len(bytes)
  /\ Announced(file[k].record) <= MAX_SANE_PACKET_LENGTH
  /\ \E i \in 1 .. Len(file[k].record.bytes) :
       /\ FirstEsc(file[k].record, i)
       /\ packet = SubSeq(file[k].record.bytes, i, Len(file[k].record.bytes))

\* The k-th record is the next to be replayed: no record before it is fatal and
\* their messages are processed; a stream that can be read is at its start, unless
\* the record is in process_message.
AtRecord(k) ==
  /\ Sound(k - 1)
  /\ processed = SubSeq(expected, 1, Due(k))
  /\ place = "closed" => k = 1
  /\ place \in {"top", "empty"} /\ is_file_open /\ good => pos = Boundary(k)
  /\ place = "get" => is_file_open /\ good /\ pos = Boundary(k) /\ pos < Len(bytes)
  /\ place = "packet" => Passed(k)

ReplayInv ==
  /\ ReplayTypeOK
  /\ Layout
  /\ \E k \in 1 .. (Len(file) + 1) : AtRecord(k)

\* What the layout says of boundaries and counts.
LEMMA WithinFile ==
  ASSUME ReplayTypeOK, Layout
  PROVE  /\ Len(file) \in Nat /\ Len(bytes) \in Nat /\ Len(expected) \in Nat
         /\ \A k \in 1 .. Len(file) :
              /\ file[k].record \in Records /\ file[k].start = Boundary(k)
              /\ Due(k) = file[k].due
              /\ Boundary(k) \in Nat /\ Boundary(k) <= Len(bytes)
              /\ Boundary(k + 1) = Boundary(k) + Len(file[k].record.bytes)
         /\ \A k \in 1 .. (Len(file) + 1) : Boundary(k) \in Nat /\ Due(k) \in 0 .. Len(expected)
<1>1. Len(file) \in Nat /\ Len(bytes) \in Nat /\ Len(expected) \in Nat
  BY LenProperties DEF ReplayTypeOK
<1>2. ASSUME NEW k \in 1 .. Len(file)
      PROVE  /\ file[k].record \in Records /\ file[k].start = Boundary(k)
             /\ Due(k) = file[k].due /\ Due(k) \in 0 .. Len(expected)
             /\ Boundary(k) \in Nat /\ Boundary(k) <= Len(bytes)
             /\ Boundary(k + 1) = Boundary(k) + Len(file[k].record.bytes)
             /\ Boundary(k + 1) \in Nat
  <2>1. file[k] \in [record : Records, start : Nat, due : Nat]
    BY ElementOfSeq DEF ReplayTypeOK
  <2>2. file[k].start = Boundary(k) /\ Boundary(k) <= Len(bytes) /\ Due(k) <= Len(expected)
    BY DEF Layout
  <2>3. ~ (k > Len(file)) /\ k + 1 # 1 /\ k + 1 - 1 = k
    BY <1>1
  <2>4. Due(k) = file[k].due
    BY <2>3 DEF Due
  <2>5. Due(k) \in 0 .. Len(expected)
    BY <1>1, <2>1, <2>2, <2>4
  <2>6. Boundary(k + 1) = file[k].start + Len(file[k].record.bytes)
    BY <2>3 DEF Boundary
  <2>7. Len(file[k].record.bytes) \in Nat
    BY <2>1, RecordFacts
  <2> QED
    BY <2>1, <2>2, <2>4, <2>5, <2>6, <2>7
<1>3. ASSUME NEW k \in 1 .. (Len(file) + 1)
      PROVE  Boundary(k) \in Nat /\ Due(k) \in 0 .. Len(expected)
  <2>1. CASE k \in 1 .. Len(file)
    BY <1>2, <2>1
  <2>2. CASE ~ (k \in 1 .. Len(file))
    <3>1. k > Len(file) /\ (k = 1 \/ k - 1 \in 1 .. Len(file))
      BY <1>1, <2>2
    <3>2. Due(k) \in 0 .. Len(expected)
      BY <1>1, <3>1 DEF Due
    <3>3. CASE k = 1
      BY <3>2, <3>3 DEF Boundary, DEFAULT_GLOBAL_HEADER_SIZE
    <3>4. CASE k - 1 \in 1 .. Len(file)
      <4>1. Boundary(k - 1 + 1) \in Nat
        BY <1>2, <3>4
      <4>2. k - 1 + 1 = k
        OBVIOUS
      <4> QED
        BY <3>2, <4>1, <4>2
    <3> QED
      BY <3>1, <3>3, <3>4
  <2> QED
    BY <2>1, <2>2
<1> QED
  BY <1>1, <1>2, <1>3

\* The messages that were processed are those due before the next record.
LEMMA ProcessedBefore ==
  ASSUME ReplayInv, NEW k \in 1 .. (Len(file) + 1), AtRecord(k)
  PROVE  Due(k) \in 0 .. Len(expected) /\ Len(processed) = Due(k)
<1>1. ReplayTypeOK /\ Layout
  BY DEF ReplayInv
<1>2. Due(k) \in 0 .. Len(expected) /\ Len(expected) \in Nat
  BY <1>1, WithinFile
<1>3. /\ expected \in Seq(Messages) /\ 1 \in 1 .. (Len(expected) + 1)
      /\ Due(k) \in (1 - 1) .. Len(expected)
  BY <1>1, <1>2 DEF ReplayTypeOK
<1>4. Len(SubSeq(expected, 1, Due(k))) = Due(k) - 1 + 1
  BY <1>3, RangeElements
<1> QED
  BY <1>2, <1>4 DEF AtRecord

\* The invariant has the two properties that a run checks.
LEMMA ReplayInvImplies == ReplayInv => TypeOK /\ AlignedOnRecords
<1> SUFFICES ASSUME ReplayInv PROVE TypeOK /\ AlignedOnRecords
  OBVIOUS
<1>1. ReplayTypeOK /\ Layout
  BY DEF ReplayInv
<1>2. PICK k \in 1 .. (Len(file) + 1) : AtRecord(k)
  BY DEF ReplayInv
<1>3. Due(k) \in 0 .. Len(expected) /\ Len(processed) = Due(k)
  BY <1>2, ProcessedBefore
<1>4. Len(file) \in Nat /\ Len(expected) \in Nat
  BY <1>1, WithinFile
<1>5. Len(processed) <= MaxRecords
  <2>1. Len(file) <= MaxRecords /\ Len(expected) <= Len(file)
    BY <1>1 DEF ReplayTypeOK
  <2> QED
    BY <1>3, <1>4, <2>1, RecordsAssumption
<1>6. TypeOK
  BY <1>1, <1>5 DEF ReplayTypeOK, TypeOK
<1>7. AlignedOnRecords
  BY <1>2 DEF AtRecord, AlignedOnRecords
<1> QED
  BY <1>6, <1>7

\* Before anything is captured.
LEMMA ReplayInitInv == Init => ReplayInv
<1> SUFFICES ASSUME Init PROVE ReplayInv
  OBVIOUS
<1>1. /\ file = << >> /\ expected = << >> /\ is_file_open = FALSE /\ pos = 0 /\ good = TRUE
      /\ place = "closed" /\ processed = << >>
  BY DEF Init
<1>2. Len(<< >>) = 0 /\ \A S : << >> \in Seq(S)
  OBVIOUS
<1>3. PICK size \in 0 .. 24 : bytes = [i \in 1 .. size |-> ESC]
  BY DEF Init, DEFAULT_GLOBAL_HEADER_SIZE
<1>4. bytes \in Seq(Bytes) /\ Len(bytes) = size
  <2>1. ESC \in Bytes /\ size \in Nat
    BY DEF ESC, Bytes
  <2> QED
    BY <1>3, <2>1
<1>5. ReplayTypeOK
  <2>1. Len(file) <= MaxRecords /\ Len(expected) <= Len(file)
    BY <1>1, <1>2, RecordsAssumption
  <2>2. pos \in 0 .. Len(bytes)
    BY <1>1, <1>4
  <2> QED
    BY <1>1, <1>2, <1>4, <2>1, <2>2 DEF ReplayTypeOK, Places
<1>6. Len(file) + 1 = 1 /\ 1 .. Len(file) = {} /\ Due(1) = 0 /\ Boundary(1) = 24
  BY <1>1, <1>2 DEF Due, Boundary, DEFAULT_GLOBAL_HEADER_SIZE
<1>7. Layout
  BY <1>4, <1>6 DEF Layout
<1>8. AtRecord(1)
  <2>1. SubSeq(expected, 1, 0) = << >>
    BY <1>1
  <2>2. Sound(1 - 1)
    BY DEF Sound
  <2> QED
    BY <1>1, <1>6, <2>1, <2>2 DEF AtRecord
<1> QED
  BY <1>5, <1>6, <1>7, <1>8 DEF ReplayInv

-----------------------------------------------------------------------------
(* The reader *)

\* Reading leaves the file, and its layout, alone.
LEMMA ReaderStep ==
  ASSUME ReplayTypeOK, Layout, UNCHANGED fileVars
  PROVE  /\ file' = file /\ bytes' = bytes /\ expected' = expected
         /\ \A k : Boundary(k)' = Boundary(k) /\ Due(k)' = Due(k) /\ Sound(k)' = Sound(k)
         /\ Layout'
<1>1. file' = file /\ bytes' = bytes /\ expected' = expected
  BY DEF fileVars
<1>2. ASSUME NEW k
      PROVE  Boundary(k)' = Boundary(k) /\ Due(k)' = Due(k) /\ Sound(k)' = Sound(k)
  BY <1>1 DEF Boundary, Due, Sound
<1>3. Layout'
  BY <1>1, ZenonT(60) DEF Layout, Boundary, Due, Sound
<1> QED
  BY <1>1, <1>2, <1>3

\* get_next_taifex_packet is called at the start of a record of the file, and the
\* length that it reads is the one in that record's header.
LEMMA AtHeader ==
  ASSUME ReplayInv, NEW k \in 1 .. (Len(file) + 1), AtRecord(k), place = "get"
  PROVE  /\ k \in 1 .. Len(file) /\ file[k].record \in Records
         /\ pos = Boundary(k) /\ pos \in Nat /\ pos < Len(bytes) /\ is_file_open /\ good
         /\ \A j \in 1 .. Len(file[k].record.bytes) :
              pos + j <= Len(bytes) => bytes[pos + j] = file[k].record.bytes[j]
         /\ HasHeader => read_pcap_packet_captured_length = Announced(file[k].record)
<1> DEFINE b == file[k].record.bytes
<1>1. ReplayTypeOK /\ Layout
  BY DEF ReplayInv
<1>2. pos = Boundary(k) /\ pos < Len(bytes) /\ is_file_open /\ good
  BY DEF AtRecord
<1>3. Len(file) \in Nat /\ Len(bytes) \in Nat /\ Boundary(k) \in Nat
  BY <1>1, WithinFile
<1>4. k \in 1 .. Len(file)
  <2>1. ASSUME k = Len(file) + 1 PROVE FALSE
    <3>1. Len(bytes) <= Boundary(k)
      BY <1>1, <2>1 DEF Layout
    <3> QED
      BY <1>2, <1>3, <3>1
  <2> QED
    BY <1>3, <2>1
<1>5. file[k].record \in Records
  BY <1>1, <1>4, WithinFile
<1>6. b \in Seq(Bytes) /\ Len(b) \in Nat /\ Len(b) >= 16
  BY <1>5, RecordFacts
<1>7. \A j \in 1 .. Len(b) : pos + j <= Len(bytes) => bytes[pos + j] = b[j]
  BY <1>1, <1>2, <1>4 DEF Layout
<1> HIDE DEF b
<1>8. ASSUME HasHeader
      PROVE  read_pcap_packet_captured_length = Announced(file[k].record)
  <2>1. PICK p \in Nat : p = pos
    BY <1>2, <1>3
  <2>2. Len(bytes) - p >= 16
    BY <1>8, <2>1 DEF HasHeader, DEFAULT_PACKET_HEADER_SIZE
  <2>3. SubSeq(bytes, p + 8 + 1, p + 8 + 4) = SubSeq(b, 8 + 1, 8 + 4)
    <3>1. bytes \in Seq(Bytes)
      BY <1>1 DEF ReplayTypeOK
    <3>2. /\ p + 8 + 1 \in 1 .. (Len(bytes) + 1) /\ p + 8 + 4 \in (p + 8 + 1 - 1) .. Len(bytes)
          /\ 8 + 1 \in 1 .. (Len(b) + 1) /\ 8 + 4 \in (8 + 1 - 1) .. Len(b)
          /\ p + 8 + 4 - (p + 8 + 1) = 8 + 4 - (8 + 1)
      BY <1>3, <1>6, <2>2
    <3>3. ASSUME NEW i \in 1 .. (p + 8 + 4 - (p + 8 + 1) + 1)
          PROVE  bytes[p + 8 + 1 + i - 1] = b[8 + 1 + i - 1]
      <4>1. /\ 8 + i \in 1 .. Len(b) /\ p + (8 + i) <= Len(bytes)
            /\ p + 8 + 1 + i - 1 = p + (8 + i) /\ 8 + 1 + i - 1 = 8 + i
        BY <1>3, <1>6, <2>2
      <4>2. bytes[p + (8 + i)] = b[8 + i]
        BY <1>7, <2>1, <4>1
      <4> QED
        BY <4>1, <4>2
    <3>4. b \in Seq(Bytes)
      BY <1>6
    <3> DEFINE x == SubSeq(bytes, p + 8 + 1, p + 8 + 4)
               y == SubSeq(b, 8 + 1, 8 + 4)
    <3>5. /\ x \in Seq(Bytes) /\ Len(x) = p + 8 + 4 - (p + 8 + 1) + 1
          /\ \A i \in 1 .. (p + 8 + 4 - (p + 8 + 1) + 1) : x[i] = bytes[p + 8 + 1 + i - 1]
      BY <3>1, <3>2, RangeElements
    <3>6. /\ y \in Seq(Bytes) /\ Len(y) = 8 + 4 - (8 + 1) + 1
          /\ \A i \in 1 .. (8 + 4 - (8 + 1) + 1) : y[i] = b[8 + 1 + i - 1]
      <4>1. PICK m \in Nat, n \in Nat : m = 8 + 1 /\ n = 8 + 4
        OBVIOUS
      <4>2. m \in 1 .. (Len(b) + 1) /\ n \in (m - 1) .. Len(b)
        BY <3>2, <4>1
      <4>3. /\ SubSeq(b, m, n) \in Seq(Bytes) /\ Len(SubSeq(b, m, n)) = n - m + 1
            /\ \A i \in 1 .. (n - m + 1) : SubSeq(b, m, n)[i] = b[m + i - 1]
        BY <3>4, <4>2, RangeElements
      <4> QED
        BY <4>1, <4>3
    <3> HIDE DEF x, y
    <3>7. x = y
      <4>1. p + 8 + 4 - (p + 8 + 1) + 1 = 4 /\ 8 + 4 - (8 + 1) + 1 = 4
        OBVIOUS
      <4>2. Len(x) = 4 /\ Len(y) = 4
        BY <3>5, <3>6, <4>1
      <4>3. \A i \in 1 .. 4 : x[i] = y[i]
        BY <3>3, <3>5, <3>6, <4>1
      <4>4. x \in Seq(Bytes) /\ y \in Seq(Bytes)
        BY <3>5, <3>6
      <4> QED
        BY <4>2, <4>3, <4>4, SeqEqual
    <3> QED
      BY <3>7 DEF x, y
  <2>4. Slice(bytes, pos + 8, 4) = Slice(b, 8, 4)
    BY <2>1, <2>3 DEF Slice
  <2> QED
    BY <2>4 DEF read_pcap_packet_captured_length, Announced, b
<1> QED
  BY <1>2, <1>3, <1>4, <1>5, <1>7, <1>8 DEF b

\* A record that is read whole ends where the next one starts, and its first ESC is
\* found where the record has it.
LEMMA AtWholeRecord ==
  ASSUME ReplayInv, NEW k \in 1 .. (Len(file) + 1), AtRecord(k), place = "get", WholeRecord
  PROVE  /\ k \in 1 .. Len(file) /\ file[k].record \in Records
         /\ Announced(file[k].record) <= MAX_SANE_PACKET_LENGTH
         /\ RecordEnd = Boundary(k + 1) /\ RecordEnd \in 0 .. Len(bytes)
         /\ \A i \in Escs : (\A j \in Escs : i <= j) =>
              /\ i - pos \in 1 .. Len(file[k].record.bytes)
              /\ FirstEsc(file[k].record, i - pos)
              /\ SubSeq(bytes, i, RecordEnd) =
                   SubSeq(file[k].record.bytes, i - pos, Len(file[k].record.bytes))
         /\ Escs = {} => \A i \in 1 .. Len(file[k].record.bytes) : ~ FirstEsc(file[k].record, i)
<1> DEFINE r == file[k].record
           b == file[k].record.bytes
<1>1. ReplayTypeOK /\ Layout
  BY DEF ReplayInv
<1>2. HasHeader /\ read_pcap_packet_captured_length <= MAX_SANE_PACKET_LENGTH
      /\ RecordEnd <= Len(bytes)
  BY DEF WholeRecord
<1>3. /\ k \in 1 .. Len(file) /\ r \in Records
      /\ pos = Boundary(k) /\ pos \in Nat /\ pos < Len(bytes)
      /\ \A j \in 1 .. Len(b) : pos + j <= Len(bytes) => bytes[pos + j] = b[j]
      /\ read_pcap_packet_captured_length = Announced(r)
  BY <1>2, AtHeader
<1>4. /\ b \in Seq(Bytes) /\ Len(b) \in Nat /\ Len(b) >= 16 /\ Announced(r) \in Nat
      /\ Announced(r) = Len(b) - 16 \/ Announced(r) > MAX_SANE_PACKET_LENGTH
  BY <1>3, RecordFacts
<1>5. Announced(r) <= MAX_SANE_PACKET_LENGTH /\ Announced(r) = Len(b) - 16
  <2>1. Announced(r) <= MAX_SANE_PACKET_LENGTH /\ MAX_SANE_PACKET_LENGTH = 70000
    BY <1>2, <1>3 DEF MAX_SANE_PACKET_LENGTH
  <2> QED
    BY <1>4, <2>1
<1>6. PICK p \in Nat, e \in Nat : p = pos /\ e = p + Len(b) /\ RecordEnd = e
  <2>1. RecordEnd = pos + 16 + (Len(b) - 16)
    BY <1>3, <1>5 DEF RecordEnd, DEFAULT_PACKET_HEADER_SIZE
  <2>2. pos + 16 + (Len(b) - 16) = pos + Len(b) /\ pos + Len(b) \in Nat
    <3> HIDE DEF b
    <3>1. pos \in Nat /\ Len(b) \in Nat
      BY <1>3, <1>4
    <3> QED
      BY <3>1
  <2> QED
    BY <1>3, <2>1, <2>2
<1>7. bytes \in Seq(Bytes) /\ Len(bytes) \in Nat /\ e <= Len(bytes)
  BY <1>1, <1>2, <1>6, WithinFile DEF ReplayTypeOK
<1>8. RecordEnd = Boundary(k + 1) /\ RecordEnd \in 0 .. Len(bytes)
  <2>1. Boundary(k + 1) = Boundary(k) + Len(b)
    BY <1>1, <1>3, WithinFile
  <2>2. e \in 0 .. Len(bytes)
    BY <1>7
  <2> QED
    BY <1>3, <1>6, <2>1, <2>2
<1> HIDE DEF r, b
<1>9. \A j \in 1 .. Len(b) : bytes[p + j] = b[j]
  <2>1. \A j \in 1 .. Len(b) : p + j <= Len(bytes)
    BY <1>4, <1>6, <1>7
  <2> QED
    BY <1>3, <1>6, <2>1
<1>10. Escs = {i \in p + 16 + 1 .. e : bytes[i] = ESC}
  BY <1>6 DEF Escs, DEFAULT_PACKET_HEADER_SIZE
<1>11. \A j \in 17 .. Len(b) : b[j] = ESC => p + j \in Escs
  <2>1. \A j \in 17 .. Len(b) : p + j \in p + 16 + 1 .. e /\ j \in 1 .. Len(b)
    BY <1>4, <1>6
  <2> QED
    BY <1>9, <1>10, <2>1
<1>12. ASSUME NEW i \in Escs, \A j \in Escs : i <= j
       PROVE  /\ i - p \in 1 .. Len(b) /\ FirstEsc(r, i - p)
              /\ SubSeq(bytes, i, e) = SubSeq(b, i - p, Len(b))
  <2>1. i \in p + 16 + 1 .. e /\ bytes[i] = ESC
    BY <1>10
  <2>2. PICK m \in Nat : m = i - p /\ m \in 17 .. Len(b) /\ i = p + m
    <3>1. i - p \in Nat /\ i - p \in 17 .. Len(b) /\ i = p + (i - p)
      BY <1>4, <1>6, <2>1
    <3> QED
      BY <3>1
  <2>3. b[m] = ESC /\ m \in 1 .. Len(b)
    <3>1. m \in 1 .. Len(b)
      BY <1>4, <2>2
    <3> QED
      BY <1>9, <2>1, <2>2, <3>1
  <2>4. ASSUME NEW j \in 17 .. (m - 1) PROVE b[j] # ESC
    <3>1. j \in 17 .. Len(b) /\ ~ (p + m <= p + j)
      BY <1>4, <2>2
    <3> QED
      BY <1>11, <1>12, <2>2, <3>1
  <2>5. FirstEsc(r, m)
    <3>1. m \in 16 + 1 .. Len(b) /\ \A j \in 16 + 1 .. m - 1 : b[j] # ESC
      BY <2>2, <2>4
    <3> QED
      BY <2>3, <3>1 DEF FirstEsc, DEFAULT_PACKET_HEADER_SIZE, r, b
  <2>6. SubSeq(bytes, i, e) = SubSeq(b, m, Len(b))
    <3>1. /\ i \in 1 .. (Len(bytes) + 1) /\ e \in (i - 1) .. Len(bytes)
          /\ m \in 1 .. (Len(b) + 1) /\ Len(b) \in (m - 1) .. Len(b)
          /\ e - i = Len(b) - m
      BY <1>4, <1>6, <1>7, <2>2
    <3>2. ASSUME NEW j \in 1 .. (e - i + 1)
          PROVE  bytes[i + j - 1] = b[m + j - 1]
      <4>1. m + j - 1 \in 1 .. Len(b) /\ i + j - 1 = p + (m + j - 1)
        BY <1>4, <1>6, <2>2, <3>1
      <4> QED
        BY <1>9, <4>1
    <3>3. bytes \in Seq(Bytes) /\ b \in Seq(Bytes)
      BY <1>4, <1>7
    <3> DEFINE x == SubSeq(bytes, i, e)
               y == SubSeq(b, m, Len(b))
    <3>4. /\ x \in Seq(Bytes) /\ Len(x) = e - i + 1
          /\ \A j \in 1 .. (e - i + 1) : x[j] = bytes[i + j - 1]
      BY <3>1, <3>3, RangeElements
    <3>5. /\ y \in Seq(Bytes) /\ Len(y) = Len(b) - m + 1
          /\ \A j \in 1 .. (Len(b) - m + 1) : y[j] = b[m + j - 1]
      BY <3>1, <3>3, RangeElements
    <3> HIDE DEF x, y
    <3>6. x = y
      BY <3>1, <3>2, <3>4, <3>5, SeqEqual, ZenonT(40)
    <3> QED
      BY <3>6 DEF x, y
  <2> QED
    BY <2>2, <2>3, <2>5, <2>6
<1>13. ASSUME Escs = {}, NEW i \in 1 .. Len(b)
       PROVE  ~ FirstEsc(r, i)
  <2>1. \A j \in 17 .. Len(b) : b[j] # ESC
    BY <1>11, <1>13
  <2> QED
    BY <2>1 DEF FirstEsc, DEFAULT_PACKET_HEADER_SIZE, r, b
<1> QED
  BY <1>3, <1>5, <1>6, <1>8, <1>12, <1>13 DEF r, b

-----------------------------------------------------------------------------
(* The steps *)

\* Steps of the reader and of main that process no message: the next record is the
\* same before and after.
LEMMA KeepsRecord ==
  ASSUME ReplayInv, NEW k \in 1 .. (Len(file) + 1), AtRecord(k),
         UNCHANGED fileVars, processed' = processed,
         is_file_open' \in BOOLEAN, good' \in BOOLEAN, place' \in Places,
         pos' \in 0 .. Len(bytes) \cup {DEFAULT_GLOBAL_HEADER_SIZE},
         place' = "closed" => k = 1,
         place' \in {"top", "empty"} /\ is_file_open' /\ good' => pos' = Boundary(k),
         place' = "get" => is_file_open' /\ good' /\ pos' = Boundary(k) /\ pos' < Len(bytes),
         place' = "packet" => Passed(k)'
  PROVE  ReplayInv'
<1>1. ReplayTypeOK /\ Layout
  BY DEF ReplayInv
<1>2. /\ file' = file /\ bytes' = bytes /\ expected' = expected
      /\ \A j : Boundary(j)' = Boundary(j) /\ Due(j)' = Due(j) /\ Sound(j)' = Sound(j)
      /\ Layout'
  BY <1>1, ReaderStep
<1>3. ReplayTypeOK'
  BY <1>1, <1>2 DEF ReplayTypeOK
<1>4. AtRecord(k)'
  BY <1>2 DEF AtRecord
<1> QED
  BY <1>2, <1>3, <1>4 DEF ReplayInv

\* The steps of Reading, but for a record that is skipped.
LEMMA ReadingInv ==
  ASSUME ReplayInv, Reading, ~ SkipRecord
  PROVE  ReplayInv'
<1>1. ReplayTypeOK /\ Layout
  BY DEF ReplayInv
<1>2. PICK k \in 1 .. (Len(file) + 1) : AtRecord(k)
  BY DEF ReplayInv
<1>3. /\ is_file_open \in BOOLEAN /\ good \in BOOLEAN /\ place \in Places /\ Len(bytes) \in Nat
      /\ pos \in 0 .. Len(bytes) \cup {DEFAULT_GLOBAL_HEADER_SIZE}
  BY <1>1, WithinFile DEF ReplayTypeOK
<1>4. /\ place = "closed" => k = 1
      /\ place \in {"top", "empty"} /\ is_file_open /\ good => pos = Boundary(k)
      /\ place = "get" => is_file_open /\ good /\ pos = Boundary(k) /\ pos < Len(bytes)
  BY <1>2 DEF AtRecord
<1>5. CASE open
  <2>1. Boundary(1) = DEFAULT_GLOBAL_HEADER_SIZE
    BY DEF Boundary
  <2>2. /\ UNCHANGED fileVars /\ processed' = processed
        /\ is_file_open' \in BOOLEAN /\ good' \in BOOLEAN /\ place' = "top"
        /\ place' \in Places /\ pos' = DEFAULT_GLOBAL_HEADER_SIZE /\ k = 1
    BY <1>4, <1>5 DEF open, Places
  <2> QED
    BY <1>2, <2>1, <2>2, KeepsRecord
<1>6. CASE OpenFails
  <2>1. /\ UNCHANGED fileVars /\ processed' = processed /\ UNCHANGED <<is_file_open, pos, good>>
        /\ place' = "refused" /\ place' \in Places
    BY <1>6 DEF OpenFails, Places
  <2> QED
    BY <1>2, <1>3, <2>1, KeepsRecord
<1>7. CASE close
  <2>1. /\ UNCHANGED fileVars /\ processed' = processed /\ UNCHANGED <<pos, good>>
        /\ is_file_open' \in BOOLEAN /\ place' = "ended" /\ place' \in Places
    BY <1>7 DEF close, Places
  <2> QED
    BY <1>2, <1>3, <2>1, KeepsRecord
<1>8. CASE LoopTop
  <2>1. /\ UNCHANGED fileVars /\ processed' = processed /\ UNCHANGED <<is_file_open, pos>>
        /\ place = "top" /\ Peek
        /\ place' = IF has_next_packet THEN "get" ELSE "end"
        /\ place' \in Places
    BY <1>8 DEF LoopTop, Places
  <2>2. good' \in BOOLEAN
    BY <2>1 DEF Peek
  <2>3. ASSUME place' = "get"
        PROVE  is_file_open' /\ good' /\ pos' = Boundary(k) /\ pos' < Len(bytes)
    <3>1. has_next_packet
      BY <2>1, <2>3
    <3> QED
      BY <1>4, <2>1, <3>1 DEF has_next_packet, Peek
  <2>4. place' \notin {"closed", "top", "empty", "packet"}
    BY <2>1
  <2> QED
    BY <1>2, <1>3, <2>1, <2>2, <2>3, <2>4, KeepsRecord
<1>9. CASE AfterEmpty
  <2>1. /\ UNCHANGED fileVars /\ processed' = processed /\ UNCHANGED <<is_file_open, pos>>
        /\ place = "empty" /\ Peek
        /\ place' = IF has_next_packet THEN "top" ELSE "end"
        /\ place' \in Places
    BY <1>9 DEF AfterEmpty, Places
  <2>2. good' \in BOOLEAN
    BY <2>1 DEF Peek
  <2>3. ASSUME is_file_open', good' PROVE pos' = Boundary(k)
    BY <1>4, <2>1, <2>3 DEF Peek
  <2>4. place' \notin {"closed", "get", "packet"}
    BY <2>1
  <2> QED
    BY <1>2, <1>3, <2>1, <2>2, <2>3, <2>4, KeepsRecord
<1>10. CASE GetPacket
  <2>1. /\ UNCHANGED fileVars /\ processed' = processed /\ UNCHANGED <<is_file_open, good>>
        /\ place = "get" /\ WholeRecord /\ pos' = RecordEnd
        /\ place' = "packet" /\ place' \in Places
    BY <1>10 DEF GetPacket, Places
  <2>2. PICK i \in Escs : (\A j \in Escs : i <= j) /\ packet' = SubSeq(bytes, i, RecordEnd)
    BY <1>10 DEF GetPacket
  <2>3. /\ k \in 1 .. Len(file)
        /\ Announced(file[k].record) <= MAX_SANE_PACKET_LENGTH
        /\ RecordEnd = Boundary(k + 1) /\ RecordEnd \in 0 .. Len(bytes)
    BY <1>2, <2>1, AtWholeRecord
  <2>4. /\ i - pos \in 1 .. Len(file[k].record.bytes)
        /\ FirstEsc(file[k].record, i - pos)
        /\ SubSeq(bytes, i, RecordEnd) =
             SubSeq(file[k].record.bytes, i - pos, Len(file[k].record.bytes))
    BY <1>2, <2>1, <2>2, AtWholeRecord
  <2>5. /\ file' = file /\ bytes' = bytes
        /\ \A j : Boundary(j)' = Boundary(j)
    BY <1>1, <2>1, ReaderStep
  <2>6. \E j \in 1 .. Len(file[k].record.bytes) :
          /\ FirstEsc(file[k].record, j)
          /\ packet' = SubSeq(file[k].record.bytes, j, Len(file[k].record.bytes))
    BY <2>2, <2>4
  <2>7. Passed(k)'
    <3>1. k <= Len(file) /\ is_file_open' /\ good' /\ pos' = Boundary(k + 1)' /\ pos' <= Len(bytes)
      BY <1>3, <1>4, <2>1, <2>3, <2>5
    <3> QED
      BY <2>3, <2>5, <2>6, <3>1 DEF Passed
  <2>8. pos' \in 0 .. Len(bytes)
    BY <2>1, <2>3
  <2> QED
    BY <1>2, <1>3, <2>1, <2>7, <2>8, KeepsRecord
<1>11. CASE CloseOversized
  <2>1. /\ UNCHANGED fileVars /\ processed' = processed /\ good' = good
        /\ place = "get" /\ HasHeader /\ pos' = pos + DEFAULT_PACKET_HEADER_SIZE
        /\ is_file_open' = FALSE /\ place' = "empty" /\ place' \in Places
    BY <1>11 DEF CloseOversized, Places
  <2>2. pos \in Nat
    BY <1>2, <2>1, AtHeader
  <2>3. pos' \in 0 .. Len(bytes)
    BY <1>3, <2>1, <2>2 DEF HasHeader, DEFAULT_PACKET_HEADER_SIZE
  <2> QED
    BY <1>2, <1>3, <2>1, <2>3, KeepsRecord
<1>12. CASE ReadFails
  <2>1. /\ UNCHANGED fileVars /\ processed' = processed /\ is_file_open' = is_file_open
        /\ pos' = Len(bytes) /\ good' = FALSE /\ place' = "empty" /\ place' \in Places
    BY <1>12 DEF ReadFails, Places
  <2>2. pos' \in 0 .. Len(bytes)
    BY <1>3, <2>1
  <2> QED
    BY <1>2, <1>3, <2>1, <2>2, KeepsRecord
<1>13. CASE ProcessThrows
  <2>1. /\ UNCHANGED fileVars /\ processed' = processed /\ UNCHANGED <<is_file_open, pos, good>>
        /\ place' = "terminated" /\ place' \in Places
    BY <1>13 DEF ProcessThrows, Places
  <2> QED
    BY <1>2, <1>3, <2>1, KeepsRecord
<1> QED
  BY <1>5, <1>6, <1>7, <1>8, <1>9, <1>10, <1>11, <1>12, <1>13 DEF Reading

\* A record is captured, whole or in part: its bytes follow those of the others.
LEMMA CaptureInv ==
  ASSUME ReplayInv, NEW r \in Records, NEW size \in 1 .. Len(r.bytes), Capture(r, size)
  PROVE  ReplayInv'
<1> DEFINE new == [record |-> r, start |-> Len(bytes), due |-> Len(expected)]
           part == SubSeq(r.bytes, 1, size)
<1>1. ReplayTypeOK /\ Layout
  BY DEF ReplayInv
<1>2. /\ Len(file) \in Nat /\ Len(bytes) \in Nat /\ Len(expected) \in Nat
      /\ \A k \in 1 .. Len(file) :
           /\ file[k].record \in Records /\ file[k].start = Boundary(k)
           /\ Due(k) = file[k].due
           /\ Boundary(k) \in Nat /\ Boundary(k) <= Len(bytes)
           /\ Boundary(k + 1) = Boundary(k) + Len(file[k].record.bytes)
      /\ \A k \in 1 .. (Len(file) + 1) : Boundary(k) \in Nat /\ Due(k) \in 0 .. Len(expected)
  BY <1>1, WithinFile
<1>3. PICK n \in Nat : n = Len(file)
  BY <1>2
<1>4. /\ place = "closed" /\ n < MaxRecords /\ Len(bytes) = Boundary(n + 1)
      /\ file' = Append(file, new) /\ bytes' = bytes \o part
      /\ UNCHANGED <<is_file_open, pos, good, place, packet, processed>>
  BY <1>3 DEF Capture
<1>5. expected' = IF size = Len(r.bytes) /\ Clean(r) /\ ~ Fatal(r) /\ Sound(n)
                  THEN Append(expected, r.capture.msgs[1]) ELSE expected
  BY <1>3 DEF Capture, Sound
<1>6. /\ r.bytes \in Seq(Bytes) /\ Len(r.bytes) \in Nat
      /\ Clean(r) => r.capture.msgs[1] \in Messages
  BY RecordFacts
<1>7. part \in Seq(Bytes) /\ Len(part) = size /\ \A j \in 1 .. size : part[j] = r.bytes[j]
  <2>1. 1 \in 1 .. (Len(r.bytes) + 1) /\ size \in (1 - 1) .. Len(r.bytes) /\ size \in Nat
    BY <1>6
  <2>2. /\ part \in Seq(Bytes) /\ Len(part) = size - 1 + 1
        /\ \A j \in 1 .. (size - 1 + 1) : part[j] = r.bytes[1 + j - 1]
    BY <1>6, <2>1, RangeElements
  <2> HIDE DEF part
  <2>3. size - 1 + 1 = size /\ \A j \in 1 .. size : 1 + j - 1 = j
    BY <2>1
  <2> QED
    BY <2>2, <2>3
<1>8. /\ file' \in Seq([record : Records, start : Nat, due : Nat]) /\ Len(file') = n + 1
      /\ \A k \in 1 .. n : file'[k] = file[k]
      /\ file'[n + 1] = new
  <2>1. new \in [record : Records, start : Nat, due : Nat]
    BY <1>2
  <2> HIDE DEF new
  <2> QED
    BY <1>1, <1>3, <1>4, <2>1, AppendProperties DEF ReplayTypeOK
<1>9. new.record = r /\ new.start = Len(bytes) /\ new.due = Len(expected)
  OBVIOUS
<1> HIDE DEF new, part
<1>10. /\ bytes' \in Seq(Bytes) /\ Len(bytes') = Len(bytes) + size
       /\ \A j \in 1 .. Len(bytes') :
            bytes'[j] = IF j <= Len(bytes) THEN bytes[j] ELSE part[j - Len(bytes)]
  <2>1. bytes \in Seq(Bytes)
    BY <1>1 DEF ReplayTypeOK
  <2>2. /\ Len(bytes \o part) = Len(bytes) + Len(part)
        /\ bytes \o part \in Seq(Bytes)
        /\ \A j \in 1 .. Len(bytes \o part) :
             (bytes \o part)[j] = IF j <= Len(bytes) THEN bytes[j] ELSE part[j - Len(bytes)]
    <3>1. part \in Seq(Bytes)
      BY <1>7
    <3> QED
      BY <2>1, <3>1, ConcatProperties
  <2> QED
    BY <1>4, <1>7, <2>2
<1>11. size \in Nat /\ size >= 1 /\ size <= Len(r.bytes) /\ Len(bytes') \in Nat
       /\ Len(bytes) < Len(bytes')
  <2>1. size \in Nat /\ size >= 1 /\ size <= Len(r.bytes)
    BY <1>6
  <2> QED
    BY <1>2, <1>10, <2>1
<1>12. /\ expected' \in Seq(Messages)
       /\ Len(expected') = IF size = Len(r.bytes) /\ Clean(r) /\ ~ Fatal(r) /\ Sound(n)
                           THEN Len(expected) + 1 ELSE Len(expected)
       /\ \A j \in 1 .. Len(expected) : expected'[j] = expected[j]
       /\ size = Len(r.bytes) /\ Clean(r) /\ ~ Fatal(r) /\ Sound(n) =>
            expected'[Len(expected) + 1] = r.capture.msgs[1]
  <2>1. expected \in Seq(Messages)
    BY <1>1 DEF ReplayTypeOK
  <2>2. CASE size = Len(r.bytes) /\ Clean(r) /\ ~ Fatal(r) /\ Sound(n)
    <3>1. expected' = Append(expected, r.capture.msgs[1]) /\ r.capture.msgs[1] \in Messages
      BY <1>5, <1>6, <2>2
    <3>2. /\ Append(expected, r.capture.msgs[1]) \in Seq(Messages)
          /\ Len(Append(expected, r.capture.msgs[1])) = Len(expected) + 1
          /\ \A j \in 1 .. Len(expected) : Append(expected, r.capture.msgs[1])[j] = expected[j]
          /\ Append(expected, r.capture.msgs[1])[Len(expected) + 1] = r.capture.msgs[1]
      BY <2>1, <3>1, AppendProperties
    <3> QED
      BY <2>2, <3>1, <3>2
  <2>3. CASE ~ (size = Len(r.bytes) /\ Clean(r) /\ ~ Fatal(r) /\ Sound(n))
    BY <1>5, <2>1, <2>3
  <2> QED
    BY <2>2, <2>3
<1>13. Len(expected') \in Nat /\ Len(expected) <= Len(expected')
  <2>1. Len(expected') = Len(expected) + 1 \/ Len(expected') = Len(expected)
    BY <1>12
  <2> QED
    BY <1>2, <2>1
<1>14. ReplayTypeOK'
  <2>1. Len(file') <= MaxRecords /\ Len(expected') <= Len(file')
    <3>1. Len(expected) <= n
      BY <1>1, <1>3 DEF ReplayTypeOK
    <3>2. Len(expected') = Len(expected) + 1 \/ Len(expected') = Len(expected)
      BY <1>12
    <3> QED
      BY <1>2, <1>4, <1>8, <3>1, <3>2, RecordsAssumption
  <2>2. pos' \in 0 .. Len(bytes') \cup {DEFAULT_GLOBAL_HEADER_SIZE}
    <3>1. pos \in 0 .. Len(bytes) \cup {DEFAULT_GLOBAL_HEADER_SIZE}
      BY <1>1 DEF ReplayTypeOK
    <3> QED
      BY <1>2, <1>4, <1>11, <3>1
  <2> QED
    BY <1>1, <1>4, <1>8, <1>10, <1>12, <2>1, <2>2 DEF ReplayTypeOK
<1>15. /\ \A k \in 1 .. (n + 1) : Boundary(k)' = Boundary(k) /\ Due(k)' = Due(k)
       /\ Boundary(n + 2)' = Len(bytes) + Len(r.bytes) /\ Due(n + 2)' = Len(expected')
       /\ \A k \in 0 .. n : Sound(k)' = Sound(k)
       /\ Sound(n + 1)' = (Sound(n) /\ ~ Fatal(r))
       /\ Due(n + 1) = Len(expected)
  <2>1. Due(n + 1) = Len(expected)
    BY <1>3 DEF Due
  <2>2. ASSUME NEW k \in 1 .. (n + 1)
        PROVE  Boundary(k)' = Boundary(k) /\ Due(k)' = Due(k)
    <3>1. Due(k)' = file'[k].due
      <4>1. ~ (k > Len(file'))
        BY <1>8
      <4> QED
        BY <4>1 DEF Due
    <3>2. Due(k)' = Due(k)
      <4>1. CASE k = n + 1
        BY <1>8, <1>9, <2>1, <3>1, <4>1
      <4>2. CASE k # n + 1
        <5>1. k \in 1 .. n
          BY <4>2
        <5>2. Due(k) = file[k].due
          BY <1>2, <1>3, <5>1
        <5> QED
          BY <1>8, <3>1, <5>1, <5>2
      <4> QED
        BY <4>1, <4>2
    <3>3. Boundary(k)' = Boundary(k)
      <4>1. CASE k = 1
        BY <4>1 DEF Boundary
      <4>2. CASE k # 1
        <5>1. k - 1 \in 1 .. n
          BY <4>2
        <5>2. file'[k - 1] = file[k - 1]
          BY <1>8, <5>1
        <5> QED
          BY <4>2, <5>2 DEF Boundary
      <4> QED
        BY <4>1, <4>2
    <3> QED
      BY <3>2, <3>3
  <2>3. Boundary(n + 2)' = Len(bytes) + Len(r.bytes)
    <3>1. n + 2 # 1 /\ n + 2 - 1 = n + 1
      OBVIOUS
    <3>2. Boundary(n + 2)' = file'[n + 1].start + Len(file'[n + 1].record.bytes)
      BY <3>1 DEF Boundary
    <3> QED
      BY <1>8, <1>9, <3>2
  <2>4. Due(n + 2)' = Len(expected')
    <3>1. n + 2 > Len(file')
      BY <1>8
    <3> QED
      BY <3>1 DEF Due
  <2>5. ASSUME NEW k \in 0 .. n
        PROVE  Sound(k)' = Sound(k)
    <3>1. \A j \in 1 .. k : file'[j] = file[j]
      BY <1>8
    <3> QED
      BY <3>1 DEF Sound
  <2>6. Sound(n + 1)' = (Sound(n) /\ ~ Fatal(r))
    <3>1. \A j \in 1 .. (n + 1) : j \in 1 .. n \/ j = n + 1
      OBVIOUS
    <3>2. n + 1 \in 1 .. (n + 1) /\ \A j \in 1 .. n : j \in 1 .. (n + 1)
      OBVIOUS
    <3>3. file'[n + 1].record = r
      BY <1>8, <1>9
    <3> QED
      BY <1>8, <3>1, <3>2, <3>3 DEF Sound
  <2> QED
    BY <2>1, <2>2, <2>3, <2>4, <2>5, <2>6
<1>16. Layout'
  <2>1. (Len(bytes) <= Boundary(Len(file) + 1))'
    <3>1. (Boundary(Len(file) + 1))' = Boundary(n + 2)'
      <4>1. Len(file') + 1 = n + 2
        BY <1>8
      <4> QED
        BY <4>1 DEF Boundary
    <3> QED
      BY <1>2, <1>6, <1>10, <1>11, <1>15, <3>1
  <2>2. Due(1)' = 0
    <3>1. 1 \in 1 .. (n + 1)
      OBVIOUS
    <3> QED
      BY <1>1, <1>15, <3>1 DEF Layout
  <2>3. ASSUME NEW k \in 1 .. (n + 1)
        PROVE  (/\ file[k].start = Boundary(k) /\ Boundary(k) <= Len(bytes)
                /\ \A j \in 1 .. Len(file[k].record.bytes) :
                     Boundary(k) + j <= Len(bytes) =>
                       bytes[Boundary(k) + j] = file[k].record.bytes[j]
                /\ Due(k) <= Len(expected)
                /\ Boundary(k + 1) <= Len(bytes) /\ Sound(k) =>
                     IF Clean(file[k].record)
                     THEN /\ Due(k + 1) = Due(k) + 1
                          /\ expected[Due(k) + 1] = file[k].record.capture.msgs[1]
                     ELSE Due(k + 1) = Due(k))'
    <3>1. CASE k = n + 1
      <4>1. /\ file'[k].record = r /\ file'[k].start = Len(bytes)
            /\ Boundary(k)' = Len(bytes) /\ Due(k)' = Len(expected) /\ k + 1 = n + 2
        BY <1>4, <1>8, <1>9, <1>15, <3>1
      <4>2. ASSUME NEW j \in 1 .. Len(r.bytes), Len(bytes) + j <= Len(bytes')
            PROVE  bytes'[Len(bytes) + j] = r.bytes[j]
        <5>1. /\ Len(bytes) + j \in 1 .. Len(bytes') /\ ~ (Len(bytes) + j <= Len(bytes))
              /\ Len(bytes) + j - Len(bytes) = j /\ j \in 1 .. size
          BY <1>2, <1>6, <1>10, <1>11, <4>2
        <5> QED
          BY <1>7, <1>10, <5>1
      <4>3. Len(bytes) <= Len(bytes')
        BY <1>2, <1>11
      <4>4. ASSUME Boundary(k + 1)' <= Len(bytes'), Sound(k)'
            PROVE  IF Clean(r)
                   THEN /\ Due(k + 1)' = Len(expected) + 1
                        /\ expected'[Len(expected) + 1] = r.capture.msgs[1]
                   ELSE Due(k + 1)' = Len(expected)
        <5>1. size = Len(r.bytes)
          <6>1. Len(bytes) + Len(r.bytes) <= Len(bytes) + size
            BY <1>10, <1>15, <4>1, <4>4
          <6> QED
            BY <1>2, <1>6, <1>11, <6>1
        <5>2. Sound(n) /\ ~ Fatal(r)
          BY <1>15, <3>1, <4>4
        <5>3. Due(k + 1)' = Len(expected')
          BY <1>15, <4>1
        <5> QED
          BY <1>12, <5>1, <5>2, <5>3
      <4> QED
        BY <1>13, <4>1, <4>2, <4>3, <4>4
    <3>2. CASE k # n + 1
      <4>1. k \in 1 .. n /\ k + 1 \in 1 .. (n + 1) /\ k \in 0 .. n
        BY <3>2
      <4>2. /\ file'[k] = file[k] /\ Boundary(k)' = Boundary(k) /\ Due(k)' = Due(k)
            /\ Boundary(k + 1)' = Boundary(k + 1) /\ Due(k + 1)' = Due(k + 1)
            /\ Sound(k)' = Sound(k)
        BY <1>8, <1>15, <4>1
      <4>3. /\ \A j \in 1 .. Len(file[k].record.bytes) :
                 Boundary(k) + j <= Len(bytes) => bytes[Boundary(k) + j] = file[k].record.bytes[j]
            /\ Boundary(k + 1) <= Len(bytes) /\ Sound(k) =>
                 IF Clean(file[k].record)
                 THEN /\ Due(k + 1) = Due(k) + 1
                      /\ expected[Due(k) + 1] = file[k].record.capture.msgs[1]
                 ELSE Due(k + 1) = Due(k)
        BY <1>1, <1>3, <4>1 DEF Layout
      <4>4. /\ file[k].record \in Records /\ file[k].start = Boundary(k)
            /\ Boundary(k) \in Nat /\ Boundary(k) <= Len(bytes)
            /\ Boundary(k + 1) = Boundary(k) + Len(file[k].record.bytes)
            /\ Due(k) \in 0 .. Len(expected) /\ Due(k + 1) \in 0 .. Len(expected)
        <5>1. k \in 1 .. Len(file) /\ k \in 1 .. (Len(file) + 1) /\ k + 1 \in 1 .. (Len(file) + 1)
          BY <1>3, <4>1
        <5> QED
          BY <1>2, <5>1
      <4>5. Boundary(k + 1) <= Len(bytes)
        <5>1. CASE k + 1 = n + 1
          BY <1>2, <1>4, <5>1
        <5>2. CASE k + 1 # n + 1
          <6>1. k + 1 \in 1 .. Len(file)
            BY <1>3, <4>1, <5>2
          <6> QED
            BY <1>2, <6>1
        <5> QED
          BY <5>1, <5>2
      <4>6. Len(file[k].record.bytes) \in Nat
        BY <4>4, RecordFacts
      <4>7. ASSUME NEW j \in 1 .. Len(file[k].record.bytes)
            PROVE  bytes'[Boundary(k) + j] = file[k].record.bytes[j]
        <5>1. j \in Nat /\ j >= 1 /\ j <= Len(file[k].record.bytes)
          BY <4>6
        <5>2. Boundary(k) + j <= Len(bytes)
          <6>1. /\ Boundary(k) \in Nat /\ Len(bytes) \in Nat
                /\ Boundary(k) + Len(file[k].record.bytes) <= Len(bytes)
            BY <1>2, <4>4, <4>5
          <6> QED
            BY <4>6, <5>1, <6>1
        <5>3. Boundary(k) + j \in 1 .. Len(bytes')
          BY <1>2, <1>11, <4>4, <5>1, <5>2, SMTT(30)
        <5> QED
          BY <1>10, <4>3, <5>2, <5>3
      <4>8. Boundary(k) <= Len(bytes') /\ Due(k) <= Len(expected')
        BY <1>2, <1>11, <1>13, <4>4
      <4>9. ASSUME Sound(k), Clean(file[k].record)
            PROVE  expected'[Due(k) + 1] = file[k].record.capture.msgs[1]
        <5>1. Due(k + 1) = Due(k) + 1 /\ expected[Due(k) + 1] = file[k].record.capture.msgs[1]
          BY <4>3, <4>5, <4>9
        <5>2. Due(k) + 1 \in 1 .. Len(expected)
          BY <1>2, <4>4, <5>1
        <5> QED
          BY <1>12, <5>1, <5>2
      <4> QED
        BY <4>2, <4>3, <4>4, <4>5, <4>7, <4>8, <4>9
    <3> QED
      BY <3>1, <3>2
  <2> QED
    BY <1>8, <2>1, <2>2, <2>3 DEF Layout
<1>17. AtRecord(1)'
  <2>1. PICK k \in 1 .. (Len(file) + 1) : AtRecord(k)
    BY DEF ReplayInv
  <2>2. k = 1
    BY <1>4, <2>1 DEF AtRecord
  <2>3. processed = SubSeq(expected, 1, Due(1)) /\ Due(1) = 0 /\ Due(1)' = 0
    <3>1. 1 \in 1 .. (n + 1)
      OBVIOUS
    <3> QED
      BY <1>1, <1>15, <2>1, <2>2, <3>1 DEF AtRecord, Layout
  <2>4. SubSeq(expected, 1, 0) = << >> /\ SubSeq(expected', 1, 0) = << >>
    BY <1>1, <1>12 DEF ReplayTypeOK
  <2>5. Sound(1 - 1)'
    BY DEF Sound
  <2> QED
    BY <1>4, <2>3, <2>4, <2>5 DEF AtRecord
<1>18. 1 \in 1 .. (Len(file') + 1)
  BY <1>8
<1> QED
  BY <1>14, <1>16, <1>17, <1>18 DEF ReplayInv

\* A record without an ESC holds no message that is due.
LEMMA SkipInv ==
  ASSUME ReplayInv, SkipRecord
  PROVE  ReplayInv'
<1>1. ReplayTypeOK /\ Layout
  BY DEF ReplayInv
<1>2. PICK k \in 1 .. (Len(file) + 1) : AtRecord(k)
  BY DEF ReplayInv
<1>3. /\ UNCHANGED fileVars /\ processed' = processed /\ UNCHANGED <<is_file_open, good>>
      /\ place = "get" /\ WholeRecord /\ Escs = {} /\ pos' = RecordEnd
      /\ place' = "empty" /\ place' \in Places
  BY DEF SkipRecord, Places
<1>4. /\ k \in 1 .. Len(file) /\ file[k].record \in Records
      /\ Announced(file[k].record) <= MAX_SANE_PACKET_LENGTH
      /\ RecordEnd = Boundary(k + 1) /\ RecordEnd \in 0 .. Len(bytes)
      /\ \A i \in 1 .. Len(file[k].record.bytes) : ~ FirstEsc(file[k].record, i)
  BY <1>2, <1>3, AtWholeRecord
<1>5. ~ Fatal(file[k].record) /\ ~ Clean(file[k].record)
  <2>1. Announced(file[k].record) \in Nat
    BY <1>4, RecordFacts
  <2>2. ~ (Announced(file[k].record) > MAX_SANE_PACKET_LENGTH)
    BY <1>4, <2>1 DEF MAX_SANE_PACKET_LENGTH
  <2>3. ~ Fatal(file[k].record)
    BY <1>4, <2>2 DEF Fatal
  <2> QED
    BY <1>4, <2>3, TakenAssumption
<1>6. Len(file) \in Nat
  BY <1>1, WithinFile
<1>7. Sound(k)
  <2>1. \A j \in 1 .. k : j = k \/ j \in 1 .. (k - 1)
    BY <1>6
  <2> QED
    BY <1>2, <1>5, <2>1 DEF AtRecord, Sound
<1>8. Due(k + 1) = Due(k)
  <2>1. Boundary(k + 1) <= Len(bytes)
    BY <1>4
  <2> QED
    BY <1>1, <1>4, <1>5, <1>7, <2>1 DEF Layout
<1>9. /\ file' = file /\ bytes' = bytes /\ expected' = expected
      /\ \A j : Boundary(j)' = Boundary(j) /\ Due(j)' = Due(j) /\ Sound(j)' = Sound(j)
      /\ Layout'
  BY <1>1, <1>3, ReaderStep
<1>10. ReplayTypeOK'
  BY <1>1, <1>3, <1>4, <1>9 DEF ReplayTypeOK
<1>11. AtRecord(k + 1)'
  <2>1. k + 1 - 1 = k
    BY <1>4
  <2>2. /\ Boundary(k + 1)' = Boundary(k + 1) /\ Due(k + 1)' = Due(k + 1)
        /\ Sound(k)' = Sound(k)
    BY <1>9
  <2>3. processed = SubSeq(expected, 1, Due(k))
    BY <1>2 DEF AtRecord
  <2>4. Sound(k + 1 - 1)'
    <3>1. \A j \in 1 .. k : ~ Fatal(file'[j].record)
      BY <1>7, <1>9 DEF Sound
    <3> QED
      BY <2>1, <3>1 DEF Sound
  <2>5. processed' = SubSeq(expected', 1, Due(k + 1)')
    BY <1>3, <1>8, <1>9, <2>2, <2>3
  <2>6. pos' = Boundary(k + 1)'
    BY <1>3, <1>4, <2>2
  <2> QED
    BY <1>3, <2>4, <2>5, <2>6 DEF AtRecord
<1>12. k + 1 \in 1 .. (Len(file') + 1)
  BY <1>4, <1>6, <1>9
<1> QED
  BY <1>9, <1>10, <1>11, <1>12 DEF ReplayInv

\* What process_message makes of the packet is what the record was meant to give.
LEMMA Processed ==
  ASSUME ReplayInv, NEW k \in 1 .. (Len(file) + 1), AtRecord(k), process_message
  PROVE  /\ k \in 1 .. Len(file) /\ Sound(k)
         /\ pos = Boundary(k + 1)
         /\ Take(packet) = IF Clean(file[k].record) THEN file[k].record.capture.msgs[1] ELSE None
         /\ IF Clean(file[k].record)
            THEN /\ file[k].record.capture.msgs[1] \in Messages
                 /\ file[k].record.capture.msgs[1] # None
                 /\ Due(k + 1) = Due(k) + 1 /\ Due(k) \in 0 .. (Len(expected) - 1)
                 /\ expected[Due(k) + 1] = file[k].record.capture.msgs[1]
            ELSE Due(k + 1) = Due(k)
<1> DEFINE r == file[k].record
<1>1. ReplayTypeOK /\ Layout
  BY DEF ReplayInv
<1>2. place = "packet" /\ ~ Throws(packet)
  BY DEF process_message, ProcessReturns
<1>3. Passed(k)
  BY <1>2 DEF AtRecord
<1>4. /\ k <= Len(file) /\ pos = Boundary(k + 1) /\ pos <= Len(bytes)
      /\ Announced(r) <= MAX_SANE_PACKET_LENGTH
  BY <1>3 DEF Passed
<1>5. PICK i \in 1 .. Len(r.bytes) : FirstEsc(r, i) /\ packet = SubSeq(r.bytes, i, Len(r.bytes))
  BY <1>3 DEF Passed
<1>6. Len(file) \in Nat /\ Len(expected) \in Nat
  BY <1>1, WithinFile
<1>7. k \in 1 .. Len(file)
  BY <1>4, <1>6
<1>8. r \in Records
  BY <1>1, <1>7, WithinFile
<1>9. /\ Announced(r) \in Nat /\ Len(r.bytes) \in Nat
      /\ Clean(r) => r.capture.msgs[1] \in Messages /\ r.capture.msgs[1] # None
  BY <1>8, RecordFacts
<1> HIDE DEF r
<1>10. ~ Fatal(r)
  <2>1. ~ (Announced(r) > MAX_SANE_PACKET_LENGTH)
    BY <1>4, <1>9 DEF MAX_SANE_PACKET_LENGTH
  <2>2. ASSUME NEW j \in 1 .. Len(r.bytes), FirstEsc(r, j)
        PROVE  j = i
    <3>1. /\ i \in 17 .. Len(r.bytes) /\ r.bytes[i] = ESC
          /\ \A x \in 17 .. i - 1 : r.bytes[x] # ESC
      BY <1>5 DEF FirstEsc, DEFAULT_PACKET_HEADER_SIZE
    <3>2. /\ j \in 17 .. Len(r.bytes) /\ r.bytes[j] = ESC
          /\ \A x \in 17 .. j - 1 : r.bytes[x] # ESC
      BY <2>2 DEF FirstEsc, DEFAULT_PACKET_HEADER_SIZE
    <3>3. i < j => i \in 17 .. j - 1
      BY <1>9, <3>1, <3>2
    <3>4. j < i => j \in 17 .. i - 1
      BY <1>9, <3>1, <3>2
    <3>5. i < j \/ j < i \/ i = j
      BY <1>9
    <3> QED
      BY <3>1, <3>2, <3>3, <3>4, <3>5
  <2> QED
    BY <1>2, <1>5, <2>1, <2>2 DEF Fatal
<1>11. Take(packet) = IF Clean(r) THEN r.capture.msgs[1] ELSE None
  BY <1>5, <1>8, <1>10, TakenAssumption
<1>12. Sound(k)
  <2>1. \A j \in 1 .. k : j = k \/ j \in 1 .. (k - 1)
    BY <1>6
  <2> QED
    BY <1>10, <2>1 DEF AtRecord, Sound, r
<1>13. IF Clean(r) THEN Due(k + 1) = Due(k) + 1 /\ expected[Due(k) + 1] = r.capture.msgs[1]
       ELSE Due(k + 1) = Due(k)
  <2>1. Boundary(k + 1) <= Len(bytes)
    BY <1>4
  <2> QED
    BY <1>1, <1>7, <1>12, <2>1 DEF Layout, r
<1>14. ASSUME Clean(r) PROVE Due(k) \in 0 .. (Len(expected) - 1)
  <2>1. k + 1 \in 1 .. (Len(file) + 1)
    BY <1>6, <1>7
  <2>2. Due(k) \in 0 .. Len(expected) /\ Due(k + 1) \in 0 .. Len(expected)
    BY <1>1, <2>1, WithinFile
  <2>3. Due(k + 1) = Due(k) + 1
    BY <1>13, <1>14
  <2> QED
    BY <1>6, <2>2, <2>3
<1> QED
  BY <1>4, <1>7, <1>9, <1>11, <1>12, <1>13, <1>14 DEF r

LEMMA ProcessInv ==
  ASSUME ReplayInv, process_message
  PROVE  ReplayInv'
<1>1. ReplayTypeOK /\ Layout
  BY DEF ReplayInv
<1>2. PICK k \in 1 .. (Len(file) + 1) : AtRecord(k)
  BY DEF ReplayInv
<1>3. /\ k \in 1 .. Len(file) /\ Sound(k)
      /\ pos = Boundary(k + 1)
      /\ Take(packet) = IF Clean(file[k].record) THEN file[k].record.capture.msgs[1] ELSE None
      /\ IF Clean(file[k].record)
         THEN /\ file[k].record.capture.msgs[1] \in Messages
              /\ file[k].record.capture.msgs[1] # None
              /\ Due(k + 1) = Due(k) + 1 /\ Due(k) \in 0 .. (Len(expected) - 1)
              /\ expected[Due(k) + 1] = file[k].record.capture.msgs[1]
         ELSE Due(k + 1) = Due(k)
  BY <1>2, Processed
<1>4. /\ UNCHANGED fileVars /\ UNCHANGED <<is_file_open, pos, good>>
      /\ place' = "top" /\ place' \in Places
      /\ processed' = IF Take(packet) = None THEN processed ELSE Append(processed, Take(packet))
  BY DEF process_message, ProcessReturns, Places
<1>5. /\ file' = file /\ bytes' = bytes /\ expected' = expected
      /\ \A j : Boundary(j)' = Boundary(j) /\ Due(j)' = Due(j) /\ Sound(j)' = Sound(j)
      /\ Layout'
  BY <1>1, <1>4, ReaderStep
<1>6. processed' = SubSeq(expected, 1, Due(k + 1)) /\ processed' \in Seq(Messages)
  <2>1. processed \in Seq(Messages) /\ expected \in Seq(Messages)
    BY <1>1 DEF ReplayTypeOK
  <2>2. processed = SubSeq(expected, 1, Due(k))
    BY <1>2 DEF AtRecord
  <2>3. CASE Clean(file[k].record)
    <3>1. /\ processed' = Append(processed, file[k].record.capture.msgs[1])
          /\ file[k].record.capture.msgs[1] \in Messages
          /\ Due(k + 1) = Due(k) + 1 /\ Due(k) \in 0 .. (Len(expected) - 1)
          /\ expected[Due(k) + 1] = file[k].record.capture.msgs[1]
      BY <1>3, <1>4, <2>3
    <3>2. Append(SubSeq(expected, 1, Due(k)), expected[Due(k) + 1]) =
            SubSeq(expected, 1, Due(k) + 1)
      BY <2>1, <3>1, NextElement
    <3>3. Append(processed, file[k].record.capture.msgs[1]) \in Seq(Messages)
      BY <2>1, <3>1, AppendProperties
    <3> QED
      BY <2>2, <3>1, <3>2, <3>3
  <2>4. CASE ~ Clean(file[k].record)
    BY <1>3, <1>4, <2>1, <2>2, <2>4
  <2> QED
    BY <2>3, <2>4
<1>7. ReplayTypeOK'
  BY <1>1, <1>4, <1>5, <1>6 DEF ReplayTypeOK
<1>8. AtRecord(k + 1)'
  <2>1. k + 1 - 1 = k
    BY <1>3
  <2>2. /\ Boundary(k + 1)' = Boundary(k + 1) /\ Due(k + 1)' = Due(k + 1)
        /\ Sound(k)' = Sound(k)
    BY <1>5
  <2>3. Sound(k + 1 - 1)'
    <3>1. \A j \in 1 .. k : ~ Fatal(file'[j].record)
      BY <1>3, <1>5 DEF Sound
    <3> QED
      BY <2>1, <3>1 DEF Sound
  <2>4. processed' = SubSeq(expected', 1, Due(k + 1)')
    BY <1>5, <1>6, <2>2
  <2>5. pos' = Boundary(k + 1)'
    BY <1>3, <1>4, <2>2
  <2>6. place' = "top"
    BY <1>4
  <2> QED
    BY <2>3, <2>4, <2>5, <2>6 DEF AtRecord
<1>9. k + 1 \in 1 .. (Len(file') + 1)
  <2>1. Len(file) \in Nat
    BY <1>1, WithinFile
  <2> QED
    BY <1>3, <1>5, <2>1
<1> QED
  BY <1>5, <1>7, <1>8, <1>9 DEF ReplayInv

LEMMA ReplayNextInv == ReplayInv /\ [Next]_vars => ReplayInv'
<1> SUFFICES ASSUME ReplayInv, [Next]_vars PROVE ReplayInv'
  OBVIOUS
<1>1. CASE \E r \in Records : \E size \in 1 .. Len(r.bytes) : Capture(r, size)
  BY <1>1, CaptureInv
<1>2. CASE SkipRecord
  BY <1>2, SkipInv
<1>3. CASE Reading /\ ~ SkipRecord
  BY <1>3, ReadingInv
<1>4. CASE process_message
  BY <1>4, ProcessInv
<1>5. CASE UNCHANGED vars
  <2>1. PICK k \in 1 .. (Len(file) + 1) : AtRecord(k)
    BY DEF ReplayInv
  <2>2. ReplayTypeOK /\ Layout
    BY DEF ReplayInv
  <2>3. UNCHANGED fileVars /\ UNCHANGED <<is_file_open, pos, good, place, packet, processed>>
    BY <1>5 DEF vars
  <2>4. /\ file' = file /\ bytes' = bytes /\ expected' = expected
        /\ \A j : Boundary(j)' = Boundary(j) /\ Due(j)' = Due(j) /\ Sound(j)' = Sound(j)
        /\ Layout'
    BY <2>2, <2>3, ReaderStep
  <2>5. ReplayTypeOK'
    BY <2>2, <2>3, <2>4 DEF ReplayTypeOK
  <2>6. AtRecord(k)'
    BY <2>1, <2>3, <2>4 DEF AtRecord, Passed
  <2> QED
    BY <2>1, <2>4, <2>5, <2>6 DEF ReplayInv
<1> QED
  BY <1>1, <1>2, <1>3, <1>4, <1>5 DEF Next

-----------------------------------------------------------------------------
(* The theorems *)

\* The stream's place, the record it is at and the messages processed agree in every
\* state of a replay.
THEOREM ReplayCorrect == Spec => []ReplayInv
<1>1. Spec => Init /\ [][Next]_vars
  BY PTL DEF Spec
<1> QED
  BY <1>1, ReplayInitInv, ReplayNextInv, PTL

\* file_stream_ reads within the file or, of one that is too short, at the end of a
\* whole global header, and no record yields two messages.
THEOREM ReplayTypeCorrect == Spec => []TypeOK
<1>1. ReplayInv => TypeOK
  BY ReplayInvImplies
<1> QED
  BY <1>1, ReplayCorrect, PTL

\* Whatever the records hold and wherever the file ends, a stream that can be read is
\* at the start of a record whenever main asks for the next packet.
THEOREM ReplayAligned == Spec => []AlignedOnRecords
<1>1. ReplayInv => AlignedOnRecords
  BY ReplayInvImplies
<1> QED
  BY <1>1, ReplayCorrect, PTL

\* A step of the capture or of the replay is a step of the message stream, or none.
LEMMA ReplayStep ==
  ASSUME ReplayInv, [Next]_vars
  PROVE  [MS!Next]_(MS!vars)
<1> DEFINE todo == SubSeq(expected, Len(processed) + 1, Len(expected))
           up == place # "refused"
<1>1. ReplayTypeOK /\ Layout
  BY DEF ReplayInv
<1>2. PICK k \in 1 .. (Len(file) + 1) : AtRecord(k)
  BY DEF ReplayInv
<1>3. Due(k) \in 0 .. Len(expected) /\ Len(processed) = Due(k)
  BY <1>2, ProcessedBefore
<1>4. expected \in Seq(Messages) /\ Len(expected) \in Nat
  BY <1>1, WithinFile DEF ReplayTypeOK
<1>5. ASSUME UNCHANGED <<todo, processed, up>>
      PROVE  [MS!Next]_(MS!vars)
  BY <1>5 DEF MS!vars
<1>6. ASSUME NEW r \in Records, NEW size \in 1 .. Len(r.bytes), Capture(r, size)
      PROVE  [MS!Next]_(MS!vars)
  <2> DEFINE m == r.capture.msgs[1]
  <2>1. /\ expected' = expected \/ (Clean(r) /\ expected' = Append(expected, m))
        /\ processed' = processed /\ place' = place
    BY <1>6 DEF Capture
  <2>2. CASE expected' = expected
    BY <1>5, <2>1, <2>2
  <2>3. CASE Clean(r) /\ expected' = Append(expected, m)
    <3>1. m \in Messages
      BY <2>3, RecordFacts
    <3> HIDE DEF m
    <3>2. Len(Append(expected, m)) = Len(expected) + 1
      BY <1>4, <3>1, AppendProperties
    <3>3. SubSeq(Append(expected, m), Due(k) + 1, Len(expected) + 1) =
            Append(SubSeq(expected, Due(k) + 1, Len(expected)), m)
      BY <1>3, <1>4, <3>1, AppendedRanges
    <3>4. todo' = Append(todo, m)
      <4>1. todo' = SubSeq(expected', Len(processed') + 1, Len(expected'))
        OBVIOUS
      <4> QED
        BY <1>3, <2>1, <2>3, <3>2, <3>3, <4>1
    <3>5. MS!Send(m)
      BY <2>1, <3>4 DEF MS!Send
    <3> QED
      BY <3>1, <3>5 DEF MS!Next
  <2> QED
    BY <2>1, <2>2, <2>3
<1>7. ASSUME process_message
      PROVE  [MS!Next]_(MS!vars)
  <2> DEFINE m == file[k].record.capture.msgs[1]
  <2>1. /\ expected' = expected /\ place = "packet" /\ place' = "top"
        /\ processed' = IF Take(packet) = None THEN processed ELSE Append(processed, Take(packet))
    BY <1>7 DEF process_message, ProcessReturns, fileVars
  <2>2. /\ Take(packet) = IF Clean(file[k].record) THEN m ELSE None
        /\ Clean(file[k].record) =>
             /\ m \in Messages /\ m # None
             /\ Due(k) \in 0 .. (Len(expected) - 1) /\ expected[Due(k) + 1] = m
    BY <1>2, <1>7, Processed
  <2> HIDE DEF m
  <2>3. CASE ~ Clean(file[k].record)
    <3>1. processed' = processed
      BY <2>1, <2>2, <2>3
    <3> QED
      BY <1>5, <2>1, <3>1
  <2>4. CASE Clean(file[k].record)
    <3>1. /\ processed' = Append(processed, m) /\ m \in Messages
          /\ Due(k) \in 0 .. (Len(expected) - 1) /\ expected[Due(k) + 1] = m
      BY <2>1, <2>2, <2>4
    <3>2. /\ SubSeq(expected, Due(k) + 1, Len(expected)) # << >>
          /\ Head(SubSeq(expected, Due(k) + 1, Len(expected))) = expected[Due(k) + 1]
          /\ Tail(SubSeq(expected, Due(k) + 1, Len(expected))) =
               SubSeq(expected, Due(k) + 2, Len(expected))
      BY <1>4, <3>1, NextElement
    <3>3. Len(processed') + 1 = Due(k) + 2
      <4>1. processed \in Seq(Messages)
        BY <1>1 DEF ReplayTypeOK
      <4>2. Len(Append(processed, m)) = Len(processed) + 1
        BY <3>1, <4>1, AppendProperties
      <4>3. Len(processed') = Due(k) + 1
        BY <1>3, <3>1, <4>2
      <4> QED
        BY <1>3, <1>4, <4>3
    <3>4. todo # << >> /\ Head(todo) = m
      BY <1>3, <3>1, <3>2
    <3>5. todo' = Tail(todo)
      <4>1. todo' = SubSeq(expected', Len(processed') + 1, Len(expected'))
        OBVIOUS
      <4> QED
        BY <1>3, <2>1, <3>2, <3>3, <4>1
    <3>6. MS!Deliver
      BY <2>1, <3>1, <3>4, <3>5 DEF MS!Deliver
    <3> QED
      BY <3>6 DEF MS!Next
  <2> QED
    BY <2>3, <2>4
<1>8. ASSUME OpenFails
      PROVE  [MS!Next]_(MS!vars)
  <2>1. up /\ ~ up' /\ expected' = expected /\ processed' = processed
    BY <1>8 DEF OpenFails, fileVars
  <2>2. MS!Close
    BY <2>1 DEF MS!Close
  <2> QED
    BY <2>2 DEF MS!Next
<1>9. ASSUME (Reading /\ ~ OpenFails) \/ UNCHANGED vars
      PROVE  [MS!Next]_(MS!vars)
  <2>1. /\ expected' = expected /\ processed' = processed
        /\ (place # "refused")' = (place # "refused")
    BY <1>9 DEF Reading, open, close, LoopTop, AfterEmpty, GetPacket, SkipRecord,
                CloseOversized, ReadFails, ProcessThrows, vars, fileVars
  <2> QED
    BY <1>5, <2>1
<1> HIDE DEF todo, up
<1> QED
  BY <1>6, <1>7, <1>8, <1>9 DEF Next

\* A replay is a message stream, up to liveness: for every set of records, however
\* many there are and wherever the file ends, the messages of the clean records come
\* out whole, in the order captured and once.
THEOREM ReplayImplementsStream == Spec => MS!SafeSpec
<1>1. Init => MS!Init
  <2> SUFFICES ASSUME Init PROVE MS!Init
    OBVIOUS
  <2>1. expected = << >> /\ processed = << >> /\ place = "closed"
    BY DEF Init
  <2>2. SubSeq(expected, Len(processed) + 1, Len(expected)) = << >>
    BY <2>1
  <2>3. SubSeq(expected, Len(processed) + 1, Len(expected)) \in Seq(Messages)
    <3>1. \A S : << >> \in Seq(S)
      OBVIOUS
    <3> QED
      BY <2>2, <3>1
  <2>4. (place # "refused") = TRUE
    BY <2>1
  <2> QED
    BY <2>1, <2>3, <2>4 DEF MS!Init
<1>2. ReplayInv /\ [Next]_vars => [MS!Next]_(MS!vars)
  BY ReplayStep
<1>3. Spec => Init /\ [][Next]_vars
  BY PTL DEF Spec
<1> QED
  BY <1>1, <1>2, <1>3, ReplayCorrect, PTL DEF MS!SafeSpec

=============================================================================
