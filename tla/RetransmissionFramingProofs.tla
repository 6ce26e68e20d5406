--------------------- MODULE RetransmissionFramingProofs ---------------------
(***************************************************************************)
(* process_incoming_data cuts the byte stream where the messages were      *)
(* joined, for every set of items whose headers announce their length or   *)
(* mislead, every number of them and every way in which recv splits the    *)
(* bytes, until it goes by a header that misleads.                         *)
(***************************************************************************)
EXTENDS RetransmissionFraming, SequenceRanges

Bytes == 0 .. 255

\* What the server sends: its bytes and its message.
LEMMA SentItem ==
  ASSUME NEW i \in Sent
  PROVE  /\ i.bytes \in Seq(Bytes) /\ Len(i.bytes) \in Nat /\ Len(i.bytes) >= 2
         /\ i.msg \in Messages /\ i.msg # None
<1>1. i.bytes \in Seq(Bytes)
  BY FramedAssumption DEF Bytes
<1>2. Len(i.bytes) \in Nat
  BY <1>1, LenProperties
<1>3. Len(i.bytes) >= 2
  BY <1>2, FramedAssumption DEF MarketHeaderSize
<1>4. PICK j \in Items : i.msg = j.msg
  BY DEF Sent
<1>5. i.msg.kind # "none"
  BY <1>4, ItemsAssumption
<1>6. i.msg # None
  BY <1>5 DEF None
<1> QED
  BY <1>1, <1>2, <1>3, <1>4, <1>6 DEF Messages

\* Two sequences of bytes that agree have the same BODY-LENGTH.
LEMMA SameLength ==
  ASSUME NEW buf \in Seq(Bytes), NEW b \in Seq(Bytes), Len(buf) >= 19, Len(b) >= 19,
         \A j \in 1 .. Len(buf) : j <= Len(b) => buf[j] = b[j]
  PROVE  BodyLengthBytes(buf) = BodyLengthBytes(b)
<1>1. Len(buf) \in Nat /\ Len(b) \in Nat
  BY LenProperties
<1>2. BodyLengthBytes(buf) = SubSeq(buf, 18, 19) /\ BodyLengthBytes(b) = SubSeq(b, 18, 19)
  BY DEF BodyLengthBytes, Slice
<1>3. buf[18] = b[18] /\ buf[19] = b[19]
  <2>1. 18 \in 1 .. Len(buf) /\ 19 \in 1 .. Len(buf) /\ 18 <= Len(b) /\ 19 <= Len(b)
    BY <1>1
  <2> QED
    BY <2>1
<1>4. SubSeq(buf, 18, 19) = << buf[18], buf[19] >> /\ SubSeq(b, 18, 19) = << b[18], b[19] >>
  <2>1. SubSeq(buf, 18, 19) = [k \in 1 .. 2 |-> buf[k + 17]]
    BY <1>1
  <2>2. SubSeq(b, 18, 19) = [k \in 1 .. 2 |-> b[k + 17]]
    BY <1>1
  <2>3. \A f : [k \in 1 .. 2 |-> f[k + 17]] = << f[18], f[19] >>
    OBVIOUS
  <2> QED
    BY <2>1, <2>2, <2>3
<1> QED
  BY <1>2, <1>3, <1>4

\* A header on which getBodyLength throws is that of a fatal item.
LEMMA ThrowingItem ==
  ASSUME NEW i \in Sent, NEW buf \in Seq(Bytes),
         \A j \in 1 .. Len(buf) : j <= Len(i.bytes) => buf[j] = i.bytes[j],
         Throws(buf)
  PROVE  Fatal(i)
<1> DEFINE b == i.bytes
<1>1. b \in Seq(Bytes) /\ Len(b) \in Nat /\ Len(b) >= 2 /\ Len(buf) \in Nat
  BY SentItem, LenProperties
<1>2. IsMarket(b) => Len(b) >= MarketHeaderSize /\ (IsBcd(BodyLengthBytes(b)) <=> ~ Fatal(i))
  BY FramedAssumption
<1> HIDE DEF b
<1>3. \A j \in 1 .. Len(buf) : j <= Len(b) => buf[j] = b[j]
  BY DEF b
<1>4. Len(buf) >= 19 /\ IsMarket(buf) /\ ~ IsBcd(BodyLengthBytes(buf))
  BY <1>1 DEF Throws, MarketHeaderSize
<1>5. IsMarket(b)
  <2>1. 1 \in 1 .. Len(buf) /\ 1 <= Len(b)
    BY <1>1, <1>4
  <2> QED
    BY <1>3, <1>4, <2>1 DEF IsMarket
<1>6. Len(b) >= 19
  BY <1>1, <1>2, <1>5 DEF MarketHeaderSize
<1>7. BodyLengthBytes(buf) = BodyLengthBytes(b)
  BY <1>1, <1>3, <1>4, <1>6, SameLength
<1> QED
  BY <1>2, <1>4, <1>5, <1>7

\* The bytes at the front of the buffer are an item's, as far as there are any. If
\* they are enough to go on, the item is not fatal and its length is what is needed,
\* unless it misleads; if they are not, the buffer does not hold the whole item.
LEMMA FrontItem ==
  ASSUME NEW i \in Sent, NEW buf \in Seq(Bytes), Len(buf) >= 1,
         \A j \in 1 .. Len(buf) : j <= Len(i.bytes) => buf[j] = i.bytes[j],
         ~ Throws(buf)
  PROVE  /\ Len(buf) >= Needed(buf) =>
              ~ Fatal(i) /\ (Misleads(i) \/ Needed(buf) = Len(i.bytes))
         /\ ~ (Len(buf) >= Needed(buf)) => Misleads(i) \/ Len(buf) < Len(i.bytes)
<1> DEFINE b == i.bytes
<1>1. b \in Seq(Bytes) /\ Len(b) \in Nat /\ Len(b) >= 2 /\ Len(buf) \in Nat
  BY SentItem, LenProperties
<1>2. /\ IF IsMarket(b)
         THEN /\ Len(b) >= MarketHeaderSize
              /\ IsBcd(BodyLengthBytes(b)) <=> ~ Fatal(i)
              /\ ~ Fatal(i) /\ ~ Misleads(i) => Len(b) = MarketFrame + getBodyLength(b)
         ELSE /\ Len(b) >= 2 /\ ~ Fatal(i)
              /\ ~ Misleads(i) => Len(b) = 2 + network_to_host(Slice(b, 0, 2)) + 1
  BY FramedAssumption
<1> HIDE DEF b
<1>3. \A j \in 1 .. Len(buf) : j <= Len(b) => buf[j] = b[j]
  BY DEF b
<1>4. buf[1] = b[1]
  <2>1. 1 \in 1 .. Len(buf) /\ 1 <= Len(b)
    BY <1>1
  <2> QED
    BY <1>3, <2>1
<1>5. IsMarket(buf) <=> IsMarket(b)
  BY <1>4 DEF IsMarket
<1>6. CASE IsMarket(b)
  <2>1. MarketHeaderSize = 19
    BY DEF MarketHeaderSize
  <2>2. CASE Len(buf) < MarketHeaderSize
    <3>1. Needed(buf) = MarketHeaderSize
      BY <1>5, <1>6, <2>2 DEF Needed
    <3> QED
      BY <1>1, <1>2, <1>6, <2>1, <2>2, <3>1 DEF b
  <2>3. CASE ~ (Len(buf) < MarketHeaderSize)
    <3>1. Len(buf) >= 19 /\ Len(b) >= 19
      BY <1>1, <1>2, <1>6, <2>1, <2>3
    <3>2. BodyLengthBytes(buf) = BodyLengthBytes(b)
      BY <1>1, <1>3, <3>1, SameLength
    <3>3. IsBcd(BodyLengthBytes(b))
      BY <1>5, <1>6, <2>1, <3>1, <3>2 DEF Throws
    <3>4. Needed(buf) = MarketFrame + getBodyLength(b)
      BY <1>5, <1>6, <2>3, <3>2 DEF Needed, getBodyLength
    <3>5. ~ Fatal(i) /\ (Misleads(i) \/ Needed(buf) = Len(b))
      BY <1>2, <1>6, <3>3, <3>4
    <3> QED
      BY <1>1, <3>5 DEF b
  <2> QED
    BY <2>2, <2>3
<1>7. CASE ~ IsMarket(b)
  <2>1. CASE Len(buf) < 2
    <3>1. Needed(buf) = 2
      BY <1>5, <1>7, <2>1 DEF Needed
    <3> QED
      BY <1>1, <2>1, <3>1 DEF b
  <2>2. CASE ~ (Len(buf) < 2)
    <3>1. Len(buf) >= 2 /\ Len(b) >= 2
      BY <1>1, <2>2
    <3>2. Slice(buf, 0, 2) = Slice(b, 0, 2)
      <4>1. Slice(buf, 0, 2) = SubSeq(buf, 1, 2) /\ Slice(b, 0, 2) = SubSeq(b, 1, 2)
        BY DEF Slice
      <4>2. buf[1] = b[1] /\ buf[2] = b[2]
        <5>1. 1 \in 1 .. Len(buf) /\ 2 \in 1 .. Len(buf) /\ 1 <= Len(b) /\ 2 <= Len(b)
          BY <1>1, <3>1
        <5> QED
          BY <1>3, <5>1
      <4>3. SubSeq(buf, 1, 2) = << buf[1], buf[2] >> /\ SubSeq(b, 1, 2) = << b[1], b[2] >>
        <5>1. SubSeq(buf, 1, 2) = [k \in 1 .. 2 |-> buf[k]]
          BY <1>1, <3>1
        <5>2. SubSeq(b, 1, 2) = [k \in 1 .. 2 |-> b[k]]
          BY <1>1, <3>1
        <5>3. \A f : [k \in 1 .. 2 |-> f[k]] = << f[1], f[2] >>
          OBVIOUS
        <5> QED
          BY <5>1, <5>2, <5>3
      <4> QED
        BY <4>1, <4>2, <4>3
    <3>3. Needed(buf) = 2 + network_to_host(Slice(b, 0, 2)) + 1
      BY <1>5, <1>7, <2>2, <3>2 DEF Needed
    <3>4. ~ Fatal(i) /\ (Misleads(i) \/ Needed(buf) = Len(b))
      BY <1>2, <1>7, <3>3
    <3> QED
      BY <1>1, <3>4 DEF b
  <2> QED
    BY <2>1, <2>2
<1> QED
  BY <1>6, <1>7

\* Two bytes of a buffer, as they are read where a length is looked for.
LEMMA TwoBytes ==
  ASSUME NEW buf \in Seq(Bytes), NEW m \in Nat, m + 2 <= Len(buf)
  PROVE  \E c \in Bytes, d \in Bytes : Slice(buf, m, 2) = <<c, d>>
<1>1. /\ Len(buf) \in Nat /\ m + 1 \in 1 .. (Len(buf) + 1)
      /\ m + 2 \in (m + 1 - 1) .. Len(buf) /\ m + 2 - (m + 1) + 1 = 2
  BY LenProperties
<1> DEFINE r == SubSeq(buf, m + 1, m + 2)
<1>2. r \in Seq(Bytes) /\ Len(r) = m + 2 - (m + 1) + 1
  BY <1>1, RangeElements
<1> HIDE DEF r
<1>3. Len(r) = 2 /\ r[1] \in Bytes /\ r[2] \in Bytes
  <2>1. Len(r) = 2
    BY <1>1, <1>2
  <2>2. 1 \in 1 .. Len(r) /\ 2 \in 1 .. Len(r)
    BY <2>1
  <2> QED
    BY <1>2, <2>1, <2>2, ElementOfSeq
<1>4. r = <<r[1], r[2]>>
  BY <1>2, <1>3
<1>5. Slice(buf, m, 2) = r
  BY DEF Slice, r
<1> QED
  BY <1>3, <1>4, <1>5

\* Whatever the buffer starts with, what is needed to go on is at least two bytes.
LEMMA NeededBytes ==
  ASSUME NEW buf \in Seq(Bytes), ~ Throws(buf)
  PROVE  Needed(buf) \in Nat /\ Needed(buf) >= 2
<1>1. Len(buf) \in Nat /\ MarketHeaderSize = 19 /\ MarketFrame = 22
  BY LenProperties DEF MarketHeaderSize, MarketFrame
<1>2. CASE IsMarket(buf) /\ Len(buf) < MarketHeaderSize
  BY <1>1, <1>2 DEF Needed
<1>3. CASE IsMarket(buf) /\ ~ (Len(buf) < MarketHeaderSize)
  <2>1. 17 \in Nat /\ 17 + 2 <= Len(buf)
    BY <1>1, <1>3
  <2>2. PICK c \in Bytes, d \in Bytes : Slice(buf, 17, 2) = <<c, d>>
    BY <2>1, TwoBytes
  <2>3. BodyLengthBytes(buf) = <<c, d>> /\ IsBcd(BodyLengthBytes(buf))
    BY <1>1, <1>3, <2>2 DEF BodyLengthBytes, Throws
  <2>4. getBodyLength(buf) \in Nat
    BY <2>3, LengthsAssumption DEF Bytes, getBodyLength
  <2>5. Needed(buf) = MarketFrame + getBodyLength(buf)
    BY <1>3 DEF Needed
  <2> QED
    BY <1>1, <2>4, <2>5
<1>4. CASE ~ IsMarket(buf) /\ Len(buf) < 2
  BY <1>4 DEF Needed
<1>5. CASE ~ IsMarket(buf) /\ ~ (Len(buf) < 2)
  <2>1. 0 \in Nat /\ 0 + 2 <= Len(buf)
    BY <1>1, <1>5
  <2>2. PICK c \in Bytes, d \in Bytes : Slice(buf, 0, 2) = <<c, d>>
    BY <2>1, TwoBytes
  <2>3. network_to_host(Slice(buf, 0, 2)) \in Nat
    BY <2>2, LengthsAssumption DEF Bytes
  <2>4. Needed(buf) = 2 + network_to_host(Slice(buf, 0, 2)) + 1
    BY <1>5 DEF Needed
  <2> QED
    BY <2>3, <2>4
<1> QED
  BY <1>2, <1>3, <1>4, <1>5

-----------------------------------------------------------------------------
(* The inductive invariant *)

\* Where the k-th item's bytes start, and how many messages are due before it; one
\* past the last item, where the next one's will.
Start(k) == IF k > Len(wire) THEN Len(stream) ELSE wire[k].start
Due(k) == IF k > Len(wire) THEN Len(expected) ELSE wire[k].due

\* The client finds its way through the first k items.
Sound(k) == \A j \in 1 .. k : ~ Fatal(wire[j].item) /\ ~ Misleads(wire[j].item)

\* What may come out of a handler: a message that was sent, or what the bytes happen
\* to make.
Readable == Messages \cup {Handle(b) : b \in Seq(Bytes)}

FramingTypeOK ==
  /\ wire \in Seq([item : Sent, start : Nat, due : Nat])
  /\ stream \in Seq(Bytes)
  /\ expected \in Seq(Messages)
  /\ received \in 0 .. Len(stream)
  /\ erased \in 0 .. received
  /\ looping \in BOOLEAN /\ running \in BOOLEAN
  /\ fate \in {"live", "terminated"}
  /\ handled \in Seq(Readable)
  /\ Len(handled) <= erased

\* The stream is the items' bytes, one after the other, and the expected messages
\* are those of the welcome items before the first fatal or misleading one.
Layout ==
  /\ Start(1) = 0 /\ Due(1) = 0
  /\ \A k \in 1 .. Len(wire) :
       /\ Start(k + 1) = Start(k) + Len(wire[k].item.bytes)
       /\ Start(k + 1) <= Len(stream)
       /\ \A j \in 1 .. Len(wire[k].item.bytes) :
            stream[Start(k) + j] = wire[k].item.bytes[j]
       /\ Due(k) <= Len(expected)
       /\ IF Sound(k)
          THEN IF Welcome(wire[k].item)
               THEN Due(k + 1) = Due(k) + 1 /\ expected[Due(k) + 1] = wire[k].item.msg
               ELSE Due(k + 1) = Due(k)
          ELSE Due(k) = Len(expected)

\* The items' bytes start in the order of the items.
Ordered == \A j, k \in 1 .. Len(wire) : j <= k => Start(j) <= Start(k)

\* The buffer starts with the k-th item: nothing before it was fatal or misled, what
\* was due before it is handled, and if recv is waited for its last byte is missing.
AtItem(k) ==
  /\ erased = Start(k)
  /\ Sound(k - 1)
  /\ handled = SubSeq(expected, 1, Due(k))
  /\ ~ looping /\ running /\ fate = "live" /\ erased < received =>
       /\ k <= Len(wire)
       /\ received < erased + Len(wire[k].item.bytes) \/ Misleads(wire[k].item)

\* A header misled the client, after everything expected was handled.
Astray ==
  /\ adrift
  /\ Len(handled) >= Len(expected)
  /\ SubSeq(handled, 1, Len(expected)) = expected

\* The exception came after everything expected was handled, and nothing is expected
\* any more.
Thrown ==
  fate = "terminated" => Astray \/ (handled = expected /\ ~ Sound(Len(wire)))

FramingInv ==
  /\ FramingTypeOK
  /\ Layout
  /\ Ordered
  /\ Thrown
  /\ Astray \/ \E k \in 1 .. (Len(wire) + 1) : AtItem(k)

\* The invariant has the properties that a run checks.
LEMMA InvImplies == FramingInv => TypeOK /\ NothingWholeWaits /\ ThrownAfterHandling
<1> SUFFICES ASSUME FramingInv PROVE TypeOK /\ NothingWholeWaits /\ ThrownAfterHandling
  OBVIOUS
<1>1. FramingTypeOK
  BY DEF FramingInv
<1>2. TypeOK
  BY <1>1 DEF FramingTypeOK, TypeOK
<1>3. NothingWholeWaits
  <2> SUFFICES ASSUME ~ looping, running, fate = "live", erased < received, ~ adrift
               PROVE  \E j \in 1 .. Len(wire) :
                        /\ erased = wire[j].start
                        /\ \/ received < erased + Len(wire[j].item.bytes)
                           \/ Misleads(wire[j].item)
    BY DEF NothingWholeWaits
  <2>1. PICK k \in 1 .. (Len(wire) + 1) : AtItem(k)
    BY DEF FramingInv, Astray
  <2>2. /\ k <= Len(wire) /\ erased = Start(k)
        /\ received < erased + Len(wire[k].item.bytes) \/ Misleads(wire[k].item)
    BY <2>1 DEF AtItem
  <2>3. Len(wire) \in Nat
    BY <1>1, LenProperties DEF FramingTypeOK
  <2>4. k \in 1 .. Len(wire) /\ ~ (k > Len(wire))
    BY <2>2, <2>3
  <2>5. Start(k) = wire[k].start
    BY <2>4 DEF Start
  <2> QED
    BY <2>2, <2>4, <2>5
<1>4. ThrownAfterHandling
  BY DEF FramingInv, Thrown, Astray, ThrownAfterHandling
<1> QED
  BY <1>2, <1>3, <1>4

\* Before the server has sent anything.
LEMMA FramingInitInv == Init => FramingInv
<1> SUFFICES ASSUME Init PROVE FramingInv
  OBVIOUS
<1>1. /\ wire = << >> /\ stream = << >> /\ expected = << >> /\ received = 0 /\ erased = 0
      /\ looping = FALSE /\ running = TRUE /\ fate = "live" /\ handled = << >>
  BY DEF Init
<1>2. Len(<< >>) = 0 /\ \A S : << >> \in Seq(S)
  OBVIOUS
<1>3. FramingTypeOK
  <2>1. Len(stream) = 0 /\ Len(handled) = 0
    BY <1>1, <1>2
  <2>2. received \in 0 .. Len(stream) /\ erased \in 0 .. received /\ Len(handled) <= erased
    BY <1>1, <2>1
  <2> QED
    BY <1>1, <1>2, <2>2 DEF FramingTypeOK
<1>4. Start(1) = 0 /\ Due(1) = 0 /\ 1 .. Len(wire) = {} /\ Len(wire) + 1 = 1
  BY <1>1, <1>2 DEF Start, Due
<1>5. Layout /\ Ordered
  BY <1>4 DEF Layout, Ordered
<1>6. AtItem(1)
  <2>1. SubSeq(expected, 1, 0) = << >>
    BY <1>1
  <2>2. Sound(1 - 1)
    BY DEF Sound
  <2> QED
    BY <1>1, <1>4, <2>1, <2>2 DEF AtItem
<1>7. Thrown
  BY <1>1 DEF Thrown
<1> QED
  BY <1>3, <1>4, <1>5, <1>6, <1>7 DEF FramingInv

-----------------------------------------------------------------------------
(* The steps *)

\* Starts and counts are within the stream and the expected messages, and an item
\* on the wire lies within the stream.
LEMMA Within ==
  ASSUME FramingTypeOK, Layout
  PROVE  /\ Len(wire) \in Nat /\ Len(stream) \in Nat /\ Len(expected) \in Nat
         /\ \A k \in 1 .. Len(wire) :
              /\ wire[k].item \in Sent /\ Start(k) = wire[k].start /\ Due(k) = wire[k].due
              /\ Start(k) \in Nat /\ Due(k) \in Nat
              /\ Start(k) + Len(wire[k].item.bytes) <= Len(stream)
         /\ \A k \in 1 .. (Len(wire) + 1) :
              Start(k) \in 0 .. Len(stream) /\ Due(k) \in 0 .. Len(expected)
<1>1. Len(wire) \in Nat /\ Len(stream) \in Nat /\ Len(expected) \in Nat
  BY LenProperties DEF FramingTypeOK
<1>2. ASSUME NEW k \in 1 .. Len(wire)
      PROVE  /\ wire[k].item \in Sent /\ Start(k) = wire[k].start /\ Due(k) = wire[k].due
             /\ Start(k) \in Nat /\ Due(k) \in Nat
             /\ Start(k) + Len(wire[k].item.bytes) <= Len(stream)
             /\ Start(k) <= Len(stream) /\ Due(k) <= Len(expected)
  <2>1. wire[k] \in [item : Sent, start : Nat, due : Nat]
    BY ElementOfSeq DEF FramingTypeOK
  <2>2. ~ (k > Len(wire))
    BY <1>1
  <2>3. Start(k) = wire[k].start /\ Due(k) = wire[k].due
    BY <2>2 DEF Start, Due
  <2>4. Start(k) + Len(wire[k].item.bytes) <= Len(stream) /\ Due(k) <= Len(expected)
    BY DEF Layout
  <2>5. Len(wire[k].item.bytes) \in Nat
    BY <2>1, SentItem
  <2>6. Start(k) \in Nat /\ Due(k) \in Nat
    BY <2>1, <2>3
  <2>7. Start(k) <= Len(stream)
    BY <1>1, <2>4, <2>5, <2>6
  <2> QED
    BY <2>1, <2>3, <2>4, <2>6, <2>7
<1>3. ASSUME NEW k \in 1 .. (Len(wire) + 1)
      PROVE  Start(k) \in 0 .. Len(stream) /\ Due(k) \in 0 .. Len(expected)
  <2>1. CASE k > Len(wire)
    BY <1>1, <2>1 DEF Start, Due
  <2>2. CASE ~ (k > Len(wire))
    <3>1. k \in 1 .. Len(wire)
      BY <1>1, <2>2
    <3> QED
      BY <1>1, <1>2, <3>1
  <2> QED
    BY <2>1, <2>2
<1> QED
  BY <1>1, <1>2, <1>3

\* A client that is adrift stays adrift whatever the server sends, and nothing that
\* it sends is expected to be handled; one that is not does not get adrift by it.
LEMMA SendAdrift ==
  ASSUME FramingTypeOK, NEW i \in Sent, Send(i)
  PROVE  adrift' = adrift /\ (adrift => expected' = expected)
<1> DEFINE new == [item |-> i, start |-> Len(stream), due |-> Len(expected)]
<1>1. /\ wire \in Seq([item : Sent, start : Nat, due : Nat])
      /\ Len(stream) \in Nat /\ Len(expected) \in Nat /\ Len(wire) \in Nat
      /\ received \in 0 .. Len(stream) /\ erased \in 0 .. received
  BY LenProperties DEF FramingTypeOK
<1>2. /\ new \in [item : Sent, start : Nat, due : Nat]
      /\ new.start = Len(stream)
  BY <1>1
<1>3. wire' = Append(wire, new) /\ erased' = erased
  BY DEF Send
<1> HIDE DEF new
<1>4. /\ Len(wire') = Len(wire) + 1 /\ wire'[Len(wire) + 1] = new
      /\ \A k \in 1 .. Len(wire) : wire'[k] = wire[k]
  BY <1>1, <1>2, <1>3, AppendProperties
<1>5. \A k \in 1 .. Len(wire') : k \in 1 .. Len(wire) \/ k = Len(wire) + 1
  BY <1>1, <1>4
<1>6. \A k \in 1 .. Len(wire) : k \in 1 .. Len(wire')
  BY <1>1, <1>4
<1>7. ~ (erased > Len(stream))
  BY <1>1
<1>8. adrift' => adrift
  BY <1>2, <1>3, <1>4, <1>5, <1>7 DEF adrift
<1>9. adrift => adrift'
  BY <1>3, <1>4, <1>6 DEF adrift
<1>10. adrift => expected' = expected
  BY DEF adrift, Send
<1>11. adrift \in BOOLEAN /\ adrift' \in BOOLEAN
  BY DEF adrift
<1> QED
  BY <1>8, <1>9, <1>10, <1>11

\* The server sends an item: its bytes follow those sent before.
LEMMA SendInv ==
  ASSUME FramingInv, NEW i \in Sent, Send(i)
  PROVE  FramingInv'
<1> DEFINE new == [item |-> i, start |-> Len(stream), due |-> Len(expected)]
<1>1. FramingTypeOK /\ Layout /\ Ordered
  BY DEF FramingInv
<1>2. /\ Len(wire) \in Nat /\ Len(stream) \in Nat /\ Len(expected) \in Nat
      /\ \A k \in 1 .. Len(wire) :
           /\ wire[k].item \in Sent /\ Start(k) = wire[k].start /\ Due(k) = wire[k].due
           /\ Start(k) \in Nat /\ Due(k) \in Nat
           /\ Start(k) + Len(wire[k].item.bytes) <= Len(stream)
      /\ \A k \in 1 .. (Len(wire) + 1) :
           Start(k) \in 0 .. Len(stream) /\ Due(k) \in 0 .. Len(expected)
  BY <1>1, Within
<1>0. PICK n \in Nat : n = Len(wire)
  BY <1>2
<1>3. /\ wire' = Append(wire, new) /\ stream' = stream \o i.bytes
      /\ expected' = IF Welcome(i) /\ Sound(n) THEN Append(expected, i.msg) ELSE expected
      /\ UNCHANGED <<received, erased, looping, running, fate, handled>>
  BY <1>0 DEF Send, Sound
<1>4. /\ i.bytes \in Seq(Bytes) /\ Len(i.bytes) \in Nat /\ Len(i.bytes) >= 2
      /\ i.msg \in Messages /\ i.msg # None
  BY SentItem
<1>5. /\ wire' \in Seq([item : Sent, start : Nat, due : Nat]) /\ Len(wire') = n + 1
      /\ \A k \in 1 .. n : wire'[k] = wire[k]
      /\ wire'[n + 1] = new
  <2>1. new \in [item : Sent, start : Nat, due : Nat]
    BY <1>2
  <2> HIDE DEF new
  <2> QED
    BY <1>0, <1>1, <1>3, <2>1, AppendProperties DEF FramingTypeOK
<1>6. new.item = i /\ new.start = Len(stream) /\ new.due = Len(expected)
  OBVIOUS
<1> HIDE DEF new
<1>7. /\ stream' \in Seq(Bytes) /\ Len(stream') = Len(stream) + Len(i.bytes)
      /\ \A j \in 1 .. Len(stream') :
           stream'[j] = IF j <= Len(stream) THEN stream[j] ELSE i.bytes[j - Len(stream)]
  <2>1. stream \in Seq(Bytes)
    BY <1>1 DEF FramingTypeOK
  <2>2. /\ Len(stream \o i.bytes) = Len(stream) + Len(i.bytes)
        /\ stream \o i.bytes \in Seq(Bytes)
        /\ \A j \in 1 .. Len(stream \o i.bytes) :
             (stream \o i.bytes)[j] =
               IF j <= Len(stream) THEN stream[j] ELSE i.bytes[j - Len(stream)]
    BY <1>4, <2>1, ConcatProperties
  <2> QED
    BY <1>3, <2>2
<1>8. /\ expected' \in Seq(Messages)
      /\ Len(expected') = IF Welcome(i) /\ Sound(n) THEN Len(expected) + 1 ELSE Len(expected)
      /\ \A j \in 1 .. Len(expected) : expected'[j] = expected[j]
      /\ Welcome(i) /\ Sound(n) => expected'[Len(expected) + 1] = i.msg
      /\ \A d \in 0 .. Len(expected) : SubSeq(expected', 1, d) = SubSeq(expected, 1, d)
  <2>1. expected \in Seq(Messages)
    BY <1>1 DEF FramingTypeOK
  <2>2. CASE Welcome(i) /\ Sound(n)
    <3>1. expected' = Append(expected, i.msg)
      BY <1>3, <2>2
    <3>2. /\ Append(expected, i.msg) \in Seq(Messages)
          /\ Len(Append(expected, i.msg)) = Len(expected) + 1
          /\ \A j \in 1 .. Len(expected) : Append(expected, i.msg)[j] = expected[j]
          /\ Append(expected, i.msg)[Len(expected) + 1] = i.msg
      BY <1>4, <2>1, AppendProperties
    <3>3. \A d \in 0 .. Len(expected) :
            SubSeq(Append(expected, i.msg), 1, d) = SubSeq(expected, 1, d)
      BY <1>4, <2>1, AppendedRanges
    <3> QED
      BY <2>2, <3>1, <3>2, <3>3
  <2>3. CASE ~ (Welcome(i) /\ Sound(n))
    BY <1>3, <2>1, <2>3
  <2> QED
    BY <2>2, <2>3
<1>9. FramingTypeOK'
  <2>2. received' \in 0 .. Len(stream') /\ erased' \in 0 .. received'
    <3>1. received \in 0 .. Len(stream) /\ erased \in 0 .. received
      BY <1>1 DEF FramingTypeOK
    <3> QED
      BY <1>2, <1>3, <1>4, <1>7, <3>1
  <2> QED
    BY <1>1, <1>3, <1>5, <1>7, <1>8, <2>2 DEF FramingTypeOK
<1>10. /\ \A k \in 1 .. (n + 1) : Start(k)' = Start(k) /\ Due(k)' = Due(k)
       /\ Start(n + 2)' = Len(stream) + Len(i.bytes) /\ Due(n + 2)' = Len(expected')
       /\ \A k \in 0 .. n : Sound(k)' = Sound(k)
       /\ Sound(n + 1)' = (Sound(n) /\ ~ Fatal(i) /\ ~ Misleads(i))
       /\ Start(n + 1) = Len(stream) /\ Due(n + 1) = Len(expected)
  <2>1. n \in Nat /\ Len(wire) = n
    BY <1>0
  <2>2. Start(n + 1) = Len(stream) /\ Due(n + 1) = Len(expected)
    BY <2>1 DEF Start, Due
  <2>3. ASSUME NEW k \in 1 .. (n + 1)
        PROVE  Start(k)' = Start(k) /\ Due(k)' = Due(k)
    <3>1. Start(k)' = wire'[k].start /\ Due(k)' = wire'[k].due
      <4>1. ~ (k > Len(wire'))
        BY <1>5, <2>1
      <4> QED
        BY <4>1 DEF Start, Due
    <3>2. CASE k = n + 1
      BY <1>5, <1>6, <2>2, <3>1, <3>2
    <3>3. CASE k # n + 1
      <4>1. k \in 1 .. n
        BY <2>1, <3>3
      <4>2. Start(k) = wire[k].start /\ Due(k) = wire[k].due
        BY <1>2, <2>1, <4>1
      <4> QED
        BY <1>5, <3>1, <4>1, <4>2
    <3> QED
      BY <3>2, <3>3
  <2>4. Start(n + 2)' = Len(stream) + Len(i.bytes) /\ Due(n + 2)' = Len(expected')
    <3>1. n + 2 > Len(wire')
      BY <1>5, <2>1
    <3> QED
      BY <1>7, <3>1 DEF Start, Due
  <2>5. ASSUME NEW k \in 0 .. n
        PROVE  Sound(k)' = Sound(k)
    <3>1. \A j \in 1 .. k : j \in 1 .. n
      BY <2>1
    <3>2. \A j \in 1 .. n : wire'[j] = wire[j]
      BY <1>5
    <3>3. \A j \in 1 .. k : wire'[j] = wire[j]
      BY <3>1, <3>2
    <3> QED
      BY <3>3 DEF Sound
  <2>6. Sound(n + 1)' = (Sound(n) /\ ~ Fatal(i) /\ ~ Misleads(i))
    <3>1. \A j \in 1 .. (n + 1) : j \in 1 .. n \/ j = n + 1
      BY <2>1
    <3>2. n + 1 \in 1 .. (n + 1) /\ \A j \in 1 .. n : j \in 1 .. (n + 1)
      BY <2>1
    <3>3. wire'[n + 1].item = i
      BY <1>5, <1>6
    <3> QED
      BY <1>5, <3>1, <3>2, <3>3 DEF Sound
  <2> QED
    BY <2>2, <2>3, <2>4, <2>5, <2>6
<1>11. Layout'
  <2>1. n \in Nat /\ Len(wire) = n /\ Len(wire') = n + 1
    BY <1>0, <1>5
  <2>2. Start(1)' = 0 /\ Due(1)' = 0
    <3>1. 1 \in 1 .. (n + 1)
      BY <2>1
    <3> QED
      BY <1>1, <1>10, <3>1 DEF Layout
  <2>3. ASSUME NEW k \in 1 .. (n + 1)
        PROVE  (/\ Start(k + 1) = Start(k) + Len(wire[k].item.bytes)
                /\ Start(k + 1) <= Len(stream)
                /\ \A j \in 1 .. Len(wire[k].item.bytes) :
                     stream[Start(k) + j] = wire[k].item.bytes[j]
                /\ Due(k) <= Len(expected)
                /\ IF Sound(k)
                   THEN IF Welcome(wire[k].item)
                        THEN Due(k + 1) = Due(k) + 1 /\ expected[Due(k) + 1] = wire[k].item.msg
                        ELSE Due(k + 1) = Due(k)
                   ELSE Due(k) = Len(expected))'
    <3>1. CASE k = n + 1
      <4>1. /\ wire'[k].item = i /\ Start(k)' = Len(stream) /\ Due(k)' = Len(expected)
            /\ k + 1 = n + 2
        BY <1>5, <1>6, <1>10, <2>1, <3>1
      <4>2. /\ Start(k + 1)' = Len(stream) + Len(i.bytes) /\ Start(k + 1)' = Len(stream')
            /\ Start(k + 1)' <= Len(stream')
        BY <1>2, <1>4, <1>7, <1>10, <4>1
      <4>3. \A j \in 1 .. Len(i.bytes) : stream'[Len(stream) + j] = i.bytes[j]
        <5>1. \A j \in 1 .. Len(i.bytes) : /\ Len(stream) + j \in 1 .. Len(stream')
                                          /\ ~ (Len(stream) + j <= Len(stream))
                                          /\ Len(stream) + j - Len(stream) = j
          BY <1>2, <1>4, <1>7
        <5> QED
          BY <1>7, <5>1
      <4>4. Len(expected) <= Len(expected')
        BY <1>2, <1>8
      <4>5. IF Sound(k)'
            THEN IF Welcome(i)
                 THEN Due(k + 1)' = Len(expected) + 1 /\ expected'[Len(expected) + 1] = i.msg
                 ELSE Due(k + 1)' = Len(expected)
            ELSE Len(expected) = Len(expected')
        <5>1. Welcome(i) => ~ Fatal(i) /\ ~ Misleads(i)
          BY DEF Welcome, Fatal, Misleads
        <5> QED
          BY <1>8, <1>10, <3>1, <4>1, <5>1
      <4> QED
        BY <4>1, <4>2, <4>3, <4>4, <4>5
    <3>2. CASE k # n + 1
      <4>1. k \in 1 .. n /\ k + 1 \in 1 .. (n + 1) /\ k \in 0 .. n
        BY <2>1, <3>2
      <4>2. /\ wire'[k] = wire[k] /\ Start(k)' = Start(k) /\ Due(k)' = Due(k)
            /\ Start(k + 1)' = Start(k + 1) /\ Due(k + 1)' = Due(k + 1) /\ Sound(k)' = Sound(k)
        BY <1>5, <1>10, <4>1
      <4>3. /\ Start(k + 1) = Start(k) + Len(wire[k].item.bytes)
            /\ Start(k + 1) <= Len(stream)
            /\ \A j \in 1 .. Len(wire[k].item.bytes) :
                 stream[Start(k) + j] = wire[k].item.bytes[j]
            /\ Due(k) <= Len(expected)
            /\ IF Sound(k)
               THEN IF Welcome(wire[k].item)
                    THEN Due(k + 1) = Due(k) + 1 /\ expected[Due(k) + 1] = wire[k].item.msg
                    ELSE Due(k + 1) = Due(k)
               ELSE Due(k) = Len(expected)
        BY <1>1, <2>1, <4>1 DEF Layout
      <4>4. wire[k].item \in Sent /\ Start(k) \in Nat /\ Due(k) \in Nat
        BY <1>2, <2>1, <4>1
      <4>5. Len(wire[k].item.bytes) \in Nat
        BY <4>4, SentItem
      <4>9. /\ Len(stream) \in Nat /\ Len(stream') \in Nat /\ Len(stream) <= Len(stream')
            /\ Len(expected) \in Nat /\ Len(expected') \in Nat
            /\ Len(expected) <= Len(expected')
        <5>1. Len(expected) \in Nat /\ Len(stream) \in Nat
          BY <1>2
        <5>2. Len(expected') = Len(expected) + 1 \/ Len(expected') = Len(expected)
          BY <1>8
        <5>3. Len(stream') = Len(stream) + Len(i.bytes)
          BY <1>7
        <5> QED
          BY <1>4, <5>1, <5>2, <5>3
      <4>10. Start(k) + Len(wire[k].item.bytes) = Start(k + 1) /\ Start(k + 1) <= Len(stream)
             /\ Due(k) <= Len(expected)
        BY <4>3
      <4>6. Start(k + 1) <= Len(stream') /\ Due(k) <= Len(expected')
        BY <4>4, <4>5, <4>9, <4>10, SMTT(30)
      <4>7. \A j \in 1 .. Len(wire[k].item.bytes) : stream'[Start(k) + j] = wire[k].item.bytes[j]
        <5>1. ASSUME NEW j \in 1 .. Len(wire[k].item.bytes)
              PROVE  /\ Start(k) + j \in 1 .. Len(stream') /\ Start(k) + j <= Len(stream)
          <6>1. j \in Nat /\ j >= 1 /\ j <= Len(wire[k].item.bytes)
            BY <4>5
          <6>2. Start(k) + j <= Len(stream)
            BY <4>4, <4>5, <4>9, <4>10, <6>1, SMTT(30)
          <6> QED
            BY <4>4, <4>9, <6>1, <6>2
        <5> QED
          BY <1>7, <4>3, <5>1
      <4>8. ASSUME Sound(k), Welcome(wire[k].item)
            PROVE  expected'[Due(k) + 1] = wire[k].item.msg
        <5>1. Due(k + 1) = Due(k) + 1 /\ Due(k + 1) \in 0 .. Len(expected)
          BY <1>2, <2>1, <4>1, <4>3, <4>8
        <5>2. Due(k) + 1 \in 1 .. Len(expected)
          BY <1>2, <4>4, <5>1
        <5> QED
          BY <1>8, <4>3, <4>8, <5>2
      <4>11. ASSUME ~ Sound(k)
             PROVE  Due(k) = Len(expected')
        <5>1. ~ Sound(n)
          <6>1. \A j \in 1 .. k : j \in 1 .. n
            BY <2>1, <4>1
          <6> QED
            BY <4>11, <6>1 DEF Sound
        <5> QED
          BY <1>8, <4>3, <4>11, <5>1
      <4> QED
        BY <4>2, <4>3, <4>6, <4>7, <4>8, <4>11
    <3> QED
      BY <3>1, <3>2
  <2> QED
    BY <2>1, <2>2, <2>3 DEF Layout
<1>12. Ordered'
  <2>1. n \in Nat /\ Len(wire) = n /\ Len(wire') = n + 1
    BY <1>0, <1>5
  <2>2. ASSUME NEW j \in 1 .. (n + 1), NEW k \in 1 .. (n + 1), j <= k
        PROVE  Start(j)' <= Start(k)'
    <3>1. Start(j)' = Start(j) /\ Start(k)' = Start(k)
      BY <1>10
    <3>2. CASE k = n + 1
      <4>1. Start(k) = Len(stream)
        BY <1>10, <3>2
      <4>2. Start(j) \in 0 .. Len(stream) /\ Len(stream) \in Nat
        BY <1>2, <2>1
      <4> QED
        BY <3>1, <4>1, <4>2
    <3>3. CASE k # n + 1
      <4>1. j \in 1 .. n /\ k \in 1 .. n
        BY <2>1, <2>2, <3>3
      <4> QED
        BY <1>1, <2>1, <2>2, <3>1, <4>1 DEF Ordered
    <3> QED
      BY <3>2, <3>3
  <2> QED
    BY <2>1, <2>2 DEF Ordered
<1>13. ASSUME NEW k \in 1 .. (n + 1), AtItem(k)
       PROVE  AtItem(k)'
  <2>1. n \in Nat /\ Len(wire) = n /\ Len(wire') = n + 1
    BY <1>0, <1>5
  <2>2. /\ erased = Start(k) /\ Sound(k - 1) /\ handled = SubSeq(expected, 1, Due(k))
        /\ ~ looping /\ running /\ fate = "live" /\ erased < received =>
             /\ k <= Len(wire)
             /\ received < erased + Len(wire[k].item.bytes) \/ Misleads(wire[k].item)
    BY <1>13 DEF AtItem
  <2>3. erased' = Start(k)' /\ handled' = SubSeq(expected', 1, Due(k)')
    <3>1. Start(k)' = Start(k) /\ Due(k)' = Due(k)
      BY <1>10
    <3>2. Due(k) \in 0 .. Len(expected)
      BY <1>2, <2>1
    <3> QED
      BY <1>3, <1>8, <2>2, <3>1, <3>2
  <2>4. Sound(k - 1)'
    <3>1. k - 1 \in 0 .. n
      BY <2>1
    <3> QED
      BY <1>10, <2>2, <3>1
  <2>5. ASSUME ~ looping, running, fate = "live", erased < received
        PROVE  /\ k <= Len(wire')
               /\ received < erased + Len(wire'[k].item.bytes) \/ Misleads(wire'[k].item)
    <3>1. /\ k \in 1 .. n
          /\ received < erased + Len(wire[k].item.bytes) \/ Misleads(wire[k].item)
      BY <2>1, <2>2, <2>5
    <3>2. wire'[k] = wire[k] /\ k <= Len(wire')
      BY <1>5, <2>1, <3>1
    <3> QED
      BY <3>1, <3>2
  <2> QED
    BY <1>3, <2>3, <2>4, <2>5 DEF AtItem
<1>14. ASSUME Astray
       PROVE  Astray'
  <2>1. adrift' /\ expected' = expected
    BY <1>1, <1>14, SendAdrift DEF Astray
  <2> QED
    BY <1>3, <1>14, <2>1 DEF Astray
<1>15. \A k \in 1 .. (n + 1) : k \in 1 .. (Len(wire') + 1)
  BY <1>0, <1>5
<1>16. Thrown'
  <2>1. SUFFICES ASSUME fate' = "terminated" PROVE Astray' \/ (handled' = expected' /\ ~ Sound(Len(wire))')
    BY DEF Thrown
  <2>2. CASE Astray
    BY <1>14, <2>2
  <2>3. CASE handled = expected /\ ~ Sound(Len(wire))
    <3>1. ~ Sound(n)
      BY <1>0, <2>3
    <3>2. expected' = expected /\ handled' = handled
      BY <1>3, <3>1
    <3>3. ~ Sound(n + 1)'
      BY <1>10, <3>1
    <3>4. Len(wire)' = n + 1
      BY <1>5
    <3> QED
      BY <2>3, <3>2, <3>3, <3>4
  <2> QED
    BY <1>3, <2>1, <2>2, <2>3 DEF FramingInv, Thrown
<1> QED
  BY <1>0, <1>9, <1>11, <1>12, <1>13, <1>14, <1>15, <1>16 DEF FramingInv

\* A step of the client leaves what the server sent, and its layout, alone.
LEMMA ClientStep ==
  ASSUME UNCHANGED serverVars
  PROVE  /\ wire' = wire /\ stream' = stream /\ expected' = expected
         /\ \A k : Start(k)' = Start(k) /\ Due(k)' = Due(k) /\ Sound(k)' = Sound(k)
         /\ Layout => Layout'
         /\ Ordered => Ordered'
<1>1. wire' = wire /\ stream' = stream /\ expected' = expected
  BY DEF serverVars
<1>2. ASSUME NEW k
      PROVE  Start(k)' = Start(k) /\ Due(k)' = Due(k) /\ Sound(k)' = Sound(k)
  BY <1>1 DEF Start, Due, Sound
<1>3. Layout => Layout'
  BY <1>1 DEF Layout, Start, Due, Sound
<1>4. Ordered => Ordered'
  BY <1>1 DEF Ordered, Start
<1> QED
  BY <1>1, <1>2, <1>3, <1>4

\* An item that misleads is not before one that the client has found its way to.
LEMMA StartsAhead ==
  ASSUME FramingInv, NEW k \in 1 .. (Len(wire) + 1), Sound(k - 1)
  PROVE  /\ Start(k) \in Nat
         /\ \A j \in 1 .. Len(wire) : Misleads(wire[j].item) => ~ (Start(k) > wire[j].start)
<1>1. FramingTypeOK /\ Layout /\ Ordered
  BY DEF FramingInv
<1>2. /\ Len(wire) \in Nat /\ Len(stream) \in Nat
      /\ \A j \in 1 .. Len(wire) : Start(j) = wire[j].start /\ Start(j) \in Nat
      /\ Start(k) \in 0 .. Len(stream)
  BY <1>1, Within
<1>3. ASSUME NEW j \in 1 .. Len(wire), Misleads(wire[j].item)
      PROVE  ~ (Start(k) > wire[j].start)
  <2>1. ~ (j \in 1 .. (k - 1))
    BY <1>3 DEF Sound
  <2>2. k \in 1 .. Len(wire) /\ k <= j
    BY <1>2, <2>1
  <2>3. Start(k) <= Start(j)
    BY <1>1, <2>2 DEF Ordered
  <2>4. Start(k) \in Nat /\ Start(j) \in Nat /\ Start(j) = wire[j].start
    BY <1>2, <2>2
  <2> QED
    BY <2>3, <2>4
<1> QED
  BY <1>2, <1>3

\* A client that is at an item is not adrift.
LEMMA OnCourse ==
  ASSUME FramingInv, NEW k \in 1 .. (Len(wire) + 1), AtItem(k)
  PROVE  ~ adrift
<1>1. erased = Start(k) /\ Sound(k - 1)
  BY DEF AtItem
<1> QED
  BY <1>1, StartsAhead DEF adrift

\* The buffer is a range of the stream.
LEMMA BufferBytes ==
  ASSUME FramingTypeOK
  PROVE  /\ Len(stream) \in Nat /\ received \in Nat /\ erased \in Nat
         /\ tcp_receive_buffer \in Seq(Bytes)
         /\ Len(tcp_receive_buffer) = received - erased
         /\ \A j \in 1 .. (received - erased) : tcp_receive_buffer[j] = stream[erased + j]
<1>1. /\ stream \in Seq(Bytes) /\ Len(stream) \in Nat
      /\ received \in 0 .. Len(stream) /\ erased \in 0 .. received
  BY LenProperties DEF FramingTypeOK
<1>2. erased + 1 \in 1 .. (Len(stream) + 1) /\ received \in (erased + 1 - 1) .. Len(stream)
  BY <1>1
<1>3. /\ tcp_receive_buffer \in Seq(Bytes)
      /\ Len(tcp_receive_buffer) = received - (erased + 1) + 1
      /\ \A j \in 1 .. (received - (erased + 1) + 1) :
           tcp_receive_buffer[j] = stream[erased + 1 + j - 1]
  BY <1>1, <1>2, RangeElements DEF tcp_receive_buffer
<1>4. received - (erased + 1) + 1 = received - erased
  BY <1>1
<1>5. \A j \in 1 .. (received - erased) : erased + 1 + j - 1 = erased + j
  BY <1>1
<1> QED
  BY <1>1, <1>3, <1>4, <1>5

\* A buffer that is not empty starts with the bytes of the item it is at.
LEMMA FrontBytes ==
  ASSUME FramingInv, NEW k \in 1 .. (Len(wire) + 1), AtItem(k), erased < received
  PROVE  /\ k \in 1 .. Len(wire) /\ wire[k].item \in Sent
         /\ tcp_receive_buffer \in Seq(Bytes)
         /\ Len(tcp_receive_buffer) = received - erased /\ Len(tcp_receive_buffer) >= 1
         /\ \A j \in 1 .. Len(tcp_receive_buffer) :
              j <= Len(wire[k].item.bytes) => tcp_receive_buffer[j] = wire[k].item.bytes[j]
<1>1. FramingTypeOK /\ Layout
  BY DEF FramingInv
<1>2. Len(wire) \in Nat /\ Len(stream) \in Nat
  BY <1>1, Within
<1>3. /\ stream \in Seq(Bytes) /\ received \in 0 .. Len(stream) /\ erased \in 0 .. received
      /\ erased = Start(k)
  BY <1>1 DEF FramingTypeOK, AtItem
<1>4. k \in 1 .. Len(wire)
  <2>1. ASSUME k > Len(wire) PROVE FALSE
    <3>1. erased = Len(stream)
      BY <1>3, <2>1 DEF Start
    <3> QED
      BY <1>2, <1>3, <3>1
  <2> QED
    BY <1>2, <2>1
<1>5. wire[k].item \in Sent
  BY <1>1, <1>4, Within
<1>6. Len(wire[k].item.bytes) \in Nat
  BY <1>5, SentItem
<1>7. \A j \in 1 .. Len(wire[k].item.bytes) : stream[Start(k) + j] = wire[k].item.bytes[j]
  BY <1>1, <1>4 DEF Layout
<1>8. /\ received \in Nat /\ erased \in Nat /\ tcp_receive_buffer \in Seq(Bytes)
      /\ Len(tcp_receive_buffer) = received - erased
      /\ \A j \in 1 .. (received - erased) : tcp_receive_buffer[j] = stream[erased + j]
  BY <1>1, BufferBytes
<1>9. received - erased >= 1 /\ received - erased \in Nat
  BY <1>8
<1>10. ASSUME NEW j \in 1 .. (received - erased), j <= Len(wire[k].item.bytes)
       PROVE  tcp_receive_buffer[j] = wire[k].item.bytes[j]
  <2>1. j \in 1 .. Len(wire[k].item.bytes)
    BY <1>6, <1>9, <1>10
  <2> QED
    BY <1>3, <1>7, <1>8, <2>1
<1> QED
  BY <1>4, <1>5, <1>8, <1>9, <1>10

\* What is handled at an item is what was due before it.
LEMMA HandledBefore ==
  ASSUME FramingInv, NEW k \in 1 .. (Len(wire) + 1), AtItem(k)
  PROVE  Due(k) \in 0 .. Len(expected) /\ Len(handled) = Due(k)
<1>1. FramingTypeOK /\ Layout
  BY DEF FramingInv
<1>2. Due(k) \in 0 .. Len(expected) /\ Len(expected) \in Nat
  BY <1>1, Within
<1>3. /\ expected \in Seq(Messages) /\ 1 \in 1 .. (Len(expected) + 1)
      /\ Due(k) \in (1 - 1) .. Len(expected)
  BY <1>1, <1>2 DEF FramingTypeOK
<1>4. Len(SubSeq(expected, 1, Due(k))) = Due(k) - 1 + 1
  BY <1>3, RangeElements
<1> QED
  BY <1>2, <1>4 DEF AtItem

\* What is erased at an item whose header does not mislead is the whole item, which
\* is not fatal, and it is handled as the item was meant.
LEMMA Erased ==
  ASSUME FramingInv, NEW k \in 1 .. (Len(wire) + 1), AtItem(k), EraseFront,
         ~ Misleads(wire[k].item)
  PROVE  /\ k \in 1 .. Len(wire)
         /\ erased' = Start(k + 1) /\ erased' \in 0 .. received
         /\ Sound(k)
         /\ Handle(SubSeq(stream, erased + 1, erased')) =
              IF Welcome(wire[k].item) THEN wire[k].item.msg ELSE None
         /\ wire[k].item.msg \in Messages /\ wire[k].item.msg # None
         /\ IF Welcome(wire[k].item)
            THEN /\ Due(k + 1) = Due(k) + 1 /\ Due(k) \in 0 .. (Len(expected) - 1)
                 /\ expected[Due(k) + 1] = wire[k].item.msg
            ELSE Due(k + 1) = Due(k)
<1> DEFINE i == wire[k].item
           b == wire[k].item.bytes
           buf == tcp_receive_buffer
<1>1. FramingTypeOK /\ Layout
  BY DEF FramingInv
<1>2. /\ erased < received /\ ~ Throws(buf) /\ Len(buf) >= Needed(buf)
      /\ erased' = erased + Needed(buf)
  BY DEF EraseFront
<1>3. /\ k \in 1 .. Len(wire) /\ i \in Sent /\ buf \in Seq(Bytes)
      /\ Len(buf) = received - erased /\ Len(buf) >= 1
      /\ \A j \in 1 .. Len(buf) : j <= Len(b) => buf[j] = b[j]
  <2> HIDE DEF buf
  <2>1. erased < received
    BY <1>2
  <2> QED
    BY <2>1, FrontBytes DEF buf
<1>4. /\ b \in Seq(Bytes) /\ Len(b) \in Nat /\ Len(b) >= 2 /\ i.msg \in Messages /\ i.msg # None
  BY <1>3, SentItem
<1>5. ~ Fatal(i) /\ Needed(buf) = Len(b)
  <2>1. /\ \A j \in 1 .. Len(buf) : j <= Len(i.bytes) => buf[j] = i.bytes[j]
        /\ ~ Misleads(i)
    BY <1>3
  <2> HIDE DEF buf, i
  <2> QED
    BY <1>2, <1>3, <2>1, FrontItem DEF b, i
<1>6. /\ Start(k + 1) = Start(k) + Len(b) /\ Start(k + 1) <= Len(stream)
      /\ \A j \in 1 .. Len(b) : stream[Start(k) + j] = b[j]
      /\ Sound(k) => IF Welcome(i)
                     THEN Due(k + 1) = Due(k) + 1 /\ expected[Due(k) + 1] = i.msg
                     ELSE Due(k + 1) = Due(k)
  BY <1>1, <1>3 DEF Layout
<1>7. erased = Start(k) /\ Sound(k - 1)
  BY DEF AtItem
<1>8. /\ stream \in Seq(Bytes) /\ Len(stream) \in Nat /\ Len(expected) \in Nat
      /\ received \in 0 .. Len(stream) /\ erased \in 0 .. received
  BY <1>1, Within DEF FramingTypeOK
<1>9. erased' = erased + Len(b) /\ erased' = Start(k + 1) /\ erased' \in 0 .. received
  <2>1. erased' = erased + Len(b) /\ received - erased >= Len(b)
    BY <1>2, <1>3, <1>5
  <2>2. erased + Len(b) \in 0 .. received
    BY <1>4, <1>8, <2>1
  <2> QED
    BY <1>6, <1>7, <2>1, <2>2
<1>10. Sound(k)
  <2>1. Len(wire) \in Nat
    BY <1>1, Within
  <2>2. \A j \in 1 .. k : j = k \/ j \in 1 .. (k - 1)
    BY <2>1
  <2> QED
    BY <1>5, <1>7, <2>2 DEF Sound
<1> HIDE DEF i, b, buf
<1>11. SubSeq(stream, erased + 1, erased') = b
  <2>0. erased + 1 \in Nat /\ erased' \in Nat
    BY <1>8, <1>9
  <2>1. PICK m \in Nat, e \in Nat : m = erased + 1 /\ e = erased'
    BY <2>0, Zenon
  <2>2. /\ m \in 1 .. (Len(stream) + 1) /\ e \in (m - 1) .. Len(stream) /\ e - m + 1 = Len(b)
    BY <1>4, <1>8, <1>9, <2>1
  <2> DEFINE r == SubSeq(stream, m, e)
  <2>3. /\ r \in Seq(Bytes)
        /\ Len(r) = e - m + 1
        /\ \A j \in 1 .. (e - m + 1) : r[j] = stream[m + j - 1]
    <3>1. stream \in Seq(Bytes)
      BY <1>8
    <3> QED
      BY <2>2, <3>1, RangeElements
  <2> HIDE DEF r
  <2>4. ASSUME NEW j \in 1 .. Len(b) PROVE r[j] = b[j]
    <3>1. m + j - 1 = Start(k) + j
      BY <1>4, <1>7, <1>8, <2>1
    <3>2. r[j] = stream[m + j - 1]
      BY <2>2, <2>3
    <3> QED
      BY <1>6, <3>1, <3>2
  <2>5. r = b
    BY <1>4, <2>2, <2>3, <2>4, SeqEqual
  <2> QED
    BY <2>1, <2>5 DEF r
<1>12. Handle(b) = IF Welcome(i) THEN i.msg ELSE None
  <2>1. Handle(i.bytes) = IF Welcome(i) THEN i.msg ELSE None
    <3>1. ~ Misleads(i)
      BY DEF i
    <3> QED
      BY <1>3, <1>5, <3>1, HandledAssumption
  <2> QED
    BY <2>1 DEF b, i
<1>13. ASSUME Welcome(i)
       PROVE  Due(k) \in 0 .. (Len(expected) - 1)
  <2>1. k + 1 \in 1 .. (Len(wire) + 1) /\ k \in 1 .. (Len(wire) + 1)
    <3>1. Len(wire) \in Nat
      BY <1>1, Within
    <3> QED
      BY <1>3, <3>1
  <2>2. Due(k + 1) \in 0 .. Len(expected) /\ Due(k) \in 0 .. Len(expected)
    BY <1>1, <2>1, Within
  <2>3. Due(k + 1) = Due(k) + 1
    BY <1>6, <1>10, <1>13
  <2> QED
    BY <1>8, <2>2, <2>3
<1> QED
  BY <1>3, <1>4, <1>6, <1>9, <1>10, <1>11, <1>12, <1>13 DEF i

-----------------------------------------------------------------------------
(* The client's steps keep the invariant *)

\* A step that erases and handles nothing leaves the client where it is, as long as
\* it does not wait for bytes with a whole item in the buffer.
LEMMA QuietStep ==
  ASSUME FramingInv, UNCHANGED serverVars, UNCHANGED <<erased, handled>>, FramingTypeOK',
         fate' = fate \/ (handled = expected /\ ~ Sound(Len(wire))) \/ Astray,
         \A k \in 1 .. (Len(wire) + 1) : AtItem(k) =>
           (~ looping' /\ running' /\ fate' = "live" /\ erased < received' =>
              /\ k <= Len(wire)
              /\ received' < erased + Len(wire[k].item.bytes) \/ Misleads(wire[k].item))
  PROVE  FramingInv' /\ adrift' = adrift
<1>1. /\ wire' = wire /\ stream' = stream /\ expected' = expected
      /\ \A k : Start(k)' = Start(k) /\ Due(k)' = Due(k) /\ Sound(k)' = Sound(k)
      /\ Layout => Layout'
      /\ Ordered => Ordered'
  BY ClientStep
<1>2. Layout' /\ Ordered'
  BY <1>1 DEF FramingInv
<1>3. adrift' = adrift /\ Astray' = Astray
  <2>1. adrift' = adrift
    BY <1>1 DEF adrift
  <2> QED
    BY <1>1, <2>1 DEF Astray
<1>4. Thrown'
  <2>1. Sound(Len(wire))' = Sound(Len(wire))
    BY <1>1 DEF Sound
  <2> QED
    BY <1>1, <1>3, <2>1 DEF FramingInv, Thrown
<1>5. CASE Astray
  BY <1>2, <1>3, <1>4, <1>5 DEF FramingInv
<1>6. ASSUME NEW k \in 1 .. (Len(wire) + 1), AtItem(k)
      PROVE  AtItem(k)'
  <2>1. /\ erased = Start(k) /\ Sound(k - 1) /\ handled = SubSeq(expected, 1, Due(k))
    BY <1>6 DEF AtItem
  <2>2. ~ looping' /\ running' /\ fate' = "live" /\ erased < received' =>
          /\ k <= Len(wire)
          /\ received' < erased + Len(wire[k].item.bytes) \/ Misleads(wire[k].item)
    BY <1>6
  <2>3. erased' = Start(k)' /\ Sound(k - 1)' /\ handled' = SubSeq(expected', 1, Due(k)')
    BY <1>1, <2>1
  <2> QED
    BY <1>1, <2>2, <2>3 DEF AtItem
<1> QED
  BY <1>1, <1>2, <1>3, <1>4, <1>5, <1>6 DEF FramingInv

LEMMA RecvInv ==
  ASSUME FramingInv, Recv
  PROVE  FramingInv' /\ adrift' = adrift
<1>1. FramingTypeOK
  BY DEF FramingInv
<1>2. /\ received' \in received + 1 .. Len(stream) /\ looping' = TRUE
      /\ UNCHANGED serverVars /\ UNCHANGED <<erased, running, fate, handled>>
  BY DEF Recv
<1>3. received' \in 0 .. Len(stream) /\ erased \in 0 .. received'
  <2>1. Len(stream) \in Nat
    BY <1>1, BufferBytes
  <2>2. received \in 0 .. Len(stream) /\ erased \in 0 .. received
    BY <1>1 DEF FramingTypeOK
  <2> QED
    BY <1>2, <2>1, <2>2
<1>4. FramingTypeOK'
  <2>1. wire' = wire /\ stream' = stream /\ expected' = expected
    BY <1>2, ClientStep
  <2> QED
    BY <1>1, <1>2, <1>3, <2>1 DEF FramingTypeOK
<1> QED
  BY <1>2, <1>4, QuietStep

\* Taking a message, on course or not, costs bytes that the buffer holds, and hands
\* on one message at most.
LEMMA TakeBytes ==
  ASSUME FramingInv, TakeMessage
  PROVE  /\ FramingTypeOK'
         /\ erased \in Nat /\ erased' \in Nat /\ erased' > erased
         /\ handled' = handled \/ \E x \in Readable : handled' = Append(handled, x)
<1>1. FramingTypeOK
  BY DEF FramingInv
<1>2. /\ ~ Throws(tcp_receive_buffer)
      /\ Len(tcp_receive_buffer) >= Needed(tcp_receive_buffer)
      /\ erased' = erased + Needed(tcp_receive_buffer)
      /\ UNCHANGED serverVars /\ UNCHANGED <<looping, received, running, fate>>
      /\ HandleFront
  BY DEF TakeMessage, EraseFront
<1>3. /\ Len(stream) \in Nat /\ received \in Nat /\ erased \in Nat
      /\ tcp_receive_buffer \in Seq(Bytes)
      /\ Len(tcp_receive_buffer) = received - erased
  BY <1>1, BufferBytes
<1>4. Needed(tcp_receive_buffer) \in Nat /\ Needed(tcp_receive_buffer) >= 2
  BY <1>2, <1>3, NeededBytes
<1>5. received \in 0 .. Len(stream) /\ erased' \in 0 .. received /\ erased' >= erased + 2
  <2>1. received \in 0 .. Len(stream)
    BY <1>1 DEF FramingTypeOK
  <2> QED
    BY <1>2, <1>3, <1>4, <2>1
<1>6. PICK b \in Seq(Bytes) : b = SubSeq(stream, erased + 1, erased')
  <2>1. PICK m \in Nat, e \in Nat : m = erased + 1 /\ e = erased'
    <3>1. erased + 1 \in Nat /\ erased' \in Nat
      BY <1>3, <1>5
    <3> QED
      BY <3>1, Zenon
  <2>2. m \in 1 .. (Len(stream) + 1) /\ e \in (m - 1) .. Len(stream)
    BY <1>3, <1>5, <2>1
  <2>3. stream \in Seq(Bytes)
    BY <1>1 DEF FramingTypeOK
  <2>4. SubSeq(stream, m, e) \in Seq(Bytes)
    BY <2>2, <2>3, RangeElements
  <2> QED
    BY <2>1, <2>4
<1>7. handled' = handled \/ \E x \in Readable : handled' = Append(handled, x)
  <2>1. Handle(b) \in Readable
    BY DEF Readable
  <2>2. handled' = handled \/ handled' = Append(handled, Handle(b))
    BY <1>2, <1>6 DEF HandleFront
  <2> QED
    BY <2>1, <2>2
<1>8. handled' \in Seq(Readable) /\ Len(handled') <= erased'
  <2>1. handled \in Seq(Readable) /\ Len(handled) \in Nat /\ Len(handled) <= erased
    BY <1>1, LenProperties DEF FramingTypeOK
  <2>2. CASE handled' = handled
    BY <1>3, <1>5, <2>1, <2>2
  <2>3. ASSUME NEW x \in Readable, handled' = Append(handled, x)
        PROVE  handled' \in Seq(Readable) /\ Len(handled') <= erased'
    <3>1. handled' \in Seq(Readable) /\ Len(handled') = Len(handled) + 1
      BY <2>1, <2>3, AppendProperties
    <3> QED
      BY <1>3, <1>5, <2>1, <3>1
  <2> QED
    BY <1>7, <2>2, <2>3
<1>9. wire' = wire /\ stream' = stream /\ expected' = expected
  BY <1>2, ClientStep
<1>10. FramingTypeOK'
  BY <1>1, <1>2, <1>5, <1>8, <1>9 DEF FramingTypeOK
<1> QED
  BY <1>3, <1>5, <1>7, <1>10

\* What is handled adrift comes after what was expected.
LEMMA Prefix ==
  ASSUME FramingTypeOK, expected' = expected,
         Len(handled) >= Len(expected), SubSeq(handled, 1, Len(expected)) = expected,
         handled' = handled \/ \E x \in Readable : handled' = Append(handled, x)
  PROVE  /\ Len(handled') >= Len(expected')
         /\ SubSeq(handled', 1, Len(expected')) = expected'
<1>1. /\ handled \in Seq(Readable) /\ Len(handled) \in Nat /\ Len(expected) \in Nat
      /\ Len(expected) \in 0 .. Len(handled)
  BY LenProperties DEF FramingTypeOK
<1>2. ASSUME NEW x \in Readable, handled' = Append(handled, x)
      PROVE  /\ Len(handled') >= Len(expected)
             /\ SubSeq(handled', 1, Len(expected)) = expected
  <2>1. Len(Append(handled, x)) = Len(handled) + 1
    BY <1>1, AppendProperties
  <2>2. SubSeq(Append(handled, x), 1, Len(expected)) = SubSeq(handled, 1, Len(expected))
    BY <1>1, AppendedRanges
  <2> QED
    BY <1>1, <1>2, <2>1, <2>2
<1> QED
  BY <1>2

\* A client that is adrift stays so.
LEMMA TakeAdrift ==
  ASSUME FramingInv, Astray, TakeMessage
  PROVE  Astray'
<1>1. FramingTypeOK /\ Layout
  BY DEF FramingInv
<1>2. /\ erased \in Nat /\ erased' \in Nat /\ erased' > erased
      /\ handled' = handled \/ \E x \in Readable : handled' = Append(handled, x)
  BY TakeBytes
<1>3. wire' = wire /\ expected' = expected
  BY ClientStep DEF TakeMessage, EraseFront
<1>4. PICK k \in 1 .. Len(wire) : Misleads(wire[k].item) /\ erased > wire[k].start
  BY DEF Astray, adrift
<1>5. erased' > wire[k].start
  <2>1. wire[k].start \in Nat
    BY <1>1, Within
  <2> QED
    BY <1>2, <1>4, <2>1
<1>6. adrift'
  BY <1>3, <1>4, <1>5 DEF adrift
<1>7. Len(handled') >= Len(expected') /\ SubSeq(handled', 1, Len(expected')) = expected'
  BY <1>1, <1>2, <1>3, Prefix DEF Astray
<1> QED
  BY <1>6, <1>7 DEF Astray

\* At an item that misleads everything expected is handled, and the client goes
\* adrift when it takes what the header announces.
LEMMA TakeAstray ==
  ASSUME FramingInv, NEW k \in 1 .. (Len(wire) + 1), AtItem(k), TakeMessage,
         Misleads(wire[k].item)
  PROVE  handled = expected /\ Astray'
<1>1. FramingTypeOK /\ Layout
  BY DEF FramingInv
<1>2. erased < received
  BY DEF TakeMessage, EraseFront
<1>3. k \in 1 .. Len(wire)
  BY <1>2, FrontBytes
<1>4. ~ Sound(k)
  <2>1. k \in 1 .. k
    BY <1>3
  <2> QED
    BY <2>1 DEF Sound
<1>5. Due(k) = Len(expected)
  BY <1>1, <1>3, <1>4 DEF Layout
<1>6. expected \in Seq(Messages) /\ Len(expected) \in Nat
  BY <1>1, LenProperties DEF FramingTypeOK
<1>7. SubSeq(expected, 1, Len(expected)) = expected
  BY <1>6
<1>8. handled = expected
  BY <1>5, <1>7 DEF AtItem
<1>9. /\ erased \in Nat /\ erased' \in Nat /\ erased' > erased
      /\ handled' = handled \/ \E x \in Readable : handled' = Append(handled, x)
  BY TakeBytes
<1>10. wire' = wire /\ expected' = expected
  BY ClientStep DEF TakeMessage, EraseFront
<1>11. adrift'
  <2>1. wire[k].start = erased
    BY <1>1, <1>3, Within DEF AtItem
  <2> QED
    BY <1>3, <1>9, <1>10, <2>1 DEF adrift
<1>12. Len(handled) >= Len(expected) /\ SubSeq(handled, 1, Len(expected)) = expected
  BY <1>6, <1>7, <1>8
<1>13. Len(handled') >= Len(expected') /\ SubSeq(handled', 1, Len(expected')) = expected'
  BY <1>1, <1>9, <1>10, <1>12, Prefix
<1> QED
  BY <1>8, <1>11, <1>13 DEF Astray

\* Otherwise the item is taken, and the buffer starts with the next one.
LEMMA TakeOnCourse ==
  ASSUME FramingInv, NEW k \in 1 .. (Len(wire) + 1), AtItem(k), TakeMessage,
         ~ Misleads(wire[k].item)
  PROVE  k + 1 \in 1 .. (Len(wire') + 1) /\ AtItem(k + 1)' /\ ~ adrift'
<1>1. FramingTypeOK /\ Layout
  BY DEF FramingInv
<1>2. /\ EraseFront /\ HandleFront /\ looping /\ looping' = looping
      /\ UNCHANGED serverVars
  BY DEF TakeMessage, EraseFront
<1>3. /\ wire' = wire /\ stream' = stream /\ expected' = expected
      /\ \A j : Start(j)' = Start(j) /\ Due(j)' = Due(j) /\ Sound(j)' = Sound(j)
  BY <1>2, ClientStep
<1>4. /\ k \in 1 .. Len(wire)
      /\ erased' = Start(k + 1)
      /\ Sound(k)
      /\ Handle(SubSeq(stream, erased + 1, erased')) =
           IF Welcome(wire[k].item) THEN wire[k].item.msg ELSE None
      /\ wire[k].item.msg # None
      /\ IF Welcome(wire[k].item)
         THEN /\ Due(k + 1) = Due(k) + 1 /\ Due(k) \in 0 .. (Len(expected) - 1)
              /\ expected[Due(k) + 1] = wire[k].item.msg
         ELSE Due(k + 1) = Due(k)
  BY <1>2, Erased
<1>5. handled = SubSeq(expected, 1, Due(k))
  BY DEF AtItem
<1>6. handled' = SubSeq(expected, 1, Due(k + 1))
  <2>1. CASE Welcome(wire[k].item)
    <3>1. handled' = Append(handled, wire[k].item.msg)
      BY <1>2, <1>4, <2>1 DEF HandleFront
    <3>2. /\ Due(k + 1) = Due(k) + 1 /\ Due(k) \in 0 .. (Len(expected) - 1)
          /\ expected[Due(k) + 1] = wire[k].item.msg
      BY <1>4, <2>1
    <3>3. expected \in Seq(Messages)
      BY <1>1 DEF FramingTypeOK
    <3>4. Append(SubSeq(expected, 1, Due(k)), expected[Due(k) + 1]) =
            SubSeq(expected, 1, Due(k) + 1)
      BY <3>2, <3>3, NextElement
    <3> QED
      BY <1>5, <3>1, <3>2, <3>4
  <2>2. CASE ~ Welcome(wire[k].item)
    BY <1>2, <1>4, <1>5, <2>2 DEF HandleFront
  <2> QED
    BY <2>1, <2>2
<1>7. AtItem(k + 1)'
  <2>1. Start(k + 1)' = Start(k + 1) /\ Due(k + 1)' = Due(k + 1) /\ Sound(k)' = Sound(k)
    BY <1>3
  <2>2. k + 1 - 1 = k
    BY <1>4
  <2> QED
    <3>1. erased' = Start(k + 1)' /\ Sound(k + 1 - 1)'
      BY <1>4, <2>1, <2>2
    <3>2. handled' = SubSeq(expected', 1, Due(k + 1)')
      BY <1>3, <1>6, <2>1
    <3>3. looping'
      BY <1>2
    <3> QED
      BY <3>1, <3>2, <3>3 DEF AtItem
<1>8. k + 1 \in 1 .. (Len(wire') + 1)
  <2>1. Len(wire) \in Nat
    BY <1>1, Within
  <2> QED
    BY <1>3, <1>4, <2>1
<1>9. ~ adrift'
  <2>1. k + 1 \in 1 .. (Len(wire) + 1) /\ k + 1 - 1 = k
    BY <1>3, <1>4, <1>8
  <2>2. \A j \in 1 .. Len(wire) : Misleads(wire[j].item) => ~ (Start(k + 1) > wire[j].start)
    BY <1>4, <2>1, StartsAhead
  <2> QED
    BY <1>3, <1>4, <2>2 DEF adrift
<1> QED
  BY <1>7, <1>8, <1>9

LEMMA TakeInv ==
  ASSUME FramingInv, TakeMessage
  PROVE  FramingInv'
<1>1. FramingTypeOK' /\ Layout' /\ Ordered' /\ Thrown'
  <2>1. UNCHANGED serverVars /\ fate' # "terminated"
    BY DEF TakeMessage, EraseFront
  <2> QED
    BY <2>1, TakeBytes, ClientStep DEF FramingInv, Thrown
<1>2. CASE Astray
  <2>1. Astray'
    BY <1>2, TakeAdrift
  <2> QED
    BY <1>1, <2>1 DEF FramingInv
<1>3. ASSUME NEW k \in 1 .. (Len(wire) + 1), AtItem(k)
      PROVE  FramingInv'
  <2>1. CASE Misleads(wire[k].item)
    <3>1. Astray'
      BY <1>3, <2>1, TakeAstray
    <3> QED
      BY <1>1, <3>1 DEF FramingInv
  <2>2. CASE ~ Misleads(wire[k].item)
    <3>1. k + 1 \in 1 .. (Len(wire') + 1) /\ AtItem(k + 1)'
      BY <1>3, <2>2, TakeOnCourse
    <3> QED
      BY <1>1, <3>1 DEF FramingInv
  <2> QED
    BY <2>1, <2>2
<1> QED
  BY <1>2, <1>3 DEF FramingInv

\* The loop ends: if bytes are left, the item they start is not whole, or misleads.
LEMMA LeaveLoopInv ==
  ASSUME FramingInv, LeaveLoop
  PROVE  FramingInv' /\ adrift' = adrift
<1>1. FramingTypeOK
  BY DEF FramingInv
<1>2. /\ looping' = FALSE /\ UNCHANGED serverVars
      /\ UNCHANGED <<received, erased, running, fate, handled>>
      /\ \/ ~ running
         \/ erased = received
         \/ /\ erased < received /\ ~ Throws(tcp_receive_buffer)
            /\ Len(tcp_receive_buffer) < Needed(tcp_receive_buffer)
  BY DEF LeaveLoop
<1>3. FramingTypeOK'
  <2>1. wire' = wire /\ stream' = stream /\ expected' = expected
    BY <1>2, ClientStep
  <2> QED
    BY <1>1, <1>2, <2>1 DEF FramingTypeOK
<1>4. ASSUME NEW k \in 1 .. (Len(wire) + 1), AtItem(k), running, erased < received
      PROVE  /\ k <= Len(wire)
             /\ received < erased + Len(wire[k].item.bytes) \/ Misleads(wire[k].item)
  <2>1. /\ received \in Nat /\ erased \in Nat
        /\ tcp_receive_buffer \in Seq(Bytes)
        /\ Len(tcp_receive_buffer) = received - erased
    BY <1>1, BufferBytes
  <2>2. /\ ~ Throws(tcp_receive_buffer)
        /\ Len(tcp_receive_buffer) < Needed(tcp_receive_buffer)
    BY <1>2, <1>4, <2>1
  <2>3. /\ k \in 1 .. Len(wire) /\ wire[k].item \in Sent
        /\ Len(tcp_receive_buffer) >= 1
        /\ \A j \in 1 .. Len(tcp_receive_buffer) :
             j <= Len(wire[k].item.bytes) => tcp_receive_buffer[j] = wire[k].item.bytes[j]
    BY <1>4, FrontBytes
  <2>4. Len(wire[k].item.bytes) \in Nat
    BY <2>3, SentItem
  <2>5. Needed(tcp_receive_buffer) \in Nat
    BY <2>1, <2>2, NeededBytes
  <2>6. ~ (Len(tcp_receive_buffer) >= Needed(tcp_receive_buffer))
    BY <2>1, <2>2, <2>5
  <2>7. Misleads(wire[k].item) \/ Len(tcp_receive_buffer) < Len(wire[k].item.bytes)
    BY <2>1, <2>2, <2>3, <2>6, FrontItem
  <2>8. k <= Len(wire)
    <3>1. Len(wire) \in Nat
      BY <1>1, LenProperties DEF FramingTypeOK
    <3> QED
      BY <2>3, <3>1
  <2> QED
    BY <2>1, <2>4, <2>7, <2>8
<1> QED
  BY <1>2, <1>3, <1>4, QuietStep

\* After an exception, or stop(), no bytes are waited for.
LEMMA EndInv ==
  ASSUME FramingInv, ThrowBodyLength \/ stop
  PROVE  FramingInv' /\ adrift' = adrift
<1>1. FramingTypeOK
  BY DEF FramingInv
<1>2. /\ UNCHANGED serverVars /\ UNCHANGED <<received, erased, looping, handled>>
      /\ running' \in BOOLEAN /\ fate' \in {"live", "terminated"}
      /\ running' = FALSE \/ fate' = "terminated"
  BY <1>1 DEF ThrowBodyLength, stop, FramingTypeOK
<1>3. FramingTypeOK'
  <2>1. wire' = wire /\ stream' = stream /\ expected' = expected
    BY <1>2, ClientStep
  <2> QED
    BY <1>1, <1>2, <2>1 DEF FramingTypeOK
<1>4. fate' = fate \/ (handled = expected /\ ~ Sound(Len(wire))) \/ Astray
  <2>1. CASE stop
    BY <2>1 DEF stop
  <2>2. CASE ThrowBodyLength
    <3>1. erased < received /\ Throws(tcp_receive_buffer)
      BY <2>2 DEF ThrowBodyLength
    <3>2. ASSUME NEW k \in 1 .. (Len(wire) + 1), AtItem(k)
          PROVE  handled = expected /\ ~ Sound(Len(wire))
      <4>1. /\ k \in 1 .. Len(wire) /\ wire[k].item \in Sent
            /\ tcp_receive_buffer \in Seq(Bytes)
            /\ \A j \in 1 .. Len(tcp_receive_buffer) :
                 j <= Len(wire[k].item.bytes) => tcp_receive_buffer[j] = wire[k].item.bytes[j]
        BY <3>1, <3>2, FrontBytes
      <4>2. Fatal(wire[k].item)
        BY <3>1, <4>1, ThrowingItem
      <4>3. ~ Sound(k) /\ ~ Sound(Len(wire))
        <5>1. k \in 1 .. k /\ k \in 1 .. Len(wire)
          BY <4>1
        <5> QED
          BY <4>2, <5>1 DEF Sound
      <4>4. Due(k) = Len(expected)
        BY <4>1, <4>3 DEF FramingInv, Layout
      <4>5. handled = SubSeq(expected, 1, Len(expected))
        BY <3>2, <4>4 DEF AtItem
      <4>6. expected \in Seq(Messages)
        BY <1>1 DEF FramingTypeOK
      <4> QED
        BY <4>3, <4>5, <4>6
    <3> QED
      BY <3>2 DEF FramingInv
  <2> QED
    BY <2>1, <2>2
<1> QED
  BY <1>2, <1>3, <1>4, QuietStep

LEMMA StutterInv ==
  ASSUME FramingInv, UNCHANGED vars
  PROVE  FramingInv' /\ adrift' = adrift
<1>1. UNCHANGED serverVars /\ UNCHANGED <<received, erased, looping, running, fate, handled>>
  BY DEF vars
<1>2. FramingTypeOK'
  <2>1. wire' = wire /\ stream' = stream /\ expected' = expected
    BY <1>1, ClientStep
  <2> QED
    BY <1>1, <2>1 DEF FramingTypeOK, FramingInv
<1>3. ASSUME NEW k \in 1 .. (Len(wire) + 1), AtItem(k)
      PROVE  ~ looping' /\ running' /\ fate' = "live" /\ erased < received' =>
               /\ k <= Len(wire)
               /\ received' < erased + Len(wire[k].item.bytes) \/ Misleads(wire[k].item)
  BY <1>1, <1>3 DEF AtItem
<1> QED
  BY <1>1, <1>2, <1>3, QuietStep

LEMMA FramingNextInv == FramingInv /\ [Next]_vars => FramingInv'
<1> SUFFICES ASSUME FramingInv, [Next]_vars PROVE FramingInv'
  OBVIOUS
<1>1. CASE \E i \in Sent : Send(i)
  BY <1>1, SendInv
<1>2. CASE Recv
  BY <1>2, RecvInv
<1>3. CASE TakeMessage
  BY <1>3, TakeInv
<1>4. CASE LeaveLoop
  BY <1>4, LeaveLoopInv
<1>5. CASE ThrowBodyLength \/ stop
  BY <1>5, EndInv
<1>6. CASE UNCHANGED vars
  BY <1>6, StutterInv
<1> QED
  BY <1>1, <1>2, <1>3, <1>4, <1>5, <1>6 DEF Next

-----------------------------------------------------------------------------
(* The theorems *)

THEOREM FramingCorrect == Spec => []FramingInv
<1>1. Spec => Init /\ [][Next]_vars
  BY PTL DEF Spec
<1> QED
  BY <1>1, FramingInitInv, FramingNextInv, PTL

\* However recv splits the bytes, and whatever lengths their headers announce,
\* process_incoming_data erases no byte that it does not hold.
THEOREM FramingTypeCorrect == Spec => []TypeOK
<1>1. FramingInv => TypeOK
  BY InvImplies
<1> QED
  BY <1>1, FramingCorrect, PTL

\* Whenever process_incoming_data has returned to recv, and no header has misled it,
\* the buffer is empty or holds the beginning of one item, whose last byte has not
\* arrived or whose header misleads.
THEOREM FramingLeavesNoneWaiting == Spec => []NothingWholeWaits
<1>1. FramingInv => NothingWholeWaits
  BY InvImplies
<1> QED
  BY <1>1, FramingCorrect, PTL

\* When a BODY-LENGTH that is not BCD ends the program, everything that was sent before
\* it is handled, for every set of items and every way of cutting their bytes.
THEOREM FramingThrowsLast == Spec => []ThrownAfterHandling
<1>1. FramingInv => ThrownAfterHandling
  BY InvImplies
<1> QED
  BY <1>1, FramingCorrect, PTL

\* On course, all that was handled counts as delivered; adrift, what was expected.
LEMMA Course ==
  /\ ~ adrift => HandledOnCourse = handled
  /\ Astray => HandledOnCourse = expected
BY DEF HandledOnCourse, Astray

\* A step of the framing from an item is a step of the message stream, or none.
LEMMA CourseStep ==
  ASSUME FramingInv, [Next]_vars, NEW k \in 1 .. (Len(wire) + 1), AtItem(k)
  PROVE  [MS!Next]_(MS!vars)
<1> DEFINE todo == SubSeq(expected, Len(HandledOnCourse) + 1, Len(expected))
           open == running /\ fate = "live" /\ ~ adrift
<1>1. FramingTypeOK /\ Layout
  BY DEF FramingInv
<1>2. ~ adrift /\ HandledOnCourse = handled
  BY OnCourse, Course
<1>3. Due(k) \in 0 .. Len(expected) /\ Len(handled) = Due(k)
  BY HandledBefore
<1>4. expected \in Seq(Messages) /\ Len(expected) \in Nat
  BY <1>1, Within DEF FramingTypeOK
<1>5. ASSUME UNCHANGED <<todo, HandledOnCourse, open>>
      PROVE  [MS!Next]_(MS!vars)
  BY <1>5 DEF MS!vars
<1>6. ASSUME adrift' = adrift
      PROVE  HandledOnCourse' = handled' /\ ~ adrift'
  <2>1. ~ adrift'
    BY <1>2, <1>6
  <2> QED
    BY <2>1 DEF HandledOnCourse
<1>7. ASSUME NEW i \in Sent, Send(i)
      PROVE  [MS!Next]_(MS!vars)
  <2>1. /\ expected' = expected \/ expected' = Append(expected, i.msg)
        /\ handled' = handled /\ running' = running /\ fate' = fate
    BY <1>7 DEF Send
  <2>2. HandledOnCourse' = handled /\ ~ adrift'
    <3>1. adrift' = adrift
      BY <1>1, <1>7, SendAdrift
    <3> QED
      BY <1>6, <2>1, <3>1
  <2>3. CASE expected' = expected
    BY <1>2, <1>5, <2>1, <2>2, <2>3
  <2>4. CASE expected' = Append(expected, i.msg)
    <3>1. i.msg \in Messages
      BY SentItem
    <3>2. Len(Append(expected, i.msg)) = Len(expected) + 1
      BY <1>4, <3>1, AppendProperties
    <3>3. SubSeq(Append(expected, i.msg), Due(k) + 1, Len(expected) + 1) =
            Append(SubSeq(expected, Due(k) + 1, Len(expected)), i.msg)
      BY <1>3, <1>4, <3>1, AppendedRanges
    <3>4. todo' = Append(todo, i.msg)
      <4>1. todo' = SubSeq(expected', Len(HandledOnCourse') + 1, Len(expected'))
        OBVIOUS
      <4> QED
        BY <1>2, <1>3, <2>2, <2>4, <3>2, <3>3, <4>1
    <3>5. MS!Send(i.msg)
      BY <1>2, <2>1, <2>2, <3>4 DEF MS!Send
    <3> QED
      BY <3>1, <3>5 DEF MS!Next
  <2> QED
    BY <2>1, <2>3, <2>4
<1>8. ASSUME TakeMessage, ~ Misleads(wire[k].item)
      PROVE  [MS!Next]_(MS!vars)
  <2>1. /\ EraseFront /\ HandleFront /\ running /\ fate = "live"
        /\ expected' = expected /\ running' = running /\ fate' = fate
    BY <1>8 DEF TakeMessage, EraseFront, serverVars
  <2>2. /\ Handle(SubSeq(stream, erased + 1, erased')) =
             IF Welcome(wire[k].item) THEN wire[k].item.msg ELSE None
        /\ wire[k].item.msg # None
        /\ IF Welcome(wire[k].item)
           THEN /\ Due(k) \in 0 .. (Len(expected) - 1)
                /\ expected[Due(k) + 1] = wire[k].item.msg
           ELSE TRUE
    BY <1>8, <2>1, Erased
  <2>3. HandledOnCourse' = handled' /\ ~ adrift'
    <3>1. ~ adrift'
      BY <1>8, TakeOnCourse
    <3> QED
      BY <3>1 DEF HandledOnCourse
  <2>4. CASE ~ Welcome(wire[k].item)
    <3>1. handled' = handled
      BY <2>1, <2>2, <2>4 DEF HandleFront
    <3> QED
      BY <1>2, <1>5, <2>1, <2>3, <3>1
  <2>5. CASE Welcome(wire[k].item)
    <3>1. handled' = Append(handled, wire[k].item.msg)
      BY <2>1, <2>2, <2>5 DEF HandleFront
    <3>2. Due(k) \in 0 .. (Len(expected) - 1) /\ expected[Due(k) + 1] = wire[k].item.msg
      BY <2>2, <2>5
    <3>3. /\ SubSeq(expected, Due(k) + 1, Len(expected)) # << >>
          /\ Head(SubSeq(expected, Due(k) + 1, Len(expected))) = expected[Due(k) + 1]
          /\ Tail(SubSeq(expected, Due(k) + 1, Len(expected))) =
               SubSeq(expected, Due(k) + 2, Len(expected))
      BY <1>4, <3>2, NextElement
    <3>4. Len(handled') + 1 = Due(k) + 2
      <4>1. handled \in Seq(Readable)
        BY <1>1 DEF FramingTypeOK
      <4>2. wire[k].item.msg \in Readable
        BY <1>8, <2>1, Erased DEF Readable
      <4>3. Len(Append(handled, wire[k].item.msg)) = Len(handled) + 1
        BY <4>1, <4>2, AppendProperties
      <4>4. Len(handled') = Due(k) + 1
        BY <1>3, <3>1, <4>3
      <4> QED
        BY <1>3, <1>4, <4>4
    <3>5. todo # << >> /\ Head(todo) = wire[k].item.msg
      BY <1>2, <1>3, <3>2, <3>3
    <3>6. todo' = Tail(todo)
      <4>1. todo' = SubSeq(expected', Len(HandledOnCourse') + 1, Len(expected'))
        OBVIOUS
      <4> QED
        BY <1>2, <1>3, <2>1, <2>3, <3>3, <3>4, <4>1
    <3>7. MS!Deliver
      BY <1>2, <2>1, <2>3, <3>1, <3>5, <3>6 DEF MS!Deliver
    <3> QED
      BY <3>7 DEF MS!Next
  <2> QED
    BY <2>4, <2>5
<1>9. ASSUME TakeMessage, Misleads(wire[k].item)
      PROVE  [MS!Next]_(MS!vars)
  <2>1. running /\ fate = "live" /\ expected' = expected
    BY <1>9 DEF TakeMessage, EraseFront, serverVars
  <2>2. handled = expected /\ Astray'
    BY <1>9, TakeAstray
  <2>3. adrift' /\ HandledOnCourse' = expected'
    BY <2>2 DEF Astray, HandledOnCourse
  <2>4. MS!Close
    BY <1>2, <2>1, <2>2, <2>3 DEF MS!Close
  <2> QED
    BY <2>4 DEF MS!Next
<1>10. ASSUME ThrowBodyLength \/ stop
       PROVE  [MS!Next]_(MS!vars)
  <2>1. /\ running /\ fate = "live" /\ ~ (running' /\ fate' = "live")
        /\ expected' = expected /\ handled' = handled
    BY <1>10 DEF ThrowBodyLength, stop, serverVars
  <2>2. HandledOnCourse' = handled'
    BY <1>6, <1>10, EndInv
  <2>3. MS!Close
    BY <1>2, <2>1, <2>2 DEF MS!Close
  <2> QED
    BY <2>3 DEF MS!Next
<1>11. ASSUME Recv \/ LeaveLoop \/ UNCHANGED vars
       PROVE  [MS!Next]_(MS!vars)
  <2>1. expected' = expected /\ handled' = handled /\ running' = running /\ fate' = fate
    BY <1>11 DEF Recv, LeaveLoop, vars, serverVars
  <2>2. HandledOnCourse' = handled' /\ ~ adrift'
    BY <1>6, <1>11, RecvInv, LeaveLoopInv, StutterInv
  <2> QED
    BY <1>2, <1>5, <2>1, <2>2
<1> HIDE DEF todo, open
<1> QED
  BY <1>7, <1>8, <1>9, <1>10, <1>11 DEF Next

\* A client that is adrift takes no step of the message stream any more.
LEMMA AdriftStep ==
  ASSUME FramingInv, [Next]_vars, Astray
  PROVE  UNCHANGED MS!vars
<1>1. Astray' /\ expected' = expected
  <2>1. ASSUME NEW i \in Sent, Send(i)
        PROVE  Astray' /\ expected' = expected
    <3>1. adrift' /\ expected' = expected
      BY <2>1, SendAdrift DEF FramingInv, Astray
    <3>2. handled' = handled
      BY <2>1 DEF Send
    <3> QED
      BY <3>1, <3>2 DEF Astray
  <2>2. CASE TakeMessage
    BY <2>2, TakeAdrift DEF TakeMessage, EraseFront, serverVars
  <2>3. CASE Recv \/ LeaveLoop \/ ThrowBodyLength \/ stop \/ UNCHANGED vars
    <3>1. adrift' = adrift
      BY <2>3, RecvInv, LeaveLoopInv, EndInv, StutterInv
    <3>2. handled' = handled /\ expected' = expected
      BY <2>3 DEF Recv, LeaveLoop, ThrowBodyLength, stop, vars, serverVars
    <3> QED
      BY <3>1, <3>2 DEF Astray
  <2> QED
    BY <2>1, <2>2, <2>3 DEF Next
<1>2. adrift /\ adrift' /\ HandledOnCourse = expected /\ HandledOnCourse' = expected'
  BY <1>1 DEF Astray, HandledOnCourse
<1> QED
  BY <1>1, <1>2 DEF MS!vars

LEMMA FramingStep ==
  ASSUME FramingInv, [Next]_vars
  PROVE  [MS!Next]_(MS!vars)
<1>1. CASE Astray
  BY <1>1, AdriftStep
<1>2. ASSUME NEW k \in 1 .. (Len(wire) + 1), AtItem(k)
      PROVE  [MS!Next]_(MS!vars)
  BY <1>2, CourseStep
<1> QED
  BY <1>1, <1>2 DEF FramingInv

\* The client is a message stream, up to liveness: for every set of items, however
\* many are sent and however recv cuts their bytes, the welcome messages come out
\* whole, in the order sent and once, and no damaged or unknown one among them
\* costs a neighbour, until a header misleads the client about a length.
THEOREM FramingImplementsStream == Spec => MS!SafeSpec
<1>1. Init => MS!Init
  <2> SUFFICES ASSUME Init PROVE MS!Init
    OBVIOUS
  <2>1. /\ wire = << >> /\ expected = << >> /\ handled = << >>
        /\ running = TRUE /\ fate = "live"
    BY DEF Init
  <2>2. ~ adrift
    BY <2>1 DEF adrift
  <2>3. HandledOnCourse = << >>
    BY <2>1, <2>2 DEF HandledOnCourse
  <2>4. SubSeq(expected, Len(HandledOnCourse) + 1, Len(expected)) = << >>
    BY <2>1, <2>3
  <2>5. SubSeq(expected, Len(HandledOnCourse) + 1, Len(expected)) \in Seq(Messages)
    <3>1. \A S : << >> \in Seq(S)
      OBVIOUS
    <3> QED
      BY <2>4, <3>1
  <2>6. (running /\ fate = "live" /\ ~ adrift) = TRUE
    BY <2>1, <2>2
  <2> QED
    BY <2>3, <2>5, <2>6 DEF MS!Init
<1>2. FramingInv /\ [Next]_vars => [MS!Next]_(MS!vars)
  BY FramingStep
<1>3. Spec => Init /\ [][Next]_vars
  BY PTL DEF Spec
<1> QED
  BY <1>1, <1>2, <1>3, FramingCorrect, PTL DEF MS!SafeSpec

=============================================================================
