------------------------ MODULE NetworkManagerProofs ------------------------
(***************************************************************************)
(* What holds of the packet path for every number of feed and recovery     *)
(* threads, every set of packets and every set of configurations.          *)
(***************************************************************************)
EXTENDS NetworkManager, FiniteSetTheorems, WellFoundedInduction, TLAPS

-----------------------------------------------------------------------------
(* Keys *)

\* The product of two natural numbers is one.
LEMMA ProductIsNat == \A m, n \in Nat : m * n \in Nat
OBVIOUS

\* A combined key is a natural number (std::map orders the log by it).
LEMMA KeyIsNat == \A p \in Packets : Key(p) \in Nat
<1> SUFFICES ASSUME NEW p \in Packets PROVE Key(p) \in Nat
  OBVIOUS
<1>1. p.ch \in Nat /\ p.seq \in Nat /\ KeyBase \in Nat /\ KeyBase > 0
  BY NumbersAssumption
<1>2. OrTwoBits(p.ch, p.seq \div KeyBase) \in Nat
  BY <1>1 DEF OrTwoBits
<1>3. p.seq % KeyBase \in Nat
  BY <1>1
<1>4. p.ch * KeyBase \in Nat /\ OrTwoBits(p.ch, p.seq \div KeyBase) * KeyBase \in Nat
  BY <1>1, <1>2, ProductIsNat
<1> QED
  BY <1>1, <1>3, <1>4 DEF Key

\* A set of natural numbers that is not empty has a smallest element.
LEMMA SmallestInSet ==
  ASSUME NEW S \in SUBSET Nat, S # {}
  PROVE  Smallest(S) \in S
<1> DEFINE Less == {ss \in Nat \X Nat : ss[1] < ss[2]}
<1>1. IsWellFoundedOn(Less, Nat)
  BY NatLessThanWellFounded, Zenon DEF OpToRel
<1> HIDE DEF Less
<1>2. \E x \in S : \A y \in S : ~ (<<y, x>> \in Less)
  BY <1>1, WFMin
<1>3. \A x, y \in Nat : ~ (<<y, x>> \in Less) => x <= y
  BY DEF Less
<1>4. \E x \in S : \A y \in S : x <= y
  BY <1>2, <1>3
<1> QED
  BY <1>4 DEF Smallest

\* Two packets that share a key have the same channel and number, or one of the
\* numbers does not fit the 32 bits left to it.
LEMMA KeysDistinct == \A p, q \in Packets : Key(p) = Key(q) => SameNumber(p, q)
<1> SUFFICES ASSUME NEW p \in Packets, NEW q \in Packets, Key(p) = Key(q),
                    p.seq < KeyBase, q.seq < KeyBase
             PROVE  p.ch = q.ch /\ p.seq = q.seq
  <2>1. \A p \in Packets : p.seq \in Nat /\ KeyBase \in Nat
    BY NumbersAssumption
  <2> QED
    BY <2>1 DEF SameNumber
<1>1. /\ p \in [ch : Nat, seq : Nat, epoch : Nat, ok : BOOLEAN]
      /\ q \in [ch : Nat, seq : Nat, epoch : Nat, ok : BOOLEAN]
      /\ KeyBase \in Nat
  BY NumbersAssumption
<1>2. p.ch * KeyBase + p.seq = q.ch * KeyBase + q.seq
  BY <1>1 DEF Key
<1>3. \A a, b, r, s, k \in Nat : r < k /\ s < k /\ a < b => a * k + r # b * k + s
  <2> SUFFICES ASSUME NEW a \in Nat, NEW b \in Nat, NEW r \in Nat, NEW s \in Nat, NEW k \in Nat,
                      r < k, s < k, a < b
               PROVE  a * k + r # b * k + s
    OBVIOUS
  <2>1. b = a + 1 + (b - a - 1) /\ b - a - 1 \in Nat
    OBVIOUS
  <2>2. b * k = a * k + k + (b - a - 1) * k
    BY <2>1
  <2>3. (b - a - 1) * k \in Nat /\ a * k \in Nat
    BY <2>1, ProductIsNat
  <2> QED
    BY <2>2, <2>3
<1>4. ~ (p.ch < q.ch) /\ ~ (q.ch < p.ch)
  BY <1>1, <1>2, <1>3
<1>5. p.ch = q.ch
  BY <1>1, <1>4
<1>6. \A x, r, s \in Nat : x + r = x + s => r = s
  OBVIOUS
<1>7. p.seq = q.seq
  <2>1. p.ch * KeyBase \in Nat /\ p.seq \in Nat /\ q.seq \in Nat
    BY <1>1, ProductIsNat
  <2>2. p.ch * KeyBase + p.seq = p.ch * KeyBase + q.seq
    BY <1>2, <1>5
  <2> QED
    BY <1>6, <2>1, <2>2
<1> QED
  BY <1>5, <1>7

-----------------------------------------------------------------------------
(* The inductive invariant *)

\* The number recorded for a channel is that of an undamaged packet the SDK was
\* given on it.
LastWasForwarded ==
  \A c \in DOMAIN channel_sequences :
    \E f \in forwarded : f[2].ok /\ f[2].ch = c /\ f[2].seq = channel_sequences[c]

\* A thread about to store a number has already given its packet, an undamaged
\* one, to the SDK.
StoredWasForwarded ==
  \A t \in Threads, p \in Packets :
    Carrying(t, "seq_store", p) => p.ok /\ <<t, p>> \in forwarded

Pruners == {t \in Threads : at[t].step = "prune"}

\* What the log may have is never less than its limit.
LimitIsAllowed == LogLimit(config) <= allowed

Inv ==
  /\ TypeOK
  /\ IsFiniteSet(deduplication_log)
  /\ LimitIsAllowed
  /\ LogIsBounded
  /\ LastWasForwarded
  /\ StoredWasForwarded
  /\ NoHiddenGap

\* The steps at which a thread can be.
LEMMA PlaceSteps ==
  ASSUME TypeOK
  PROVE  /\ \A t \in Threads : at[t] \in Places
         /\ DOMAIN at = Threads
         /\ Idle \in Places
         /\ \A s \in LogSteps \cup SeqSteps, p \in Packets : [step |-> s, pkt |-> p] \in Places
BY DEF TypeOK, Places

\* The limit of the log is a natural number in every configuration, and zero
\* before the first.
LEMMA LimitIsNat ==
  /\ \A c \in Configs \cup {NoConfig} : LogLimit(c) \in Nat
  /\ LogLimit(NoConfig) = 0
<1>1. Window \in Nat /\ \A c \in Configs \cup {NoConfig} : c.feeds \in Nat
  BY ConfigsAssumption DEF NoConfig
<1>2. \A c \in Configs \cup {NoConfig} : LogLimit(c) \in Nat
  BY <1>1, ProductIsNat DEF LogLimit
<1>3. NoConfig.feeds = 0
  BY DEF NoConfig
<1>4. Window * 0 = 0
  BY <1>1
<1> QED
  BY <1>2, <1>3, <1>4 DEF LogLimit

\* Finitely many threads are about to prune.
LEMMA PrunersFinite == IsFiniteSet(Pruners) /\ Cardinality(Pruners) \in Nat
<1>1. IsFiniteSet(Threads)
  BY ThreadsAssumption, FS_Union DEF Threads
<1> QED
  BY <1>1, FS_Subset, FS_CardinalityType DEF Pruners

\* Once the program is given up, the invariant holds of what is left of it.
LEMMA GiveUpInv ==
  ASSUME NEW why \in {"raced", "terminated"}, GiveUp(why)
  PROVE  Inv'
<1> USE DEF GiveUp
<1>1. TypeOK'
  <2>1. at' \in [Threads -> Places] /\ \A t \in Recovery : at'[t].step \notin LogSteps
    BY DEF Places, Idle, LogSteps, Threads
  <2>2. DOMAIN channel_sequences' = {} /\ channel_sequences' \in [{} -> Seqs]
    OBVIOUS
  <2> QED
    BY <2>1, <2>2 DEF TypeOK
<1>2. IsFiniteSet(deduplication_log)' /\ Cardinality(deduplication_log)' = 0
  BY FS_EmptySet
<1>3. LogIsBounded'
  <2>1. \A t \in Threads : at'[t].step # "prune"
    BY DEF Idle
  <2>2. Pruners' = {}
    BY <2>1 DEF Pruners
  <2>3. Cardinality(Pruners') = 0
    BY <2>2, FS_EmptySet
  <2> QED
    BY <1>2, <2>3 DEF LogIsBounded, Pruners
<1>4. LastWasForwarded' /\ NoHiddenGap'
  BY DEF LastWasForwarded, NoHiddenGap
<1>5. StoredWasForwarded'
  BY DEF StoredWasForwarded, Carrying, Idle
<1>6. LimitIsAllowed'
  <2>1. config' = NoConfig /\ allowed' = 0
    OBVIOUS
  <2>2. LogLimit(config') = 0
    BY <2>1, LimitIsNat
  <2> QED
    BY <2>1, <2>2 DEF LimitIsAllowed, LogLimit
<1> QED
  BY <1>1, <1>2, <1>3, <1>4, <1>5, <1>6 DEF Inv

\* The program starts in the invariant.
LEMMA InitInv == Init => Inv
<1> SUFFICES ASSUME Init PROVE Inv
  OBVIOUS
<1> USE DEF Init
<1>1. TypeOK
  <2>1. at \in [Threads -> Places] /\ \A t \in Recovery : at[t].step \notin LogSteps
    BY DEF Places, Idle, LogSteps, Threads
  <2>2. DOMAIN channel_sequences = {} /\ channel_sequences \in [{} -> Seqs]
    OBVIOUS
  <2> QED
    BY <2>1, <2>2 DEF TypeOK
<1>2. IsFiniteSet(deduplication_log) /\ Cardinality(deduplication_log) = 0
  BY FS_EmptySet
<1>3. LogIsBounded
  <2>1. Pruners = {}
    BY DEF Pruners, Idle
  <2>2. Cardinality(Pruners) = 0
    BY <2>1, FS_EmptySet
  <2> QED
    BY <1>2, <2>2 DEF LogIsBounded, Pruners
<1>4. LastWasForwarded /\ NoHiddenGap
  BY DEF LastWasForwarded, NoHiddenGap
<1>5. StoredWasForwarded
  BY DEF StoredWasForwarded, Carrying, Idle
<1>6. LimitIsAllowed
  BY LimitIsNat DEF LimitIsAllowed
<1> QED
  BY <1>1, <1>2, <1>3, <1>4, <1>5, <1>6 DEF Inv

\* A step that leaves the log and the set of pruning threads alone keeps the log
\* within its bound.
LEMMA BoundUndisturbed ==
  ASSUME LogIsBounded, UNCHANGED <<deduplication_log, allowed>>, Pruners' = Pruners
  PROVE  LogIsBounded'
BY DEF LogIsBounded, Pruners

\* A step that leaves the configuration alone leaves the limit alone.
LEMMA LimitUndisturbed ==
  ASSUME LimitIsAllowed, UNCHANGED <<config, allowed>>
  PROVE  LimitIsAllowed'
BY DEF LimitIsAllowed, LogLimit

\* A thread moves to another step of its own.
LEMMA Move ==
  ASSUME TypeOK, NEW t \in Threads, NEW w \in Places, Goto(t, w),
         t \in Recovery => w.step \notin LogSteps
  PROVE  /\ at' \in [Threads -> Places]
         /\ \A u \in Threads : at'[u] = IF u = t THEN w ELSE at[u]
         /\ \A u \in Recovery : at'[u].step \notin LogSteps
         /\ w.step = "prune" => Pruners' = Pruners \cup {t}
         /\ w.step # "prune" => Pruners' = Pruners \ {t}
<1>1. at' \in [Threads -> Places] /\ \A u \in Threads : at'[u] = IF u = t THEN w ELSE at[u]
  BY DEF TypeOK, Goto
<1>2. \A u \in Recovery : at'[u].step \notin LogSteps
  BY <1>1 DEF TypeOK, Threads
<1> QED
  BY <1>1, <1>2 DEF Pruners

\* A thread that moves to a step before its packet is forwarded, or to none,
\* leaves what is said of threads about to store a number.
LEMMA StoredUndisturbed ==
  ASSUME StoredWasForwarded, NEW t \in Threads, NEW w, w.step # "seq_store",
         \A u \in Threads : at'[u] = IF u = t THEN w ELSE at[u],
         forwarded \subseteq forwarded'
  PROVE  StoredWasForwarded'
<1> SUFFICES ASSUME NEW u \in Threads, NEW p \in Packets,
                    at'[u] = [step |-> "seq_store", pkt |-> p]
             PROVE  p.ok /\ <<u, p>> \in forwarded'
  BY DEF StoredWasForwarded, Carrying
<1>1. u # t
  OBVIOUS
<1> QED
  BY <1>1 DEF StoredWasForwarded, Carrying

\* A thread takes a packet from the network.
LEMMA ReceiveInv ==
  ASSUME Inv, NEW t \in Threads, NEW p \in Packets, Receive(t, p)
  PROVE  Inv'
<1> DEFINE w == [step |-> IF t \in Feeds /\ config.dual THEN "find" ELSE "seq_read", pkt |-> p]
<1>1. /\ Goto(t, w) /\ at[t] = Idle
      /\ delivered' = [delivered EXCEPT ![t] = @ \cup {p}]
      /\ UNCHANGED <<running, config, allowed, deduplication_log, channel_sequences, fate, epoch,
                     forwarded, discarded, contiguous>>
  BY DEF Receive, session
<1>2. w \in Places /\ w.step \in {"find", "seq_read"} /\ (t \in Recovery => w.step \notin LogSteps)
  BY ThreadsAssumption DEF Places, LogSteps, SeqSteps, Threads
<1> HIDE DEF w
<1>3. /\ at' \in [Threads -> Places]
      /\ \A u \in Threads : at'[u] = IF u = t THEN w ELSE at[u]
      /\ \A u \in Recovery : at'[u].step \notin LogSteps
      /\ Pruners' = Pruners \ {t}
  BY <1>1, <1>2, Move DEF Inv
<1>4. TypeOK'
  BY <1>1, <1>3 DEF Inv, TypeOK
<1>5. LogIsBounded'
  BY <1>1, <1>3, BoundUndisturbed DEF Inv, Pruners, Idle
<1>6. LastWasForwarded' /\ NoHiddenGap'
  BY <1>1 DEF Inv, LastWasForwarded, NoHiddenGap
<1>7. StoredWasForwarded'
  BY <1>1, <1>2, <1>3, StoredUndisturbed DEF Inv
<1>8. LimitIsAllowed'
  BY <1>1, LimitUndisturbed DEF Inv
<1> QED
  BY <1>1, <1>4, <1>5, <1>6, <1>7, <1>8 DEF Inv

\* The lookup discards the packet or lets it pass.
LEMMA FindInv ==
  ASSUME Inv, NEW t \in Threads, Find(t)
  PROVE  Inv'
<1>1. PICK p \in Packets :
        /\ Carrying(t, "find", p)
        /\ discarded' = discarded \cup {p} \/ UNCHANGED discarded
        /\ \E w \in {Idle, [step |-> "insert", pkt |-> p]} : Goto(t, w)
  BY DEF Find
<1>2. PICK w \in {Idle, [step |-> "insert", pkt |-> p]} : Goto(t, w)
  BY <1>1
<1>3. UNCHANGED <<running, config, allowed, deduplication_log, channel_sequences, fate, epoch,
                  delivered, forwarded, contiguous>>
  BY DEF Find, session
<1>4. at[t].step = "find" /\ t \notin Recovery
  BY <1>1 DEF Carrying, Inv, TypeOK, LogSteps
<1>5. w \in Places /\ w.step \notin {"prune", "seq_store"}
  BY <1>2 DEF Places, LogSteps, Idle
<1>6. /\ at' \in [Threads -> Places]
      /\ \A u \in Threads : at'[u] = IF u = t THEN w ELSE at[u]
      /\ \A u \in Recovery : at'[u].step \notin LogSteps
      /\ Pruners' = Pruners \ {t}
  BY <1>2, <1>4, <1>5, Move DEF Inv
<1>7. TypeOK'
  BY <1>1, <1>3, <1>6 DEF Inv, TypeOK
<1>8. LogIsBounded'
  BY <1>3, <1>4, <1>6, BoundUndisturbed DEF Inv, Pruners
<1>9. LastWasForwarded' /\ NoHiddenGap'
  BY <1>3 DEF Inv, LastWasForwarded, NoHiddenGap
<1>10. StoredWasForwarded'
  BY <1>3, <1>5, <1>6, StoredUndisturbed DEF Inv
<1>11. LimitIsAllowed'
  BY <1>3, LimitUndisturbed DEF Inv
<1> QED
  BY <1>3, <1>7, <1>8, <1>9, <1>10, <1>11 DEF Inv

\* An insertion adds one key and one thread that has to prune.
LEMMA InsertInv ==
  ASSUME Inv, NEW t \in Threads, Insert(t)
  PROVE  Inv'
<1>1. PICK p \in Packets :
        /\ Carrying(t, "insert", p)
        /\ deduplication_log' = deduplication_log \cup {Key(p)}
        /\ Goto(t, [step |-> "prune", pkt |-> p])
  BY DEF Insert
<1> DEFINE w == [step |-> "prune", pkt |-> p]
<1>2. UNCHANGED <<running, config, allowed, channel_sequences, fate, epoch, delivered, forwarded,
                  discarded, contiguous>>
  BY DEF Insert, session
<1>3. at[t].step = "insert" /\ t \notin Recovery
  BY <1>1 DEF Carrying, Inv, TypeOK, LogSteps
<1>4. w \in Places /\ w.step = "prune"
  BY DEF Places, LogSteps
<1>5. Goto(t, w)
  BY <1>1
<1> HIDE DEF w
<1>6. /\ at' \in [Threads -> Places]
      /\ \A u \in Threads : at'[u] = IF u = t THEN w ELSE at[u]
      /\ \A u \in Recovery : at'[u].step \notin LogSteps
      /\ Pruners' = Pruners \cup {t}
  BY <1>3, <1>4, <1>5, Move DEF Inv
<1>7. TypeOK'
  BY <1>1, <1>2, <1>6 DEF Inv, TypeOK
<1>8. IsFiniteSet(deduplication_log)' /\ LogIsBounded'
  <2>1. t \notin Pruners
    BY <1>3 DEF Pruners
  <2>2. Cardinality(Pruners') = Cardinality(Pruners) + 1
    BY <1>6, <2>1, PrunersFinite, FS_AddElement
  <2>3. /\ IsFiniteSet(deduplication_log')
        /\ Cardinality(deduplication_log) \in Nat
        /\ Cardinality(deduplication_log') \in
             {Cardinality(deduplication_log), Cardinality(deduplication_log) + 1}
    BY <1>1, FS_AddElement, FS_CardinalityType DEF Inv
  <2>4. Cardinality(deduplication_log) <= allowed + Cardinality(Pruners)
    BY DEF Inv, LogIsBounded, Pruners
  <2>5. Cardinality(deduplication_log') <= allowed + Cardinality(Pruners')
    <3>1. allowed \in Nat
      BY DEF Inv, TypeOK
    <3> QED
      BY <2>2, <2>3, <2>4, <3>1, PrunersFinite
  <2> QED
    BY <1>2, <2>3, <2>5 DEF LogIsBounded, Pruners
<1>9. LastWasForwarded' /\ NoHiddenGap'
  BY <1>2 DEF Inv, LastWasForwarded, NoHiddenGap
<1>10. StoredWasForwarded'
  BY <1>2, <1>4, <1>6, StoredUndisturbed DEF Inv
<1>11. LimitIsAllowed'
  BY <1>2, LimitUndisturbed DEF Inv
<1> QED
  BY <1>7, <1>8, <1>9, <1>10, <1>11 DEF Inv

\* A pruning takes back the allowance that its insertion was given.
LEMMA PruneInv ==
  ASSUME Inv, NEW t \in Threads, Prune(t)
  PROVE  Inv'
<1>1. PICK p \in Packets :
        /\ Carrying(t, "prune", p)
        /\ deduplication_log' =
             IF Cardinality(deduplication_log) > LogLimit(config)
             THEN deduplication_log \ {Smallest(deduplication_log)}
             ELSE deduplication_log
        /\ Goto(t, [step |-> "seq_read", pkt |-> p])
  BY DEF Prune
<1> DEFINE w == [step |-> "seq_read", pkt |-> p]
<1>2. UNCHANGED <<running, config, allowed, channel_sequences, fate, epoch, delivered, forwarded,
                  discarded, contiguous>>
  BY DEF Prune, session
<1>3. at[t].step = "prune" /\ t \in Pruners
  BY <1>1 DEF Carrying, Pruners
<1>4. w \in Places /\ w.step = "seq_read" /\ w.step \notin LogSteps
  BY DEF Places, SeqSteps, LogSteps
<1>5. Goto(t, w)
  BY <1>1
<1> HIDE DEF w
<1>6. /\ at' \in [Threads -> Places]
      /\ \A u \in Threads : at'[u] = IF u = t THEN w ELSE at[u]
      /\ \A u \in Recovery : at'[u].step \notin LogSteps
      /\ Pruners' = Pruners \ {t}
  BY <1>4, <1>5, Move DEF Inv
<1>7. deduplication_log' \subseteq deduplication_log
  BY <1>1
<1>8. TypeOK'
  BY <1>2, <1>6, <1>7 DEF Inv, TypeOK
<1>9. IsFiniteSet(deduplication_log)' /\ LogIsBounded'
  <2> DEFINE n == Cardinality(deduplication_log)
             k == Cardinality(Pruners)
  <2>1. /\ Cardinality(Pruners') = k - 1
        /\ k \in Nat
        /\ Cardinality(Pruners') \in Nat
    BY <1>3, <1>6, PrunersFinite, FS_RemoveElement, FS_CardinalityType
  <2>2. IsFiniteSet(deduplication_log') /\ n \in Nat /\ n <= allowed + k
    BY <1>7, FS_Subset, FS_CardinalityType DEF Inv, LogIsBounded, Pruners
  <2>3. allowed \in Nat /\ LogLimit(config) \in Nat /\ LogLimit(config) <= allowed
    BY LimitIsNat DEF Inv, TypeOK, LimitIsAllowed
  <2>4. Cardinality(deduplication_log') <= allowed + (k - 1)
    <3>1. CASE n > LogLimit(config)
      <4>1. deduplication_log # {}
        BY <2>3, <3>1, FS_EmptySet
      <4>2. deduplication_log \in SUBSET Nat
        BY KeyIsNat DEF Inv, TypeOK
      <4>3. Smallest(deduplication_log) \in deduplication_log
        BY <4>1, <4>2, SmallestInSet
      <4>4. Cardinality(deduplication_log') = n - 1
        BY <1>1, <3>1, <4>3, FS_RemoveElement DEF Inv
      <4> QED
        BY <2>1, <2>2, <2>3, <4>4
    <3>2. CASE ~ (n > LogLimit(config))
      <4>1. Cardinality(deduplication_log') = n
        BY <1>1, <3>2
      <4>2. k - 1 >= 0
        BY <2>1
      <4> QED
        BY <2>1, <2>2, <2>3, <3>2, <4>1, <4>2
    <3> QED
      BY <3>1, <3>2
  <2> QED
    BY <1>2, <2>1, <2>2, <2>4 DEF LogIsBounded, Pruners
<1>10. LastWasForwarded' /\ NoHiddenGap'
  BY <1>2 DEF Inv, LastWasForwarded, NoHiddenGap
<1>11. StoredWasForwarded'
  BY <1>2, <1>4, <1>6, StoredUndisturbed DEF Inv
<1>12. LimitIsAllowed'
  BY <1>2, LimitUndisturbed DEF Inv
<1> QED
  BY <1>8, <1>9, <1>10, <1>11, <1>12 DEF Inv

\* Sequence numbers are natural numbers.
LEMMA SeqsAreNat == Seqs \subseteq Nat
BY NumbersAssumption DEF Seqs

\* The packet reaches the SDK; a number judged expected follows one that did.
LEMMA SeqReadInv ==
  ASSUME Inv, NEW t \in Threads, SeqRead(t)
  PROVE  Inv'
<1>1. PICK p \in Packets :
        /\ Carrying(t, "seq_read", p)
        /\ forwarded' = forwarded \cup {<<t, p>>}
        /\ \E w \in {Idle, [step |-> "seq_store", pkt |-> p]} :
             Goto(t, w) /\ (w # Idle => p.ok)
        /\ \/ contiguous' = contiguous
           \/ /\ contiguous' = contiguous \cup {<<p.ch, p.seq>>}
              /\ p.ch \in DOMAIN channel_sequences
              /\ p.seq = channel_sequences[p.ch] + 1
  BY DEF SeqRead
<1>2. PICK w \in {Idle, [step |-> "seq_store", pkt |-> p]} :
        Goto(t, w) /\ (w # Idle => p.ok)
  BY <1>1
<1>3. UNCHANGED <<running, config, allowed, deduplication_log, channel_sequences, fate, epoch,
                  delivered, discarded>>
  BY DEF SeqRead, session
<1>4. at[t].step = "seq_read"
  BY <1>1 DEF Carrying
<1>5. w \in Places /\ w.step # "prune" /\ w.step \notin LogSteps
  BY <1>2 DEF Places, LogSteps, SeqSteps, Idle
<1>6. /\ at' \in [Threads -> Places]
      /\ \A u \in Threads : at'[u] = IF u = t THEN w ELSE at[u]
      /\ \A u \in Recovery : at'[u].step \notin LogSteps
      /\ Pruners' = Pruners \ {t}
  BY <1>2, <1>5, Move DEF Inv
<1>7. TypeOK'
  <2>1. p.ch \in Channels /\ p.seq \in Seqs
    BY DEF Channels, Seqs
  <2>2. contiguous' \subseteq Channels \X Seqs
    BY <1>1, <2>1 DEF Inv, TypeOK
  <2> QED
    BY <1>1, <1>3, <1>6, <2>2 DEF Inv, TypeOK
<1>8. LogIsBounded'
  BY <1>3, <1>4, <1>6, BoundUndisturbed DEF Inv, Pruners
<1>9. LastWasForwarded'
  BY <1>1, <1>3 DEF Inv, LastWasForwarded
<1>10. NoHiddenGap'
  <2> SUFFICES ASSUME NEW cs \in contiguous'
               PROVE  \E f \in forwarded' :
                        f[2].ok /\ f[2].ch = cs[1] /\ f[2].seq = cs[2] - 1
    BY DEF NoHiddenGap
  <2>1. CASE cs \in contiguous
    BY <1>1, <2>1 DEF Inv, NoHiddenGap
  <2>2. CASE cs \notin contiguous
    <3>1. /\ cs = <<p.ch, p.seq>> /\ p.ch \in DOMAIN channel_sequences
          /\ p.seq = channel_sequences[p.ch] + 1
      BY <1>1, <2>2
    <3>2. channel_sequences[p.ch] \in Nat
      BY <3>1, SeqsAreNat DEF Inv, TypeOK
    <3>3. PICK f \in forwarded :
            f[2].ok /\ f[2].ch = p.ch /\ f[2].seq = channel_sequences[p.ch]
      BY <3>1 DEF Inv, LastWasForwarded
    <3> QED
      BY <1>1, <3>1, <3>2, <3>3
  <2> QED
    BY <2>1, <2>2
<1>11. StoredWasForwarded'
  <2> SUFFICES ASSUME NEW u \in Threads, NEW q \in Packets,
                      at'[u] = [step |-> "seq_store", pkt |-> q]
               PROVE  q.ok /\ <<u, q>> \in forwarded'
    BY DEF StoredWasForwarded, Carrying
  <2>1. CASE u = t
    <3>1. w = [step |-> "seq_store", pkt |-> q]
      BY <1>6, <2>1
    <3>2. w.step = "seq_store" /\ w.pkt = q
      BY <3>1
    <3>3. w # Idle
      BY <3>2 DEF Idle
    <3>4. w.pkt = p
      BY <1>2, <3>3
    <3> QED
      BY <1>1, <1>2, <2>1, <3>2, <3>3, <3>4
  <2>2. CASE u # t
    BY <1>1, <1>6, <2>2 DEF Inv, StoredWasForwarded, Carrying
  <2> QED
    BY <2>1, <2>2
<1>12. LimitIsAllowed'
  BY <1>3, LimitUndisturbed DEF Inv
<1> QED
  BY <1>3, <1>7, <1>8, <1>9, <1>10, <1>11, <1>12 DEF Inv

\* The number of a packet that has reached the SDK is recorded.
LEMMA SeqStoreInv ==
  ASSUME Inv, NEW t \in Threads, SeqStore(t)
  PROVE  Inv'
<1>1. PICK p \in Packets :
        /\ Carrying(t, "seq_store", p)
        /\ channel_sequences' =
             [c \in DOMAIN channel_sequences \cup {p.ch} |->
                IF c = p.ch THEN p.seq ELSE channel_sequences[c]]
        /\ Goto(t, Idle)
  BY DEF SeqStore
<1>2. UNCHANGED <<running, config, allowed, deduplication_log, fate, epoch, delivered, forwarded,
                  discarded, contiguous>>
  BY DEF SeqStore, session
<1>3. at[t].step = "seq_store" /\ p.ok /\ <<t, p>> \in forwarded
  BY <1>1 DEF Carrying, Inv, StoredWasForwarded
<1>4. Idle \in Places /\ Idle.step \notin {"prune", "seq_store"} /\ Idle.step \notin LogSteps
  BY DEF Places, LogSteps, Idle
<1>5. /\ at' \in [Threads -> Places]
      /\ \A u \in Threads : at'[u] = IF u = t THEN Idle ELSE at[u]
      /\ \A u \in Recovery : at'[u].step \notin LogSteps
      /\ Pruners' = Pruners \ {t}
  BY <1>1, <1>4, Move DEF Inv
<1>6. TypeOK'
  <2>1. p.ch \in Channels /\ p.seq \in Seqs
    BY DEF Channels, Seqs
  <2>2. /\ DOMAIN channel_sequences' \subseteq Channels
        /\ channel_sequences' \in [DOMAIN channel_sequences' -> Seqs]
    BY <1>1, <2>1 DEF Inv, TypeOK
  <2> QED
    BY <1>2, <1>5, <2>2 DEF Inv, TypeOK
<1>7. LogIsBounded'
  BY <1>2, <1>3, <1>5, BoundUndisturbed DEF Inv, Pruners
<1>8. LastWasForwarded'
  <2> SUFFICES ASSUME NEW c \in DOMAIN channel_sequences'
               PROVE  \E f \in forwarded :
                        f[2].ok /\ f[2].ch = c /\ f[2].seq = channel_sequences'[c]
    BY <1>2 DEF LastWasForwarded
  <2>1. CASE c = p.ch
    <3>1. <<t, p>>[2] = p /\ channel_sequences'[c] = p.seq
      BY <1>1, <2>1
    <3> QED
      BY <1>3, <2>1, <3>1
  <2>2. CASE c # p.ch
    BY <1>1, <2>2 DEF Inv, LastWasForwarded
  <2> QED
    BY <2>1, <2>2
<1>9. NoHiddenGap'
  BY <1>2 DEF Inv, NoHiddenGap
<1>10. StoredWasForwarded'
  BY <1>2, <1>4, <1>5, StoredUndisturbed DEF Inv
<1>11. LimitIsAllowed'
  BY <1>2, LimitUndisturbed DEF Inv
<1> QED
  BY <1>2, <1>6, <1>7, <1>8, <1>9, <1>10, <1>11 DEF Inv

\* What the manager and the exchange do, and nothing at all.
Control ==
  \/ stop
  \/ \E c \in Configs : configure_and_start(c)
  \/ RestartNumbers
  \/ UNCHANGED vars

\* Starting, stopping and the exchange's restart touch no thread and no
\* container.
LEMMA ControlLeaves ==
  ASSUME Control
  PROVE  UNCHANGED <<deduplication_log, channel_sequences, at, fate,
                     delivered, forwarded, discarded, contiguous>>
BY DEF Control, stop, configure_and_start, RestartNumbers, vars

\* A new configuration allows the log its limit or what it has: nobody is about to
\* prune when it is set.
LEMMA ControlInv ==
  ASSUME Inv, Control
  PROVE  Inv'
<1>1. UNCHANGED <<deduplication_log, channel_sequences, at, fate,
                  delivered, forwarded, discarded, contiguous>>
  BY ControlLeaves
<1>2. running' = running \/ running' = TRUE \/ running' = FALSE
  BY Zenon DEF Control, stop, configure_and_start, RestartNumbers, vars, session
<1>3. running' \in BOOLEAN
  BY <1>2 DEF Inv, TypeOK
<1>4. epoch' \in Nat
  <2>1. epoch' = epoch \/ epoch' = epoch + 1
    BY DEF Control, stop, configure_and_start, RestartNumbers, vars
  <2> QED
    BY <2>1 DEF Inv, TypeOK
<1> DEFINE n == Cardinality(deduplication_log)
<1>5. /\ config' \in Configs \cup {NoConfig} /\ allowed' \in Nat
      /\ LimitIsAllowed' /\ LogIsBounded'
  <2>1. CASE UNCHANGED <<config, allowed>>
    BY <1>1, <2>1, LimitUndisturbed DEF Inv, TypeOK, LogIsBounded
  <2>2. CASE \E c \in Configs : configure_and_start(c)
    <3>1. PICK c \in Configs : configure_and_start(c)
      BY <2>2
    <3>2. config' = c /\ allowed' = IF n > LogLimit(c) THEN n ELSE LogLimit(c)
      BY <3>1 DEF configure_and_start
    <3>3. LogLimit(c) \in Nat /\ n \in Nat
      BY LimitIsNat, FS_CardinalityType DEF Inv
    <3>4. allowed' \in Nat /\ n <= allowed' /\ LogLimit(c) <= allowed'
      BY <3>2, <3>3
    <3>5. LimitIsAllowed'
      BY <3>2, <3>4 DEF LimitIsAllowed, LogLimit
    <3>6. Cardinality(Pruners') \in Nat
      BY <1>1, PrunersFinite DEF Pruners
    <3>7. n <= allowed' + Cardinality(Pruners')
      BY <3>3, <3>4, <3>6
    <3>8. LogIsBounded'
      BY <1>1, <3>7 DEF LogIsBounded, Pruners
    <3> QED
      BY <3>2, <3>4, <3>5, <3>8
  <2>3. CASE stop \/ RestartNumbers \/ UNCHANGED vars
    <3>1. UNCHANGED <<config, allowed>>
      BY <2>3 DEF stop, RestartNumbers, vars, session
    <3> QED
      BY <2>1, <3>1
  <2> QED
    BY <2>2, <2>3 DEF Control
<1>6. TypeOK'
  BY <1>1, <1>3, <1>4, <1>5 DEF Inv, TypeOK
<1>7. LastWasForwarded' /\ NoHiddenGap'
  BY <1>1 DEF Inv, LastWasForwarded, NoHiddenGap
<1>8. StoredWasForwarded'
  BY <1>1 DEF Inv, StoredWasForwarded, Carrying
<1> QED
  BY <1>1, <1>5, <1>6, <1>7, <1>8 DEF Inv

\* Every step of the packet path preserves the invariant.
LEMMA NextInv == Inv /\ [Next]_vars => Inv'
<1> SUFFICES ASSUME Inv, [Next]_vars PROVE Inv'
  OBVIOUS
<1>1. CASE \E t \in Threads : Step(t)
  BY <1>1, FindInv, InsertInv, PruneInv, SeqReadInv, SeqStoreInv DEF Step
<1>2. CASE \E t \in Threads : ReceiveGarbled(t)
  BY <1>2, GiveUpInv DEF ReceiveGarbled
<1>3. CASE \E t \in Threads, p \in Packets : Receive(t, p)
  BY <1>3, ReceiveInv
<1>4. CASE \E t, u \in Threads : DataRace(t, u)
  BY <1>4, GiveUpInv DEF DataRace
<1>5. CASE Control
  BY <1>5, ControlInv
<1> QED
  BY <1>1, <1>2, <1>3, <1>4, <1>5 DEF Next, Control

-----------------------------------------------------------------------------
(* Theorems *)

\* The packet path keeps its invariant, whatever the threads interleave.
THEOREM Correct == Spec => []Inv
BY InitInv, NextInv, PTL DEF Spec

\* Every variable keeps its type, and the retransmission client's threads never
\* touch the log.
THEOREM TypeCorrect == Spec => []TypeOK
<1>1. Inv => TypeOK
  BY DEF Inv
<1> QED
  BY <1>1, Correct, PTL

\* The log stays within its limit, or what an earlier session left in it, and the
\* number of threads about to prune it, for every number of threads and every
\* sequence of configurations.
THEOREM LogBounded == Spec => []LogIsBounded
<1>1. Inv => LogIsBounded
  BY DEF Inv
<1> QED
  BY <1>1, Correct, PTL

\* A number is judged the expected one only after the number before it reached
\* the SDK, for every number of threads whose lookups and stores interleave.
THEOREM GapNeverHidden == Spec => []NoHiddenGap
<1>1. Inv => NoHiddenGap
  BY DEF Inv
<1> QED
  BY <1>1, Correct, PTL

-----------------------------------------------------------------------------
(* Deduplication *)

\* Every key of the log is that of a packet on its way to the SDK or there.
LogIsCarried ==
  \A k \in deduplication_log : \E p \in Packets : Key(p) = k /\ Carried(p)

DedupInv == TypeOK /\ LogIsCarried /\ DiscardedIsCarried

\* No step of a thread but the end of the program takes a carried packet away.
LEMMA CarriedStable ==
  ASSUME TypeOK, NEW t \in Threads, Step(t), NEW p \in Packets, Carried(p)
  PROVE  Carried(p)'
<1>1. PICK u \in Threads :
        \/ <<u, p>> \in forwarded
        \/ \E s \in {"insert", "prune", "seq_read"} : Carrying(u, s, p)
  BY DEF Carried
<1>2. forwarded \subseteq forwarded'
  BY DEF Step, Find, Insert, Prune, SeqRead, SeqStore
<1>3. CASE <<u, p>> \in forwarded
  BY <1>2, <1>3 DEF Carried
<1>4. CASE u # t /\ \E s \in {"insert", "prune", "seq_read"} : Carrying(u, s, p)
  <2>1. \E w : at' = [at EXCEPT ![t] = w]
    BY DEF Step, Find, Insert, Prune, SeqRead, SeqStore, Goto
  <2>2. at'[u] = at[u]
    BY <1>4, <2>1 DEF TypeOK
  <2> QED
    BY <1>4, <2>2 DEF Carried, Carrying
<1>5. CASE u = t /\ \E s \in {"insert", "prune", "seq_read"} : Carrying(u, s, p)
  <2>1. PICK s \in {"insert", "prune", "seq_read"} : at[t] = [step |-> s, pkt |-> p]
    BY <1>5 DEF Carrying
  <2>2. at[t].step = s /\ at[t].pkt = p
    BY <2>1
  <2>3. ~ Find(t) /\ ~ SeqStore(t)
    <3>1. \A r, q : Carrying(t, r, q) => r = s
      BY <2>2 DEF Carrying
    <3>2. s # "find" /\ s # "seq_store"
      OBVIOUS
    <3> QED
      BY <3>1, <3>2 DEF Find, SeqStore
  <2>4. CASE Insert(t)
    <3>1. PICK q \in Packets : Carrying(t, "insert", q) /\ Goto(t, [step |-> "prune", pkt |-> q])
      BY <2>4 DEF Insert
    <3>2. q = p
      BY <2>2, <3>1 DEF Carrying
    <3>3. at'[t] = [step |-> "prune", pkt |-> p]
      BY <3>1, <3>2 DEF TypeOK, Goto
    <3> QED
      BY <3>3 DEF Carried, Carrying
  <2>5. CASE Prune(t)
    <3>1. PICK q \in Packets : Carrying(t, "prune", q) /\ Goto(t, [step |-> "seq_read", pkt |-> q])
      BY <2>5 DEF Prune
    <3>2. q = p
      BY <2>2, <3>1 DEF Carrying
    <3>3. at'[t] = [step |-> "seq_read", pkt |-> p]
      BY <3>1, <3>2 DEF TypeOK, Goto
    <3> QED
      BY <3>3 DEF Carried, Carrying
  <2>6. CASE SeqRead(t)
    <3>1. PICK q \in Packets : Carrying(t, "seq_read", q) /\ forwarded' = forwarded \cup {<<t, q>>}
      BY <2>6 DEF SeqRead
    <3>2. q = p
      BY <2>2, <3>1 DEF Carrying
    <3> QED
      BY <3>1, <3>2 DEF Carried
  <2> QED
    BY <2>3, <2>4, <2>5, <2>6 DEF Step
<1> QED
  BY <1>1, <1>3, <1>4, <1>5

\* A step of a thread keeps the log and what was discarded carried.
LEMMA DedupStep ==
  ASSUME DedupInv, TypeOK', NEW t \in Threads, Step(t)
  PROVE  DedupInv'
<1> DEFINE HasNumber(p) == \E q \in Packets : SameNumber(p, q) /\ Carried(q)
<1>1. \A p \in Packets : Carried(p) => Carried(p)'
  BY CarriedStable DEF DedupInv
<1>2. discarded \subseteq Packets
  BY DEF DedupInv, TypeOK
<1>3. CASE Find(t)
  <2>1. PICK p \in Packets :
          \/ discarded' = discarded
          \/ discarded' = discarded \cup {p} /\ Key(p) \in deduplication_log
    BY <1>3 DEF Find
  <2>2. deduplication_log' = deduplication_log
    BY <1>3 DEF Find
  <2>3. Key(p) \in deduplication_log => HasNumber(p)
    <3> SUFFICES ASSUME Key(p) \in deduplication_log PROVE HasNumber(p)
      OBVIOUS
    <3>1. PICK q \in Packets : Key(q) = Key(p) /\ Carried(q)
      BY DEF DedupInv, LogIsCarried
    <3>2. SameNumber(p, q)
      BY <3>1, KeysDistinct
    <3> QED
      BY <3>1, <3>2
  <2>4. \A q \in discarded' : HasNumber(q)
    BY <1>2, <2>1, <2>3 DEF DedupInv, DiscardedIsCarried
  <2>5. DiscardedIsCarried'
    BY <1>1, <2>4 DEF DiscardedIsCarried
  <2>6. LogIsCarried'
    BY <1>1, <2>2 DEF DedupInv, LogIsCarried
  <2> QED
    BY <2>5, <2>6 DEF DedupInv
<1>4. CASE ~ Find(t)
  <2>1. discarded' = discarded
    BY <1>4 DEF Step, Insert, Prune, SeqRead, SeqStore
  <2>2. DiscardedIsCarried'
    BY <1>1, <1>2, <2>1 DEF DedupInv, DiscardedIsCarried
  <2>3. CASE Insert(t)
    <3>1. PICK p \in Packets : /\ Carrying(t, "insert", p)
                               /\ deduplication_log' = deduplication_log \cup {Key(p)}
      BY <2>3 DEF Insert
    <3>2. Carried(p)
      BY <3>1 DEF Carried
    <3> QED
      BY <1>1, <2>2, <3>1, <3>2 DEF DedupInv, LogIsCarried
  <2>4. CASE ~ Insert(t)
    <3>1. deduplication_log' \subseteq deduplication_log
      BY <1>4, <2>4 DEF Step, Prune, SeqRead, SeqStore
    <3> QED
      BY <1>1, <2>2, <3>1 DEF DedupInv, LogIsCarried
  <2> QED
    BY <2>3, <2>4
<1> QED
  BY <1>3, <1>4

\* So does every other step.
LEMMA DedupNext ==
  ASSUME DedupInv, TypeOK', [Next]_vars
  PROVE  DedupInv'
<1>1. CASE \E t \in Threads : Step(t)
  BY <1>1, DedupStep
<1>2. CASE \E why \in {"raced", "terminated"} : GiveUp(why)
  BY <1>2 DEF GiveUp, DedupInv, LogIsCarried, DiscardedIsCarried
<1>3. CASE \E t \in Threads, p \in Packets : Receive(t, p)
  <2>1. PICK t \in Threads, p \in Packets : Receive(t, p)
    BY <1>3
  <2>2. at[t] = Idle /\ (\A u \in Threads : u # t => at'[u] = at[u])
    BY <2>1 DEF Receive, Goto, DedupInv, TypeOK
  <2>3. UNCHANGED <<deduplication_log, forwarded, discarded>>
    BY <2>1 DEF Receive
  <2>4. \A s : \A q : ~ Carrying(t, s, q) \/ s = "idle"
    BY <2>2 DEF Carrying, Idle
  <2>5. \A q \in Packets : Carried(q) => Carried(q)'
    BY <2>2, <2>3, <2>4 DEF Carried, Carrying
  <2>6. discarded \subseteq Packets
    BY DEF DedupInv, TypeOK
  <2> QED
    BY <2>3, <2>5, <2>6 DEF DedupInv, LogIsCarried, DiscardedIsCarried
<1>4. CASE Control
  <2>1. UNCHANGED <<at, deduplication_log, forwarded, discarded>>
    BY <1>4, ControlLeaves
  <2>2. \A q \in Packets : Carried(q) => Carried(q)'
    BY <2>1 DEF Carried, Carrying
  <2>3. discarded \subseteq Packets
    BY DEF DedupInv, TypeOK
  <2> QED
    BY <2>1, <2>2, <2>3 DEF DedupInv, LogIsCarried, DiscardedIsCarried
<1> QED
  BY <1>1, <1>2, <1>3, <1>4 DEF Next, Control, ReceiveGarbled, DataRace

\* A packet is dropped as a duplicate only if one with its channel and number is on
\* its way to the SDK or has reached it, for every number of threads, every set of
\* packets and every sequence of configurations; numbers beyond 32 bits excepted.
THEOREM DuplicatesOnly == Spec => []DiscardedIsCarried
<1>1. Init => DedupInv
  <2>1. Init => TypeOK
    BY InitInv DEF Inv
  <2> QED
    BY <2>1 DEF Init, DedupInv, LogIsCarried, DiscardedIsCarried
<1>2. DedupInv /\ TypeOK' /\ [Next]_vars => DedupInv'
  BY DedupNext
<1>3. DedupInv => DiscardedIsCarried
  BY DEF DedupInv
<1> QED
  BY <1>1, <1>2, <1>3, TypeCorrect, PTL DEF Spec

\* Numbers that fit their place in the key, each used for one packet of its channel
\* and its copies: no restart of the exchange without a new manager.
NumbersNotReused ==
  /\ \A p \in Packets : p.seq < KeyBase
  /\ \A p, q \in Packets : p.ch = q.ch /\ p.seq = q.seq => Copies(p, q)

\* What is dropped as a duplicate is one: a copy of the packet itself is on its way
\* to the SDK or there.
CopyIsCarried ==
  \A p \in discarded : \E q \in Packets : Copies(p, q) /\ Carried(q)

\* As long as no number is used twice on a channel or outgrows the key, only true
\* duplicates are dropped. It is false without that premise: nothing clears the
\* log.
THEOREM CopiesOnly ==
  ASSUME NumbersNotReused
  PROVE  Spec => []CopyIsCarried
<1>1. \A p, q \in Packets : SameNumber(p, q) => Copies(p, q)
  <2> SUFFICES ASSUME NEW p \in Packets, NEW q \in Packets, SameNumber(p, q)
               PROVE  Copies(p, q)
    OBVIOUS
  <2>1. /\ p.seq \in Nat /\ q.seq \in Nat /\ KeyBase \in Nat
        /\ p.seq < KeyBase /\ q.seq < KeyBase
    BY NumbersAssumption DEF NumbersNotReused
  <2>2. p.ch = q.ch /\ p.seq = q.seq
    BY <2>1 DEF SameNumber
  <2> QED
    BY <2>2 DEF NumbersNotReused
<1>2. TypeOK /\ DiscardedIsCarried => CopyIsCarried
  BY <1>1 DEF TypeOK, DiscardedIsCarried, CopyIsCarried
<1> QED
  BY <1>2, TypeCorrect, DuplicatesOnly, PTL

=============================================================================
