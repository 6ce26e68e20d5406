------------------------ MODULE MarketDataFeedProofs ------------------------
(***************************************************************************)
(* First the book on its own (Spec): its invariants, for every set of      *)
(* prices and sizes, every range of sequence numbers and every number of   *)
(* entries; of the assumptions these proofs use OrderBook's alone. Then    *)
(* the feed (FeedSpec): the client's book mirrors the exchange's, and the  *)
(* book in the feed is an OrderBook, for every finite set of quotes, every *)
(* disclosed depth, every number of messages in flight and every range of  *)
(* sequence numbers.                                                       *)
(***************************************************************************)
EXTENDS MarketDataFeed, SequenceTheorems, FiniteSetTheorems, TLAPS

-----------------------------------------------------------------------------
(* The book *)

\* The signed price of an entry is one of the prices, and an integer.
LEMMA SignedPrice ==
  ASSUME NEW e \in Entries
  PROVE  /\ apply_sign_to_price(e.quote[1], e.quote[2]) \in Prices
         /\ e.md_entry_size \in Sizes
         /\ e.md_entry_size \in Nat
         /\ e.md_entry_type \in EntryTypes
BY SizesAssumption DEF Entries, Prices

\* Writing a level of a price map yields a price map that has the level and
\* leaves every other one as it was.
LEMMA SetLevelMap ==
  ASSUME NEW m \in Levels, NEW p \in Prices, NEW q \in Sizes
  PROVE  /\ SetLevel(m, p, q) \in Levels
         /\ DOMAIN SetLevel(m, p, q) = DOMAIN m \cup {p}
         /\ SetLevel(m, p, q)[p] = q
         /\ \A x \in DOMAIN m \ {p} : SetLevel(m, p, q)[x] = m[x]
<1>1. PICK P \in SUBSET Prices : m \in [P -> Sizes]
  BY DEF Levels
<1>2. /\ P \cup {p} \in SUBSET Prices
      /\ SetLevel(m, p, q) \in [P \cup {p} -> Sizes]
  BY <1>1 DEF SetLevel
<1>3. SetLevel(m, p, q) \in Levels
  BY <1>2 DEF Levels
<1> QED
  BY <1>3 DEF SetLevel

\* Erasing a level of a price map, present or not, yields a price map without
\* it and leaves every other one as it was.
LEMMA EraseLevelMap ==
  ASSUME NEW m \in Levels, NEW p \in Prices
  PROVE  /\ EraseLevel(m, p) \in Levels
         /\ DOMAIN EraseLevel(m, p) = DOMAIN m \ {p}
         /\ \A x \in DOMAIN m \ {p} : EraseLevel(m, p)[x] = m[x]
<1>1. PICK P \in SUBSET Prices : m \in [P -> Sizes]
  BY DEF Levels
<1>2. /\ P \ {p} \in SUBSET Prices
      /\ EraseLevel(m, p) \in [P \ {p} -> Sizes]
  BY <1>1 DEF EraseLevel
<1>3. EraseLevel(m, p) \in Levels
  BY <1>2 DEF Levels
<1> QED
  BY <1>3 DEF EraseLevel

\* No level of a price map is empty.
AllPositive(m) == \A x \in DOMAIN m : m[x] > 0

\* A level operation keeps a price map a price map without empty levels, and
\* adds no price but the entry's own.
LEMMA LevelOperations ==
  ASSUME NEW m \in Levels, NEW p \in Prices, NEW q \in Sizes, NEW a \in UpdateActions
  PROVE  /\ NewLevel(m, p, q) \in Levels
         /\ ApplyAction(m, a, p, q) \in Levels
         /\ AllPositive(m) => AllPositive(NewLevel(m, p, q))
         /\ AllPositive(m) => AllPositive(ApplyAction(m, a, p, q))
         /\ DOMAIN NewLevel(m, p, q) \subseteq DOMAIN m \cup {p}
<1> DEFINE set == SetLevel(m, p, q)
           erased == EraseLevel(m, p)
<1>1. q \in Nat
  BY SizesAssumption
<1>2. /\ set \in Levels
      /\ DOMAIN set = DOMAIN m \cup {p}
      /\ set[p] = q
      /\ \A x \in DOMAIN m \ {p} : set[x] = m[x]
  BY SetLevelMap, ZenonT(40)
<1>3. /\ erased \in Levels
      /\ DOMAIN erased = DOMAIN m \ {p}
      /\ \A x \in DOMAIN m \ {p} : erased[x] = m[x]
  BY EraseLevelMap
<1> HIDE DEF set, erased
<1>4. AllPositive(m) => AllPositive(erased)
  BY <1>3 DEF AllPositive
<1>5. AllPositive(m) /\ q > 0 => AllPositive(set)
  BY <1>2 DEF AllPositive
<1>6. NewLevel(m, p, q) = IF q > 0 THEN set ELSE m
  BY DEF NewLevel, set
<1>7. \/ ApplyAction(m, a, p, q) \in {m, erased}
      \/ q > 0 /\ ApplyAction(m, a, p, q) = set
  BY <1>6 DEF ApplyAction, ChangeLevel, set, erased
<1> QED
  BY <1>2, <1>3, <1>4, <1>5, <1>6, <1>7

\* A derived quote is one of the optional levels, at the entry's price.
LEMMA Overlays ==
  ASSUME NEW p \in Prices, NEW q \in Sizes
  PROVE  /\ OverlayQuote(p, q) \in Derived
         /\ \A d \in OverlayQuote(p, q) : d.price = p
BY DEF OverlayQuote, Derived

\* What one iteration of apply_snapshot's loop does to a book.
LEMMA SnapshotEntryEffect ==
  ASSUME NEW b \in Books, NEW e \in Entries, NEW f \in {"0", "1"}
  PROVE  LET c == SnapshotEntry(b, e, f)
             p == apply_sign_to_price(e.quote[1], e.quote[2])
         IN  /\ c \in Books
             /\ c.last_prod_msg_seq = b.last_prod_msg_seq
             /\ AllPositive(b.bids) => AllPositive(c.bids)
             /\ AllPositive(b.asks) => AllPositive(c.asks)
             /\ \A x \in DOMAIN c.bids : x \in DOMAIN b.bids \/ <<"0", x>> = <<e.md_entry_type, p>>
             /\ \A x \in DOMAIN c.asks : x \in DOMAIN b.asks \/ <<"1", x>> = <<e.md_entry_type, p>>
             /\ \A d \in c.derived_bid : d \in b.derived_bid \/ <<"E", d.price>> = <<e.md_entry_type, p>>
             /\ \A d \in c.derived_ask : d \in b.derived_ask \/ <<"F", d.price>> = <<e.md_entry_type, p>>
             /\ f = "1" => c.derived_bid = b.derived_bid /\ c.derived_ask = b.derived_ask
<1> DEFINE p == apply_sign_to_price(e.quote[1], e.quote[2])
           q == e.md_entry_size
           c == SnapshotEntry(b, e, f)
<1>1. p \in Prices /\ q \in Sizes /\ e.md_entry_type \in EntryTypes
  BY SignedPrice
<1>2. /\ b.bids \in Levels /\ b.asks \in Levels
      /\ b.derived_bid \in Derived /\ b.derived_ask \in Derived
  BY DEF Books
<1>3. /\ NewLevel(b.bids, p, q) \in Levels
      /\ AllPositive(b.bids) => AllPositive(NewLevel(b.bids, p, q))
      /\ DOMAIN NewLevel(b.bids, p, q) \subseteq DOMAIN b.bids \cup {p}
      /\ NewLevel(b.asks, p, q) \in Levels
      /\ AllPositive(b.asks) => AllPositive(NewLevel(b.asks, p, q))
      /\ DOMAIN NewLevel(b.asks, p, q) \subseteq DOMAIN b.asks \cup {p}
  BY <1>1, <1>2, LevelOperations DEF UpdateActions
<1>4. OverlayQuote(p, q) \in Derived /\ \A d \in OverlayQuote(p, q) : d.price = p
  BY <1>1, Overlays
<1> HIDE DEF p, q
<1>5. \/ e.md_entry_type = "0" /\ c = [b EXCEPT !.bids = NewLevel(@, p, q)]
      \/ e.md_entry_type = "1" /\ c = [b EXCEPT !.asks = NewLevel(@, p, q)]
      \/ e.md_entry_type = "E" /\ f = "0" /\ c = [b EXCEPT !.derived_bid = OverlayQuote(p, q)]
      \/ e.md_entry_type = "F" /\ f = "0" /\ c = [b EXCEPT !.derived_ask = OverlayQuote(p, q)]
      \/ c = b
  BY DEF SnapshotEntry, p, q
<1> HIDE DEF c
<1>6. CASE e.md_entry_type = "0" /\ c = [b EXCEPT !.bids = NewLevel(@, p, q)]
  BY <1>2, <1>3, <1>6 DEF Books, c, p
<1>7. CASE e.md_entry_type = "1" /\ c = [b EXCEPT !.asks = NewLevel(@, p, q)]
  BY <1>2, <1>3, <1>7 DEF Books, c, p
<1>8. CASE e.md_entry_type = "E" /\ f = "0" /\ c = [b EXCEPT !.derived_bid = OverlayQuote(p, q)]
  BY <1>2, <1>4, <1>8 DEF Books, c, p
<1>9. CASE e.md_entry_type = "F" /\ f = "0" /\ c = [b EXCEPT !.derived_ask = OverlayQuote(p, q)]
  BY <1>2, <1>4, <1>9 DEF Books, c, p
<1>10. CASE c = b
  BY <1>10 DEF c, p
<1> QED
  BY <1>5, <1>6, <1>7, <1>8, <1>9, <1>10

\* What one iteration of apply_update's loop does to a book.
LEMMA UpdateEntryEffect ==
  ASSUME NEW b \in Books, NEW e \in Entries
  PROVE  LET c == UpdateEntry(b, e)
         IN  /\ c \in Books
             /\ c.last_prod_msg_seq = b.last_prod_msg_seq
             /\ AllPositive(b.bids) => AllPositive(c.bids)
             /\ AllPositive(b.asks) => AllPositive(c.asks)
<1> DEFINE p == apply_sign_to_price(e.quote[1], e.quote[2])
           q == e.md_entry_size
           a == e.md_update_action
           c == UpdateEntry(b, e)
<1>1. p \in Prices /\ q \in Sizes /\ a \in UpdateActions
  BY SignedPrice DEF Entries
<1>2. /\ b.bids \in Levels /\ b.asks \in Levels
      /\ b.derived_bid \in Derived /\ b.derived_ask \in Derived
  BY DEF Books
<1>3. /\ ApplyAction(b.bids, a, p, q) \in Levels
      /\ AllPositive(b.bids) => AllPositive(ApplyAction(b.bids, a, p, q))
      /\ ApplyAction(b.asks, a, p, q) \in Levels
      /\ AllPositive(b.asks) => AllPositive(ApplyAction(b.asks, a, p, q))
  BY <1>1, <1>2, LevelOperations
<1>4. OverlayQuote(p, q) \in Derived
  BY <1>1, Overlays
<1> HIDE DEF p, q, a
<1>5. \/ c = [b EXCEPT !.bids = ApplyAction(@, a, p, q)]
      \/ c = [b EXCEPT !.asks = ApplyAction(@, a, p, q)]
      \/ c = [b EXCEPT !.derived_bid = OverlayQuote(p, q)]
      \/ c = [b EXCEPT !.derived_ask = OverlayQuote(p, q)]
      \/ c = b
  BY DEF UpdateEntry, p, q, a
<1> HIDE DEF c
<1>6. CASE c = [b EXCEPT !.bids = ApplyAction(@, a, p, q)]
  BY <1>2, <1>3, <1>6 DEF Books, c
<1>7. CASE c = [b EXCEPT !.asks = ApplyAction(@, a, p, q)]
  BY <1>2, <1>3, <1>7 DEF Books, c
<1>8. CASE c = [b EXCEPT !.derived_bid = OverlayQuote(p, q)]
  BY <1>2, <1>4, <1>8 DEF Books, c
<1>9. CASE c = [b EXCEPT !.derived_ask = OverlayQuote(p, q)]
  BY <1>2, <1>4, <1>9 DEF Books, c
<1>10. CASE c = b
  BY <1>10 DEF c
<1> QED
  BY <1>5, <1>6, <1>7, <1>8, <1>9, <1>10

-----------------------------------------------------------------------------

\* The empty book and a rebased book are books, without levels or quotes.
LEMMA FreshBooks ==
  ASSUME NEW seq \in 0..MaxSeq
  PROVE  /\ EmptyBook \in Books
         /\ RebasedBook(seq) \in Books
         /\ RebasedBook(seq).last_prod_msg_seq = seq
         /\ EmptyBook.last_prod_msg_seq = 0
         /\ \A b \in {EmptyBook, RebasedBook(seq)} :
              /\ DOMAIN b.bids = {} /\ DOMAIN b.asks = {}
              /\ b.derived_bid = {} /\ b.derived_ask = {}
<1>1. NoLevels \in [{} -> Sizes] /\ DOMAIN NoLevels = {}
  BY DEF NoLevels
<1>2. NoLevels \in Levels
  BY <1>1 DEF Levels
<1>3. {} \in Derived
  BY DEF Derived
<1>4. 0 \in 0..MaxSeq
  BY BoundsAssumption
<1>5. RebasedBook(seq) = [bids |-> NoLevels, asks |-> NoLevels, derived_bid |-> {},
                          derived_ask |-> {}, last_prod_msg_seq |-> seq]
  BY DEF EmptyBook, RebasedBook
<1>6. EmptyBook \in Books /\ RebasedBook(seq) \in Books
  BY <1>2, <1>3, <1>4, <1>5 DEF EmptyBook, Books
<1> QED
  BY <1>1, <1>5, <1>6 DEF EmptyBook

\* The inductive invariant. NoEmptyLevel, SnapshotLeavesNoResidue,
\* NoDerivedInAuction and SeqIsHighWater are inductive together with the types,
\* because every one of them is about the book between two entries as well.
Inv ==
  /\ TypeOK
  /\ NoEmptyLevel
  /\ SnapshotLeavesNoResidue
  /\ NoDerivedInAuction
  /\ SeqIsHighWater

\* A new book satisfies the invariant.
LEMMA InitInv == Init => Inv
<1> SUFFICES ASSUME Init PROVE Inv
  OBVIOUS
<1>1. 0 \in 0..MaxSeq /\ 0 \in 0..MaxEntries
  BY BoundsAssumption
<1>2. TypeOK
  BY <1>1, FreshBooks DEF Init, TypeOK, Messages, NoMessage
<1>3. NoEmptyLevel /\ SeqIsHighWater
  BY <1>1, FreshBooks DEF Init, NoEmptyLevel, SeqIsHighWater
<1>4. SnapshotLeavesNoResidue /\ NoDerivedInAuction
  BY DEF Init, NoMessage, SnapshotLeavesNoResidue, NoDerivedInAuction
<1> QED
  BY <1>2, <1>3, <1>4 DEF Inv

\* reset() leaves an empty book, of which the invariant holds.
LEMMA ResetInv == Inv /\ reset => Inv'
<1> SUFFICES ASSUME Inv, reset PROVE Inv'
  OBVIOUS
<1>1. 0 \in 0..MaxSeq /\ 0 \in 0..MaxEntries
  BY BoundsAssumption
<1>2. TypeOK'
  BY <1>1, FreshBooks DEF reset, TypeOK, Messages, NoMessage
<1>3. NoEmptyLevel' /\ SeqIsHighWater'
  BY <1>1, FreshBooks DEF reset, NoEmptyLevel, SeqIsHighWater
<1>4. SnapshotLeavesNoResidue' /\ NoDerivedInAuction'
  BY DEF reset, NoMessage, SnapshotLeavesNoResidue, NoDerivedInAuction
<1> QED
  BY <1>2, <1>3, <1>4 DEF Inv

\* apply_snapshot up to its loop: the book is emptied and rebased.
LEMMA BeginSnapshotInv ==
  ASSUME NEW seq \in 0..MaxSeq, NEW flag \in {"0", "1"}, NEW n \in 0..MaxEntries,
         Inv, BeginSnapshot(seq, flag, n)
  PROVE  Inv'
<1>1. seq \in Int
  BY BoundsAssumption
<1>2. TypeOK'
  BY FreshBooks DEF BeginSnapshot, TypeOK, Messages
<1>3. NoEmptyLevel' /\ SnapshotLeavesNoResidue' /\ NoDerivedInAuction'
  BY FreshBooks DEF BeginSnapshot, NoEmptyLevel, SnapshotLeavesNoResidue, NoDerivedInAuction
<1>4. SeqIsHighWater'
  BY <1>1, FreshBooks DEF BeginSnapshot, SeqIsHighWater
<1> QED
  BY <1>2, <1>3, <1>4 DEF Inv

\* apply_update up to its loop: only the sequence number can change.
LEMMA BeginUpdateInv ==
  ASSUME NEW seq \in 0..MaxSeq, NEW n \in 0..MaxEntries, Inv, BeginUpdate(seq, n)
  PROVE  Inv'
<1> DEFINE known == book.last_prod_msg_seq
<1>1. /\ seq \in Nat /\ known \in Nat /\ known \in 0..MaxSeq
      /\ \A s \in applied : s \in Nat
  BY BoundsAssumption DEF Inv, TypeOK, Books
<1>2. book \in Books
  BY DEF Inv, TypeOK
<1>3. /\ book' \in Books
      /\ book'.bids = book.bids /\ book'.asks = book.asks
      /\ book'.last_prod_msg_seq = IF seq > known \/ known = 0 THEN seq ELSE known
  BY <1>2 DEF BeginUpdate, SequencedBook, Books
<1>4. TypeOK'
  BY <1>3 DEF Inv, BeginUpdate, TypeOK, Messages
<1>5. NoEmptyLevel'
  BY <1>3 DEF Inv, NoEmptyLevel
<1>6. SnapshotLeavesNoResidue' /\ NoDerivedInAuction'
  BY DEF BeginUpdate, SnapshotLeavesNoResidue, NoDerivedInAuction
<1>7. SeqIsHighWater'
  BY <1>1, <1>3 DEF Inv, BeginUpdate, SeqIsHighWater
<1> QED
  BY <1>4, <1>5, <1>6, <1>7 DEF Inv

\* One entry of a snapshot or of an update is applied.
LEMMA ApplyEntryInv ==
  ASSUME NEW e \in Entries, Inv, ApplyEntry(e)
  PROVE  Inv'
<1> DEFINE p == apply_sign_to_price(e.quote[1], e.quote[2])
<1>1. /\ book \in Books /\ msg \in Messages /\ msg.calculated_flag \in {"0", "1"}
      /\ AllPositive(book.bids) /\ AllPositive(book.asks)
  BY DEF Inv, TypeOK, Messages, NoEmptyLevel, AllPositive
<1>2. /\ msg' \in Messages
      /\ msg'.kind = msg.kind /\ msg'.calculated_flag = msg.calculated_flag
  <2>1. msg.left \in 0..MaxEntries /\ msg.left # 0
    BY <1>1 DEF ApplyEntry, Idle, Messages
  <2>2. msg.left - 1 \in 0..MaxEntries
    BY <2>1, BoundsAssumption
  <2> QED
    BY <1>1, <2>2 DEF ApplyEntry, Messages
<1>3. named' = named \cup {<<e.md_entry_type, p>>} /\ <<e.md_entry_type, p>> \in EntryTypes \X Prices
  BY SignedPrice DEF ApplyEntry, Name
<1> HIDE DEF p
<1>4. /\ book' \in Books
      /\ book'.last_prod_msg_seq = book.last_prod_msg_seq
      /\ AllPositive(book'.bids) /\ AllPositive(book'.asks)
  <2>1. CASE msg.kind = "snapshot"
    BY <1>1, <2>1, SnapshotEntryEffect, SMTT(30) DEF ApplyEntry
  <2>2. CASE msg.kind = "update"
    BY <1>1, <2>2, UpdateEntryEffect DEF ApplyEntry
  <2> QED
    BY <2>1, <2>2 DEF ApplyEntry
<1>5. TypeOK'
  BY <1>2, <1>3, <1>4 DEF Inv, ApplyEntry, TypeOK
<1>6. NoEmptyLevel'
  BY <1>4 DEF NoEmptyLevel, AllPositive
<1>7. SeqIsHighWater'
  BY <1>4 DEF Inv, ApplyEntry, SeqIsHighWater
<1>8. ASSUME msg'.kind = "snapshot"
      PROVE  /\ SnapshotLeavesNoResidue'
             /\ NoDerivedInAuction'
  <2>1. msg.kind = "snapshot" /\ book' = SnapshotEntry(book, e, msg.calculated_flag)
    BY <1>2, <1>8 DEF ApplyEntry
  <2>2. /\ \A x \in DOMAIN book'.bids : x \in DOMAIN book.bids \/ <<"0", x>> = <<e.md_entry_type, p>>
        /\ \A x \in DOMAIN book'.asks : x \in DOMAIN book.asks \/ <<"1", x>> = <<e.md_entry_type, p>>
        /\ \A d \in book'.derived_bid : d \in book.derived_bid \/ <<"E", d.price>> = <<e.md_entry_type, p>>
        /\ \A d \in book'.derived_ask : d \in book.derived_ask \/ <<"F", d.price>> = <<e.md_entry_type, p>>
        /\ msg.calculated_flag = "1" =>
             book'.derived_bid = book.derived_bid /\ book'.derived_ask = book.derived_ask
    BY <1>1, <2>1, SnapshotEntryEffect DEF p
  <2>3. SnapshotLeavesNoResidue /\ NoDerivedInAuction
    BY DEF Inv
  <2>4. SnapshotLeavesNoResidue'
    BY <1>3, <2>1, <2>2, <2>3 DEF SnapshotLeavesNoResidue
  <2>5. NoDerivedInAuction'
    BY <1>2, <2>1, <2>2, <2>3 DEF NoDerivedInAuction
  <2> QED
    BY <2>4, <2>5
<1>9. SnapshotLeavesNoResidue' /\ NoDerivedInAuction'
  BY <1>8 DEF SnapshotLeavesNoResidue, NoDerivedInAuction
<1> QED
  BY <1>5, <1>6, <1>7, <1>9 DEF Inv

\* Every step of the book preserves the invariant.
LEMMA NextInv == Inv /\ [Next]_vars => Inv'
<1> SUFFICES ASSUME Inv, [Next]_vars PROVE Inv'
  OBVIOUS
<1>1. CASE reset
  BY <1>1, ResetInv
<1>2. ASSUME NEW seq \in 0..MaxSeq, NEW flag \in {"0", "1"}, NEW n \in 0..MaxEntries,
             BeginSnapshot(seq, flag, n)
      PROVE  Inv'
  BY <1>2, BeginSnapshotInv
<1>3. ASSUME NEW seq \in 0..MaxSeq, NEW n \in 0..MaxEntries, BeginUpdate(seq, n)
      PROVE  Inv'
  BY <1>3, BeginUpdateInv
<1>4. ASSUME NEW e \in Entries, ApplyEntry(e)
      PROVE  Inv'
  BY <1>4, ApplyEntryInv
<1>5. CASE UNCHANGED vars
  BY <1>5 DEF vars, Inv, TypeOK, NoEmptyLevel, SnapshotLeavesNoResidue,
              NoDerivedInAuction, SeqIsHighWater, Idle
<1> QED
  BY <1>1, <1>2, <1>3, <1>4, <1>5 DEF Next

\* Every book reached by any sequence of resets, snapshots and updates has its
\* type and satisfies the four safety invariants of the component.
THEOREM Correct == Spec => []Inv
BY InitInv, NextInv, PTL DEF Spec

\* Type correctness of the book and of the message being applied.
THEOREM TypeCorrect == Spec => []TypeOK
BY Correct, PTL DEF Inv

\* No level of quantity zero is ever on a side of the book.
THEOREM LevelsNotEmpty == Spec => []NoEmptyLevel
BY Correct, PTL DEF Inv

\* After a snapshot nothing of the earlier book is left.
THEOREM SnapshotReplacesBook == Spec => []SnapshotLeavesNoResidue
BY Correct, PTL DEF Inv

\* A call auction's snapshot shows no derived quotes.
THEOREM AuctionHasNoDerived == Spec => []NoDerivedInAuction
BY Correct, PTL DEF Inv

\* The recorded sequence number is the highest one applied since the rebase.
THEOREM SequenceHighWater == Spec => []SeqIsHighWater
BY Correct, PTL DEF Inv

-----------------------------------------------------------------------------
(* Ranks in a finite set of prices *)

\* The members of a finite set of prices that are above a price.
Higher(S, p) == {r \in S : r > p}

\* In a finite set of integers the number of higher members falls strictly from
\* one member to a higher one, and is less than the number of members.
LEMMA RankFalls ==
  ASSUME NEW S, IsFiniteSet(S), S \subseteq Int
  PROVE  /\ \A p \in S : /\ IsFiniteSet(Higher(S, p))
                         /\ Cardinality(Higher(S, p)) \in 0..(Cardinality(S) - 1)
         /\ \A p, s \in S : p < s => Cardinality(Higher(S, s)) < Cardinality(Higher(S, p))
<1>1. ASSUME NEW T \in SUBSET S
      PROVE  IsFiniteSet(T) /\ Cardinality(T) \in Nat /\ Cardinality(T) <= Cardinality(S)
  BY <1>1, FS_Subset, FS_CardinalityType
<1>2. \A p \in S : Higher(S, p) \in SUBSET S
  BY DEF Higher
<1>3. ASSUME NEW p \in S
      PROVE  /\ IsFiniteSet(Higher(S, p))
             /\ Cardinality(Higher(S, p)) \in 0..(Cardinality(S) - 1)
  <2>1. /\ IsFiniteSet(S \ {p})
        /\ Cardinality(S \ {p}) = Cardinality(S) - 1
    BY <1>3, FS_RemoveElement
  <2>2. Higher(S, p) \in SUBSET (S \ {p})
    BY DEF Higher
  <2>3. Cardinality(Higher(S, p)) <= Cardinality(S \ {p})
    BY <2>1, <2>2, FS_Subset
  <2>4. IsFiniteSet(Higher(S, p)) /\ Cardinality(Higher(S, p)) \in Nat
    BY <1>1, <1>2
  <2>5. Cardinality(S) \in Nat
    BY FS_CardinalityType
  <2> QED
    BY <2>1, <2>3, <2>4, <2>5
<1>4. ASSUME NEW p \in S, NEW s \in S, p < s
      PROVE  Cardinality(Higher(S, s)) < Cardinality(Higher(S, p))
  <2>1. IsFiniteSet(Higher(S, p)) /\ IsFiniteSet(Higher(S, s))
    BY <1>3
  <2>2. s \in Higher(S, p) /\ s \notin Higher(S, s)
    BY <1>4 DEF Higher
  <2>3. Higher(S, s) \in SUBSET Higher(S, p)
    <3>1. \A r \in S : r \in Int
      OBVIOUS
    <3>2. \A r \in S : r > s => r > p
      BY <1>4, <3>1
    <3> QED
      BY <3>2 DEF Higher
  <2>4. /\ Cardinality(Higher(S, s)) <= Cardinality(Higher(S, p))
        /\ Cardinality(Higher(S, p)) = Cardinality(Higher(S, s)) => Higher(S, p) = Higher(S, s)
    BY <2>1, <2>3, FS_Subset
  <2>5. Cardinality(Higher(S, p)) # Cardinality(Higher(S, s))
    BY <2>2, <2>4
  <2>6. Cardinality(Higher(S, p)) \in Nat /\ Cardinality(Higher(S, s)) \in Nat
    BY <2>1, FS_CardinalityType
  <2> QED
    BY <2>4, <2>5, <2>6
<1> QED
  BY <1>3, <1>4

\* Every rank below the number of members is the rank of exactly one of them.
LEMMA EveryRank ==
  ASSUME NEW S, IsFiniteSet(S), S \subseteq Int
  PROVE  \A i \in 1..Cardinality(S) : \E p \in S : Cardinality(Higher(S, p)) = i - 1
<1> DEFINE T == 0..(Cardinality(S) - 1)
           f == [p \in S |-> Cardinality(Higher(S, p))]
<1>1. Cardinality(S) \in Nat
  BY FS_CardinalityType
<1>2. IsFiniteSet(T) /\ Cardinality(T) = Cardinality(S)
  <2>1. 0 \in Int /\ Cardinality(S) - 1 \in Int
    BY <1>1
  <2>2. /\ IsFiniteSet(0..(Cardinality(S) - 1))
        /\ Cardinality(0..(Cardinality(S) - 1)) =
             IF 0 > Cardinality(S) - 1 THEN 0 ELSE Cardinality(S) - 1 - 0 + 1
    BY <2>1, FS_Interval
  <2> QED
    BY <1>1, <2>2
<1>r. /\ \A p \in S : /\ IsFiniteSet(Higher(S, p))
                        /\ Cardinality(Higher(S, p)) \in 0..(Cardinality(S) - 1)
      /\ \A p, s \in S : p < s => Cardinality(Higher(S, s)) < Cardinality(Higher(S, p))
  BY RankFalls
<1>3. f \in [S -> T]
  BY <1>r
<1>4. ASSUME NEW p \in S, NEW s \in S, f[p] = f[s]
      PROVE  p = s
  <2>1. p \in Int /\ s \in Int
    OBVIOUS
  <2>2. Cardinality(Higher(S, p)) \in Int /\ Cardinality(Higher(S, s)) \in Int
    BY <1>1, <1>r
  <2>3. ~ (p < s) /\ ~ (s < p)
    BY <1>4, <1>r, <2>2
  <2> QED
    BY <2>1, <2>3
<1>5. f \in Injection(S, T)
  BY <1>3, <1>4 DEF Injection, IsInjective
<1> HIDE DEF T, f
<1>6. f \in Surjection(S, T)
  BY <1>2, <1>5, FS_Injection
<1>7. \A t \in T : \E p \in S : f[p] = t
  BY <1>6 DEF Surjection
<1>8. \A i \in 1..Cardinality(S) : i - 1 \in T
  BY <1>1 DEF T
<1> QED
  BY <1>7, <1>8 DEF f

-----------------------------------------------------------------------------
(* The exchange's views and entries *)

\* What the exchange can disclose: levels of positive quantity.
Views == UNION {[P -> Sizes \ {0}] : P \in SUBSET Prices}

\* Entries for the bid side.
BidEntries == {e \in Entries : e.md_entry_type = "0"}

\* Signed prices are integers, and there are finitely many.
LEMMA FinitePrices == Prices \subseteq Int /\ IsFiniteSet(Prices)
<1> DEFINE f == [q \in Quotes |-> apply_sign_to_price(q[1], q[2])]
<1>1. f \in [Quotes -> Prices]
  BY DEF Prices
<1>2. \A p \in Prices : \E q \in Quotes : f[q] = p
  BY DEF Prices
<1>3. f \in Surjection(Quotes, Prices)
  BY <1>1, <1>2 DEF Surjection
<1>4. IsFiniteSet(Prices)
  BY <1>3, FeedAssumption, FS_Surjection
<1>5. ASSUME NEW q \in Quotes
      PROVE  apply_sign_to_price(q[1], q[2]) \in Int
  <2>1. q[1] \in Nat
    BY QuotesAssumption
  <2> QED
    BY <2>1 DEF apply_sign_to_price
<1>6. Prices \subseteq Int
  BY <1>5 DEF Prices
<1> QED
  BY <1>4, <1>6

\* An entry made for a price has that price.
LEMMA EntryForPrice ==
  ASSUME NEW a \in UpdateActions, NEW p \in Prices, NEW q \in Sizes
  PROVE  /\ BidEntry(a, p, q) \in BidEntries
         /\ EntryPrice(BidEntry(a, p, q)) = p
         /\ BidEntry(a, p, q).md_update_action = a
         /\ BidEntry(a, p, q).md_entry_size = q
<1> DEFINE t == CHOOSE quote \in Quotes : apply_sign_to_price(quote[1], quote[2]) = p
<1>1. \E quote \in Quotes : apply_sign_to_price(quote[1], quote[2]) = p
  BY DEF Prices
<1>2. t \in Quotes /\ apply_sign_to_price(t[1], t[2]) = p
  BY <1>1
<1>3. BidEntry(a, p, q) = [md_entry_type |-> "0", md_update_action |-> a,
                           quote |-> t, md_entry_size |-> q]
  BY DEF BidEntry
<1> HIDE DEF t
<1>4. BidEntry(a, p, q) \in Entries
  BY <1>2, <1>3 DEF Entries, EntryTypes
<1>5. BidEntry(a, p, q).quote = t
  BY <1>3
<1> QED
  BY <1>2, <1>3, <1>4, <1>5 DEF BidEntries, EntryPrice

\* The price of an entry is a price.
LEMMA PriceOfEntry ==
  ASSUME NEW e \in BidEntries
  PROVE  e \in Entries /\ EntryPrice(e) \in Prices /\ e.md_entry_size \in Sizes
BY SignedPrice DEF BidEntries, EntryPrice

\* A view is a function of finitely many integers, and its quantities are positive.
LEMMA ViewLevels ==
  ASSUME NEW v \in Views
  PROVE  /\ DOMAIN v \subseteq Prices /\ DOMAIN v \subseteq Int /\ IsFiniteSet(DOMAIN v)
         /\ \A p \in DOMAIN v : v[p] \in Sizes /\ v[p] > 0
<1>1. PICK P \in SUBSET Prices : v \in [P -> Sizes \ {0}]
  BY DEF Views
<1>2. DOMAIN v = P
  BY <1>1
<1>3. IsFiniteSet(P)
  BY <1>1, FinitePrices, FS_Subset
<1>4. P \subseteq Int
  BY FinitePrices
<1>5. \A p \in P : v[p] \in Sizes /\ v[p] # 0
  BY <1>1
<1>6. \A q \in Sizes : q # 0 => q > 0
  BY SizesAssumption
<1> QED
  BY <1>1, <1>2, <1>3, <1>4, <1>5, <1>6

\* The prices above a price, among those that have orders, are finitely many.
LEMMA AboveFinite ==
  ASSUME NEW o \in [Prices -> Sizes]
  PROVE  /\ Live(o) \subseteq Prices /\ Live(o) \subseteq Int /\ IsFiniteSet(Live(o))
         /\ InView(o) \subseteq Live(o)
         /\ \A p : /\ IsFiniteSet(Above(o, p))
                   /\ Cardinality(Above(o, p)) \in Nat
<1>1. Live(o) \in SUBSET Prices
  BY DEF Live
<1>2. IsFiniteSet(Live(o)) /\ Live(o) \subseteq Int
  BY <1>1, FinitePrices, FS_Subset
<1>3. ASSUME NEW p
      PROVE  IsFiniteSet(Above(o, p)) /\ Cardinality(Above(o, p)) \in Nat
  <2>1. Above(o, p) \in SUBSET Live(o)
    BY DEF Above
  <2> QED
    BY <1>2, <2>1, FS_Subset, FS_CardinalityType
<1>4. InView(o) \subseteq Live(o)
  BY DEF InView
<1> QED
  BY <1>1, <1>2, <1>3, <1>4

\* What is disclosed is a view, of no more than Depth levels.
LEMMA DisclosedView ==
  ASSUME NEW o \in [Prices -> Sizes]
  PROVE  /\ Disclosed(o) \in Views
         /\ DOMAIN Disclosed(o) = InView(o)
         /\ \A p \in InView(o) : Disclosed(o)[p] = o[p]
         /\ Cardinality(InView(o)) <= Depth
<1>1. InView(o) \in SUBSET Prices /\ InView(o) \subseteq Live(o)
  BY AboveFinite
<1>2. \A p \in Live(o) : o[p] \in Sizes \ {0}
  <2>1. \A p \in Live(o) : p \in Prices /\ o[p] > 0
    BY DEF Live
  <2> QED
    BY <2>1
<1>3. Disclosed(o) \in [InView(o) -> Sizes \ {0}]
  BY <1>1, <1>2 DEF Disclosed
<1>4. Disclosed(o) \in Views
  BY <1>1, <1>3 DEF Views
<1>5. Cardinality(InView(o)) <= Depth
  <2> DEFINE T == 0..(Depth - 1)
             f == [p \in InView(o) |-> Cardinality(Above(o, p))]
             S == Live(o)
  <2>1. IsFiniteSet(S) /\ S \subseteq Int
    BY AboveFinite
  <2>2. \A p : Above(o, p) = Higher(S, p)
    BY DEF Above, Higher
  <2>3. /\ \A p \in S : /\ IsFiniteSet(Higher(S, p))
                        /\ Cardinality(Higher(S, p)) \in 0..(Cardinality(S) - 1)
        /\ \A p, s \in S : p < s => Cardinality(Higher(S, s)) < Cardinality(Higher(S, p))
    BY <2>1, RankFalls
  <2>4. Depth \in Nat \ {0}
    BY DepthAssumption
  <2>5. \A p \in InView(o) : p \in S /\ p \in Int /\ Cardinality(Above(o, p)) \in Nat
                             /\ Cardinality(Above(o, p)) < Depth
    BY <2>1, AboveFinite DEF InView
  <2>6. f \in [InView(o) -> T]
    <3>1. \A p \in InView(o) : Cardinality(Above(o, p)) \in 0..(Depth - 1)
      BY <2>4, <2>5
    <3> QED
      BY <3>1
  <2>7. ASSUME NEW p \in InView(o), NEW s \in InView(o), f[p] = f[s]
        PROVE  p = s
    <3>1. Cardinality(Above(o, p)) = Cardinality(Above(o, s))
      BY <2>7
    <3>2. ~ (p < s) /\ ~ (s < p)
      BY <2>2, <2>3, <2>5, <3>1
    <3> QED
      BY <2>5, <3>2
  <2>8. f \in Injection(InView(o), T)
    BY <2>6, <2>7 DEF Injection, IsInjective
  <2>9. IsFiniteSet(T) /\ Cardinality(T) = Depth
    <3>1. 0 \in Int /\ Depth - 1 \in Int
      BY <2>4
    <3>2. /\ IsFiniteSet(0..(Depth - 1))
          /\ Cardinality(0..(Depth - 1)) = IF 0 > Depth - 1 THEN 0 ELSE Depth - 1 - 0 + 1
      BY <3>1, FS_Interval
    <3> QED
      BY <2>4, <3>2
  <2> HIDE DEF T, f
  <2>10. Cardinality(InView(o)) <= Cardinality(T)
    BY <2>8, <2>9, FS_Injection
  <2> QED
    BY <2>9, <2>10
<1> QED
  BY <1>3, <1>4, <1>5 DEF Disclosed

\* Entries say what a view has: a deleted price is not in it, any other is there
\* with the entry's quantity.
Agree(entries, v) ==
  \A i \in DOMAIN entries :
    /\ entries[i].md_update_action \in {"0", "1", "2"}
    /\ IF entries[i].md_update_action = "2"
       THEN EntryPrice(entries[i]) \notin DOMAIN v
       ELSE /\ EntryPrice(entries[i]) \in DOMAIN v
            /\ v[EntryPrice(entries[i])] = entries[i].md_entry_size

\* Every entry is New, as every entry of a snapshot is.
AllNew(entries) == \A i \in DOMAIN entries : entries[i].md_update_action = "0"

\* A message says what a view has, and a snapshot says all of it.
Tells(m, v) ==
  /\ Agree(m.entries, v)
  /\ m.kind = "snapshot" => DOMAIN v = EntryPrices(m.entries)

\* A message sent when the exchange disclosed v, which had disclosed u before.
Leads(u, m, v) ==
  /\ Tells(m, v)
  /\ m.kind = "snapshot" => u = v
  /\ \A p \in DOMAIN v \ EntryPrices(m.entries) : p \in DOMAIN u /\ u[p] = v[p]
  /\ DOMAIN u \ (DOMAIN v \cup EntryPrices(m.entries)) \subseteq m.out

\* A snapshot has one entry for each level of the view, and no other.
LEMMA SnapshotSaysAll ==
  ASSUME NEW v \in Views
  PROVE  /\ SnapshotEntries(v) \in Seq(BidEntries)
         /\ Len(SnapshotEntries(v)) = Cardinality(DOMAIN v)
         /\ AllNew(SnapshotEntries(v))
         /\ EntryPrices(SnapshotEntries(v)) = DOMAIN v
         /\ Agree(SnapshotEntries(v), v)
<1> DEFINE S == DOMAIN v
           n == Cardinality(S)
           es == SnapshotEntries(v)
<1>1. /\ S \subseteq Prices /\ S \subseteq Int /\ IsFiniteSet(S)
      /\ \A p \in S : v[p] \in Sizes /\ v[p] > 0
  BY ViewLevels
<1>2. n \in Nat
  BY <1>1, FS_CardinalityType
<1>3. ASSUME NEW i \in 1..n
      PROVE  Ranked(v, i) \in S /\ Cardinality(Higher(S, Ranked(v, i))) = i - 1
  <2>1. \E p \in S : Cardinality(Higher(S, p)) = i - 1
    BY <1>1, EveryRank
  <2>2. \E p \in S : Cardinality({r \in S : r > p}) = i - 1
    BY <2>1 DEF Higher
  <2> QED
    BY <2>2 DEF Ranked, Higher
<1>4. es = [i \in 1..n |-> BidEntry("0", Ranked(v, i), v[Ranked(v, i)])]
  BY DEF SnapshotEntries
<1>5. ASSUME NEW i \in 1..n
      PROVE  /\ es[i] \in BidEntries
             /\ EntryPrice(es[i]) = Ranked(v, i)
             /\ es[i].md_update_action = "0"
             /\ es[i].md_entry_size = v[Ranked(v, i)]
  <2>1. Ranked(v, i) \in Prices /\ v[Ranked(v, i)] \in Sizes /\ "0" \in UpdateActions
    BY <1>1, <1>3 DEF UpdateActions
  <2>2. es[i] = BidEntry("0", Ranked(v, i), v[Ranked(v, i)])
    BY <1>4
  <2> QED
    BY <2>1, <2>2, EntryForPrice
<1> HIDE DEF es
<1>6. es \in Seq(BidEntries) /\ Len(es) = n /\ DOMAIN es = 1..n
  <2>1. es \in [1..n -> BidEntries]
    BY <1>4, <1>5
  <2> QED
    BY <1>2, <2>1
<1>7. AllNew(es)
  BY <1>5, <1>6 DEF AllNew
<1>8. Agree(es, v)
  BY <1>3, <1>5, <1>6 DEF Agree
<1>9. ASSUME NEW p \in S
      PROVE  \E i \in 1..n : Ranked(v, i) = p
  <2>1. /\ \A s \in S : /\ IsFiniteSet(Higher(S, s))
                        /\ Cardinality(Higher(S, s)) \in 0..(n - 1)
        /\ \A r, s \in S : r < s => Cardinality(Higher(S, s)) < Cardinality(Higher(S, r))
    BY <1>1, RankFalls
  <2> DEFINE i == Cardinality(Higher(S, p)) + 1
  <2>2. i \in 1..n /\ i - 1 = Cardinality(Higher(S, p))
    BY <1>2, <2>1
  <2> HIDE DEF i
  <2>3. Ranked(v, i) \in S /\ Cardinality(Higher(S, Ranked(v, i))) = Cardinality(Higher(S, p))
    BY <1>3, <2>2
  <2>4. Cardinality(Higher(S, p)) \in Int
    BY <1>2, <2>1
  <2>5. ~ (p < Ranked(v, i)) /\ ~ (Ranked(v, i) < p)
    BY <2>1, <2>3, <2>4
  <2>6. p \in Int /\ Ranked(v, i) \in Int
    BY <1>1, <2>3
  <2>7. Ranked(v, i) = p
    BY <2>5, <2>6
  <2> QED
    BY <2>2, <2>7
<1>10. EntryPrices(es) = S
  BY <1>3, <1>5, <1>6, <1>9, ZenonT(40) DEF EntryPrices
<1> QED
  BY <1>6, <1>7, <1>8, <1>10 DEF es

-----------------------------------------------------------------------------
(* A change of the orders at one price *)

\* At most one level other than the changed one comes into view: it was the
\* first that was not, and now has Depth - 1 better ones.
LEMMA OneFresh ==
  ASSUME NEW o \in [Prices -> Sizes], NEW n \in [Prices -> Sizes], NEW p \in Prices,
         \A r \in Prices \ {p} : n[r] = o[r]
  PROVE  \A r, s \in Fresh(Disclosed(o), Disclosed(n), p) : r = s
<1> DEFINE F == Fresh(Disclosed(o), Disclosed(n), p)
<1>1. /\ DOMAIN Disclosed(o) = InView(o) /\ DOMAIN Disclosed(n) = InView(n)
  BY DisclosedView
<1>2. \A r \in F : r \in InView(n) /\ r \notin InView(o) /\ r # p
  BY <1>1 DEF Fresh
<1>3. \A r \in Prices \ {p} : r \in Live(o) <=> r \in Live(n)
  BY DEF Live
<1>4. /\ Live(o) \subseteq Prices /\ Live(n) \subseteq Prices /\ Live(n) \subseteq Int
      /\ IsFiniteSet(Live(n))
      /\ \A r : IsFiniteSet(Above(o, r)) /\ Cardinality(Above(o, r)) \in Nat
      /\ \A r : IsFiniteSet(Above(n, r)) /\ Cardinality(Above(n, r)) \in Nat
  BY AboveFinite
<1>5. Depth \in Nat \ {0}
  BY DepthAssumption
<1>6. ASSUME NEW r \in F
      PROVE  r \in Live(n) /\ Cardinality(Above(n, r)) = Depth - 1
  <2>1. r \in Live(n) /\ Cardinality(Above(n, r)) < Depth
    BY <1>2 DEF InView
  <2>2. r \in Live(o)
    BY <1>2, <1>3, <1>4, <2>1
  <2>3. Cardinality(Above(o, r)) >= Depth
    BY <1>2, <1>4, <1>5, <2>2 DEF InView
  <2>4. Above(o, r) \ {p} \in SUBSET Above(n, r)
    BY <1>3, <1>4 DEF Above
  <2>5. Cardinality(Above(o, r) \ {p}) <= Cardinality(Above(n, r))
    BY <1>4, <2>4, FS_Subset
  <2>6. Cardinality(Above(o, r) \ {p}) =
          IF p \in Above(o, r) THEN Cardinality(Above(o, r)) - 1 ELSE Cardinality(Above(o, r))
    BY <1>4, FS_RemoveElement
  <2>7. Cardinality(Above(n, r)) \in Nat /\ Cardinality(Above(o, r)) \in Nat
    BY <1>4
  <2> QED
    BY <1>5, <2>1, <2>3, <2>5, <2>6, <2>7
<1>7. ASSUME NEW r \in F, NEW s \in F
      PROVE  r = s
  <2> DEFINE S == Live(n)
  <2>1. /\ \A x \in S : /\ IsFiniteSet(Higher(S, x))
                        /\ Cardinality(Higher(S, x)) \in 0..(Cardinality(S) - 1)
        /\ \A x, y \in S : x < y => Cardinality(Higher(S, y)) < Cardinality(Higher(S, x))
    BY <1>4, RankFalls
  <2>2. \A x : Above(n, x) = Higher(S, x)
    BY DEF Above, Higher
  <2>3. Cardinality(Higher(S, r)) = Depth - 1 /\ Cardinality(Higher(S, s)) = Depth - 1
    BY <1>6, <2>2
  <2>4. r \in S /\ s \in S /\ r \in Int /\ s \in Int
    BY <1>4, <1>6
  <2>5. ~ (r < s) /\ ~ (s < r)
    BY <1>5, <2>1, <2>3, <2>4
  <2> QED
    BY <2>4, <2>5
<1> QED
  BY <1>7

\* A change at a price that neither was nor is in view pushes no level out of view.
LEMMA NonePushed ==
  ASSUME NEW o \in [Prices -> Sizes], NEW n \in [Prices -> Sizes], NEW p \in Prices,
         \A r \in Prices \ {p} : n[r] = o[r],
         p \notin InView(o), p \notin InView(n)
  PROVE  InView(o) \subseteq InView(n)
<1>1. \A r \in Prices \ {p} : r \in Live(o) <=> r \in Live(n)
  BY DEF Live
<1>2. /\ Live(o) \subseteq Prices /\ Live(n) \subseteq Prices
      /\ Live(o) \subseteq Int /\ Live(n) \subseteq Int
      /\ \A r : IsFiniteSet(Above(o, r)) /\ Cardinality(Above(o, r)) \in Nat
      /\ \A r : IsFiniteSet(Above(n, r)) /\ Cardinality(Above(n, r)) \in Nat
  BY AboveFinite
<1>3. Depth \in Nat
  BY DepthAssumption
<1> SUFFICES ASSUME NEW x \in InView(o), x \notin InView(n)
             PROVE  FALSE
  OBVIOUS
<1>4. x \in Live(o) /\ Cardinality(Above(o, x)) < Depth /\ x # p
  BY DEF InView
<1>5. x \in Live(n)
  BY <1>1, <1>2, <1>4
<1>6. Cardinality(Above(n, x)) >= Depth
  BY <1>2, <1>3, <1>5 DEF InView
<1>7. p \in Above(n, x)
  <2> SUFFICES ASSUME p \notin Above(n, x) PROVE FALSE
    OBVIOUS
  <2>1. Above(n, x) \in SUBSET Above(o, x)
    BY <1>1, <1>2 DEF Above
  <2>2. Cardinality(Above(n, x)) <= Cardinality(Above(o, x))
    BY <1>2, <2>1, FS_Subset
  <2>3. Cardinality(Above(n, x)) \in Nat /\ Cardinality(Above(o, x)) \in Nat
    BY <1>2
  <2> QED
    BY <1>3, <1>4, <1>6, <2>2, <2>3
<1>8. p \in Live(n) /\ p > x /\ p \in Int /\ x \in Int
  BY <1>2, <1>4, <1>7 DEF Above
<1>9. Cardinality(Above(n, p)) >= Depth
  BY <1>2, <1>3, <1>8 DEF InView
<1>10. Above(n, p) \in SUBSET Above(o, x)
  <2>1. ASSUME NEW r \in Above(n, p)
        PROVE  r \in Above(o, x)
    <3>1. r \in Live(n) /\ r > p
      BY DEF Above
    <3>2. r \in Int /\ r # p /\ r > x
      BY <1>2, <1>8, <3>1
    <3>3. r \in Live(o)
      BY <1>1, <1>2, <3>1, <3>2
    <3> QED
      BY <3>2, <3>3 DEF Above
  <2> QED
    BY <2>1
<1>11. Cardinality(Above(n, p)) <= Cardinality(Above(o, x))
  BY <1>2, <1>10, FS_Subset
<1>12. Cardinality(Above(n, p)) \in Nat /\ Cardinality(Above(o, x)) \in Nat
  BY <1>2
<1> QED
  BY <1>3, <1>4, <1>9, <1>11, <1>12

\* What an empty list of entries, a list of one entry and a concatenation say.
LEMMA EmptySays ==
  ASSUME NEW v
  PROVE  << >> \in Seq(BidEntries) /\ Len(<< >>) = 0 /\ EntryPrices(<< >>) = {} /\ Agree(<< >>, v)
<1>1. << >> \in Seq(BidEntries) /\ Len(<< >>) = 0
  OBVIOUS
<1>2. DOMAIN << >> = {}
  OBVIOUS
<1> QED
  BY <1>1, <1>2, Zenon DEF EntryPrices, Agree

LEMMA OneSays ==
  ASSUME NEW e \in BidEntries, NEW v,
         e.md_update_action \in {"0", "1", "2"},
         e.md_update_action = "2" => EntryPrice(e) \notin DOMAIN v,
         e.md_update_action # "2" => EntryPrice(e) \in DOMAIN v /\ v[EntryPrice(e)] = e.md_entry_size
  PROVE  << e >> \in Seq(BidEntries) /\ Len(<< e >>) = 1 /\ EntryPrices(<< e >>) = {EntryPrice(e)}
         /\ Agree(<< e >>, v)
<1> DEFINE s == << e >>
<1>1. s \in Seq(BidEntries) /\ Len(s) = 1 /\ s[1] = e
  OBVIOUS
<1>2. DOMAIN s = {1}
  OBVIOUS
<1> HIDE DEF s
<1>3. EntryPrices(s) = {EntryPrice(e)}
  BY <1>1, <1>2 DEF EntryPrices
<1>4. Agree(s, v)
  BY <1>1, <1>2 DEF Agree
<1> QED
  BY <1>1, <1>3, <1>4 DEF s

LEMMA BothSay ==
  ASSUME NEW a \in Seq(BidEntries), NEW b \in Seq(BidEntries), NEW v
  PROVE  /\ a \o b \in Seq(BidEntries) /\ Len(a \o b) = Len(a) + Len(b)
         /\ EntryPrices(a \o b) = EntryPrices(a) \cup EntryPrices(b)
         /\ Agree(a, v) /\ Agree(b, v) => Agree(a \o b, v)
<1> DEFINE s == a \o b
<1>1. /\ s \in Seq(BidEntries) /\ Len(s) = Len(a) + Len(b)
      /\ \A i \in 1..Len(s) : s[i] = IF i <= Len(a) THEN a[i] ELSE b[i - Len(a)]
  BY ConcatProperties
<1>2. /\ DOMAIN s = 1..Len(s) /\ DOMAIN a = 1..Len(a) /\ DOMAIN b = 1..Len(b)
      /\ Len(a) \in Nat /\ Len(b) \in Nat
  BY <1>1, LenProperties
<1> HIDE DEF s
<1>3. /\ \A i \in DOMAIN s : \/ i \in DOMAIN a /\ s[i] = a[i]
                             \/ i - Len(a) \in DOMAIN b /\ s[i] = b[i - Len(a)]
      /\ \A i \in DOMAIN a : i \in DOMAIN s /\ s[i] = a[i]
      /\ \A i \in DOMAIN b : i + Len(a) \in DOMAIN s /\ s[i + Len(a)] = b[i]
  <2>1. ASSUME NEW i \in DOMAIN s
        PROVE  \/ i \in DOMAIN a /\ s[i] = a[i]
               \/ i - Len(a) \in DOMAIN b /\ s[i] = b[i - Len(a)]
    BY <1>1, <1>2
  <2>2. ASSUME NEW i \in DOMAIN a
        PROVE  i \in DOMAIN s /\ s[i] = a[i]
    BY <1>1, <1>2
  <2>3. ASSUME NEW i \in DOMAIN b
        PROVE  i + Len(a) \in DOMAIN s /\ s[i + Len(a)] = b[i]
    <3>1. i + Len(a) \in 1..Len(s) /\ ~ (i + Len(a) <= Len(a)) /\ i + Len(a) - Len(a) = i
      BY <1>1, <1>2
    <3> QED
      BY <1>1, <1>2, <3>1
  <2> QED
    BY <2>1, <2>2, <2>3
<1>4. EntryPrices(s) = EntryPrices(a) \cup EntryPrices(b)
  BY <1>3 DEF EntryPrices
<1>5. Agree(a, v) /\ Agree(b, v) => Agree(s, v)
  BY <1>3 DEF Agree
<1> QED
  BY <1>1, <1>4, <1>5 DEF s

\* An update names the changed level if it was or is in view and the level that
\* came into view, and says what they are now.
LEMMA ChangeSays ==
  ASSUME NEW was \in Views, NEW now \in Views, NEW p \in Prices,
         \A r, s \in Fresh(was, now, p) : r = s
  PROVE  /\ ChangeEntries(was, now, p) \in Seq(BidEntries)
         /\ Len(ChangeEntries(was, now, p)) <= 2
         /\ EntryPrices(ChangeEntries(was, now, p)) =
              ({p} \cap (DOMAIN was \cup DOMAIN now)) \cup Fresh(was, now, p)
         /\ Agree(ChangeEntries(was, now, p), now)
<1> DEFINE own == OwnEntry(was, now, p)
           refill == RefillEntry(was, now, p)
           F == Fresh(was, now, p)
<1>1. /\ DOMAIN now \subseteq Prices
      /\ \A r \in DOMAIN now : now[r] \in Sizes
  BY ViewLevels
<1>2. "0" \in UpdateActions /\ "1" \in UpdateActions /\ "2" \in UpdateActions /\ 0 \in Sizes
  BY FeedAssumption DEF UpdateActions
<1>3. /\ own \in Seq(BidEntries) /\ Len(own) <= 1
      /\ EntryPrices(own) = {p} \cap (DOMAIN was \cup DOMAIN now)
      /\ Agree(own, now)
  <2>1. CASE p \in DOMAIN now
    <3> DEFINE a == IF p \in DOMAIN was THEN "1" ELSE "0"
               e == BidEntry(a, p, now[p])
    <3>1. a \in {"0", "1"} /\ a \in UpdateActions
      BY <1>2
    <3> HIDE DEF a
    <3>2. /\ e \in BidEntries
          /\ EntryPrice(e) = p
          /\ e.md_update_action = a
          /\ e.md_entry_size = now[p]
      BY <1>1, <2>1, <3>1, EntryForPrice
    <3>3. own = << e >>
      BY <2>1 DEF OwnEntry, a
    <3> HIDE DEF e
    <3>4. << e >> \in Seq(BidEntries) /\ Len(<< e >>) = 1 /\ EntryPrices(<< e >>) = {EntryPrice(e)}
          /\ Agree(<< e >>, now)
      BY <2>1, <3>1, <3>2, OneSays
    <3>5. Len(<< e >>) <= 1
      BY <3>4
    <3> QED
      BY <2>1, <3>2, <3>3, <3>4, <3>5
  <2>2. CASE p \notin DOMAIN now /\ p \in DOMAIN was
    <3> DEFINE e == BidEntry("2", p, 0)
    <3>1. /\ e \in BidEntries
          /\ EntryPrice(e) = p
          /\ e.md_update_action = "2"
          /\ e.md_entry_size = 0
      BY <1>2, EntryForPrice
    <3>2. own = << e >>
      BY <2>2 DEF OwnEntry
    <3> HIDE DEF e
    <3>3. << e >> \in Seq(BidEntries) /\ Len(<< e >>) = 1 /\ EntryPrices(<< e >>) = {EntryPrice(e)}
          /\ Agree(<< e >>, now)
      BY <2>2, <3>1, OneSays
    <3>4. Len(<< e >>) <= 1
      BY <3>3
    <3> QED
      BY <2>2, <3>1, <3>2, <3>3, <3>4
  <2>3. CASE p \notin DOMAIN now /\ p \notin DOMAIN was
    <3>1. own = << >>
      BY <2>3 DEF OwnEntry
    <3>2. << >> \in Seq(BidEntries) /\ Len(<< >>) = 0 /\ EntryPrices(<< >>) = {} /\ Agree(<< >>, now)
      BY EmptySays
    <3>3. Len(<< >>) <= 1
      BY <3>2
    <3> QED
      BY <2>3, <3>1, <3>2, <3>3
  <2> QED
    BY <2>1, <2>2, <2>3
<1>4. /\ refill \in Seq(BidEntries) /\ Len(refill) <= 1
      /\ EntryPrices(refill) = F
      /\ Agree(refill, now)
  <2>1. CASE F = {}
    <3>1. refill = << >>
      BY <2>1 DEF RefillEntry
    <3>2. << >> \in Seq(BidEntries) /\ Len(<< >>) = 0 /\ EntryPrices(<< >>) = {} /\ Agree(<< >>, now)
      BY EmptySays
    <3>3. Len(<< >>) <= 1
      BY <3>2
    <3> QED
      BY <2>1, <3>1, <3>2, <3>3
  <2>2. CASE F # {}
    <3> DEFINE r == CHOOSE r \in F : TRUE
               e == BidEntry("0", r, now[r])
    <3>1. r \in F
      BY <2>2
    <3>2. F = {r}
      BY <3>1
    <3>3. refill = << e >>
      BY <2>2 DEF RefillEntry
    <3> HIDE DEF r
    <3>4. r \in DOMAIN now
      BY <3>1 DEF Fresh
    <3>5. /\ e \in BidEntries
          /\ EntryPrice(e) = r
          /\ e.md_update_action = "0"
          /\ e.md_entry_size = now[r]
      BY <1>1, <1>2, <3>4, EntryForPrice
    <3> HIDE DEF e
    <3>6. << e >> \in Seq(BidEntries) /\ Len(<< e >>) = 1 /\ EntryPrices(<< e >>) = {EntryPrice(e)}
          /\ Agree(<< e >>, now)
      BY <3>4, <3>5, OneSays
    <3>7. Len(<< e >>) <= 1
      BY <3>6
    <3> QED
      BY <3>2, <3>3, <3>5, <3>6, <3>7
  <2> QED
    BY <2>1, <2>2
<1> HIDE DEF own, refill
<1>5. /\ own \o refill \in Seq(BidEntries) /\ Len(own \o refill) = Len(own) + Len(refill)
      /\ EntryPrices(own \o refill) = EntryPrices(own) \cup EntryPrices(refill)
      /\ Agree(own, now) /\ Agree(refill, now) => Agree(own \o refill, now)
  BY <1>3, <1>4, BothSay
<1>6. ChangeEntries(was, now, p) = own \o refill
  BY DEF ChangeEntries, own, refill
<1>7. Len(own \o refill) <= 2
  <2>1. Len(own) \in Nat /\ Len(refill) \in Nat
    BY <1>3, <1>4, LenProperties
  <2> QED
    BY <1>3, <1>4, <1>5, <2>1
<1> QED
  BY <1>3, <1>4, <1>5, <1>6, <1>7

\* The messages of the feed.
FeedMessages ==
  {m \in [kind : {"snapshot", "update"}, seq : 0..MaxSeq,
          entries : Seq(BidEntries), out : SUBSET Prices] :
     /\ Len(m.entries) <= MaxEntries
     /\ m.kind = "snapshot" => AllNew(m.entries)}

UpdateMessage(seq, was, now, p) ==
  [kind |-> "update", seq |-> seq, entries |-> ChangeEntries(was, now, p),
   out |-> DOMAIN was \ (DOMAIN now \cup {p})]

SnapshotMessage(seq, view) ==
  [kind |-> "snapshot", seq |-> seq, entries |-> SnapshotEntries(view), out |-> {}]

\* A change of the orders leaves the view alone or is told by the update sent.
LEMMA ChangeLeads ==
  ASSUME NEW o \in [Prices -> Sizes], NEW n \in [Prices -> Sizes], NEW p \in Prices,
         \A r \in Prices \ {p} : n[r] = o[r], NEW seq \in 0..MaxSeq
  PROVE  /\ ChangeEntries(Disclosed(o), Disclosed(n), p) = << >> => Disclosed(o) = Disclosed(n)
         /\ UpdateMessage(seq, Disclosed(o), Disclosed(n), p) \in FeedMessages
         /\ Leads(Disclosed(o), UpdateMessage(seq, Disclosed(o), Disclosed(n), p), Disclosed(n))
<1> DEFINE was == Disclosed(o)
           now == Disclosed(n)
           F == Fresh(was, now, p)
           es == ChangeEntries(was, now, p)
           m == UpdateMessage(seq, was, now, p)
<1>1. /\ was \in Views /\ DOMAIN was = InView(o) /\ \A r \in InView(o) : was[r] = o[r]
      /\ now \in Views /\ DOMAIN now = InView(n) /\ \A r \in InView(n) : now[r] = n[r]
  BY DisclosedView
<1>2. DOMAIN was \subseteq Prices /\ DOMAIN now \subseteq Prices
  BY <1>1, ViewLevels
<1>3. \A r, s \in F : r = s
  BY OneFresh
<1>4. F = DOMAIN now \ (DOMAIN was \cup {p})
  BY DEF Fresh
<1> HIDE DEF was, now, F
<1>5. /\ es \in Seq(BidEntries)
      /\ Len(es) <= 2
      /\ EntryPrices(es) = ({p} \cap (DOMAIN was \cup DOMAIN now)) \cup F
      /\ Agree(es, now)
  BY <1>1, <1>3, ChangeSays DEF F
<1>6. m = [kind |-> "update", seq |-> seq, entries |-> es, out |-> DOMAIN was \ (DOMAIN now \cup {p})]
  BY DEF UpdateMessage
<1>7. es = << >> => was = now
  <2> SUFFICES ASSUME es = << >> PROVE was = now
    OBVIOUS
  <2>1. EntryPrices(es) = {}
    BY EmptySays
  <2>2. p \notin DOMAIN was /\ p \notin DOMAIN now /\ F = {}
    BY <1>5, <2>1
  <2>3. InView(n) \subseteq InView(o)
    BY <1>1, <1>4, <2>2
  <2>4. InView(o) \subseteq InView(n)
    BY <1>1, <2>2, NonePushed
  <2>5. InView(o) = InView(n)
    BY <2>3, <2>4
  <2>6. \A r \in InView(o) : o[r] = n[r]
    BY <1>1, <1>2, <2>2
  <2> QED
    BY <2>5, <2>6 DEF was, now, Disclosed
<1> HIDE DEF es, m
<1>8. m \in FeedMessages
  <2>1. Len(es) <= MaxEntries
    <3>1. Len(es) \in Nat
      BY <1>5, LenProperties
    <3> QED
      BY <1>5, <3>1, FeedAssumption, BoundsAssumption
  <2> QED
    BY <1>2, <1>5, <1>6, <2>1 DEF FeedMessages
<1>9. Leads(was, m, now)
  <2>1. m.kind = "update" /\ m.entries = es /\ m.out = DOMAIN was \ (DOMAIN now \cup {p})
    BY <1>6
  <2>2. Tells(m, now)
    BY <1>5, <2>1 DEF Tells
  <2>3. ASSUME NEW r \in DOMAIN now \ EntryPrices(es)
        PROVE  r \in DOMAIN was /\ was[r] = now[r]
    <3>1. r # p /\ r \notin F
      BY <1>5
    <3>2. r \in DOMAIN was
      BY <1>4, <3>1
    <3> QED
      BY <1>1, <1>2, <3>1, <3>2
  <2>4. DOMAIN was \ (DOMAIN now \cup EntryPrices(es)) \subseteq m.out
    BY <1>5, <2>1
  <2> QED
    BY <2>1, <2>2, <2>3, <2>4 DEF Leads
<1> QED
  BY <1>7, <1>8, <1>9 DEF was, now, es, m

\* A snapshot tells the view it is taken of.
LEMMA SnapshotLeads ==
  ASSUME NEW o \in [Prices -> Sizes], NEW seq \in 0..MaxSeq
  PROVE  /\ SnapshotMessage(seq, Disclosed(o)) \in FeedMessages
         /\ Leads(Disclosed(o), SnapshotMessage(seq, Disclosed(o)), Disclosed(o))
<1> DEFINE v == Disclosed(o)
           es == SnapshotEntries(v)
           m == SnapshotMessage(seq, v)
<1>1. v \in Views /\ Cardinality(DOMAIN v) <= Depth
  BY DisclosedView
<1>2. IsFiniteSet(DOMAIN v)
  BY <1>1, ViewLevels
<1> HIDE DEF v
<1>3. /\ es \in Seq(BidEntries)
      /\ Len(es) = Cardinality(DOMAIN v)
      /\ AllNew(es)
      /\ EntryPrices(es) = DOMAIN v
      /\ Agree(es, v)
  BY <1>1, SnapshotSaysAll
<1>4. m = [kind |-> "snapshot", seq |-> seq, entries |-> es, out |-> {}]
  BY DEF SnapshotMessage
<1> HIDE DEF es, m
<1>5. Len(es) <= MaxEntries
  <2>1. Cardinality(DOMAIN v) \in Nat
    BY <1>2, FS_CardinalityType
  <2> QED
    BY <1>1, <1>3, <2>1, FeedAssumption, DepthAssumption, BoundsAssumption
<1>6. m \in FeedMessages
  BY <1>3, <1>4, <1>5 DEF FeedMessages
<1>7. Leads(v, m, v)
  <2>1. m.kind = "snapshot" /\ m.entries = es /\ m.out = {}
    BY <1>4
  <2> QED
    BY <1>3, <2>1 DEF Leads, Tells
<1> QED
  BY <1>6, <1>7 DEF v, es, m

-----------------------------------------------------------------------------
(* The inductive invariant *)

FeedTypeOK ==
  /\ orders \in [Prices -> Sizes]
  /\ sent_seq \in 0..MaxSeq
  /\ net \in Seq(FeedMessages)
  /\ cur \in Seq(BidEntries)
  /\ held \subseteq FeedMessages
  /\ last \in {<< >>} \cup {<< m >> : m \in FeedMessages}
  /\ synced \in BOOLEAN

\* The entries left are those of the message being applied.
LoopInStep ==
  /\ msg.left = Len(cur)
  /\ msg.left # 0 => msg.kind \in {"snapshot", "update"}
  /\ msg.kind = "snapshot" => AllNew(cur)

\* Once the entries left are applied the book has every level of the view v, and
\* no other but those pushed out of view.
Catches(v) ==
  /\ Agree(cur, v)
  /\ \A p \in DOMAIN v \ EntryPrices(cur) : p \in DOMAIN book.bids /\ book.bids[p] = v[p]
  /\ DOMAIN book.bids \ (DOMAIN v \cup EntryPrices(cur)) \subseteq pushed

\* The message delivered last tells the view v.
LastTells(v) == \A i \in DOMAIN last : Tells(last[i], v)

\* The views from the one the client is at to the one disclosed now, one step for
\* every message in flight.
Chain(V, s, o) ==
  /\ V[Len(s) + 1] = Disclosed(o)
  /\ \A i \in 1..Len(s) : Leads(V[i], s[i], V[i + 1])

\* The book may be behind by the messages in flight: it is at a view from which
\* they lead to the one disclosed, unless an update was lost.
Behind ==
  \E V \in [1..(Len(net) + 1) -> Views] :
    /\ Chain(V, net, orders)
    /\ synced => Catches(V[1]) /\ LastTells(V[1])

FeedInv == Inv /\ FeedTypeOK /\ LoopInStep /\ Behind

-----------------------------------------------------------------------------
(* Entries and messages one by one *)

\* What the first of a list of entries says, and what the others say.
LEMMA HeadSays ==
  ASSUME NEW s \in Seq(BidEntries), s # << >>, NEW v
  PROVE  /\ Head(s) \in BidEntries /\ Tail(s) \in Seq(BidEntries)
         /\ Len(Tail(s)) = Len(s) - 1 /\ Len(s) \in Nat \ {0}
         /\ EntryPrices(s) = {EntryPrice(Head(s))} \cup EntryPrices(Tail(s))
         /\ AllNew(s) => AllNew(Tail(s)) /\ Head(s).md_update_action = "0"
         /\ Agree(s, v) =>
              /\ Agree(Tail(s), v)
              /\ Head(s).md_update_action \in {"0", "1", "2"}
              /\ IF Head(s).md_update_action = "2"
                 THEN EntryPrice(Head(s)) \notin DOMAIN v
                 ELSE /\ EntryPrice(Head(s)) \in DOMAIN v
                      /\ v[EntryPrice(Head(s))] = Head(s).md_entry_size
<1> DEFINE t == Tail(s)
<1>1. /\ Head(s) \in BidEntries /\ t \in Seq(BidEntries)
      /\ Len(t) = Len(s) - 1 /\ Len(s) \in Nat \ {0}
      /\ Head(s) = s[1]
      /\ \A i \in 1..Len(t) : t[i] = s[i + 1]
  BY HeadTailProperties, LenProperties, EmptySeq
<1>2. DOMAIN s = 1..Len(s) /\ DOMAIN t = 1..Len(t)
  BY <1>1, LenProperties
<1> HIDE DEF t
<1>3. /\ 1 \in DOMAIN s /\ s[1] = Head(s)
      /\ \A i \in DOMAIN t : i + 1 \in DOMAIN s /\ t[i] = s[i + 1]
      /\ \A i \in DOMAIN s : i = 1 \/ (i - 1 \in DOMAIN t /\ t[i - 1] = s[i])
  <2>1. ASSUME NEW i \in DOMAIN t
        PROVE  i + 1 \in DOMAIN s /\ t[i] = s[i + 1]
    BY <1>1, <1>2
  <2>2. ASSUME NEW i \in DOMAIN s, i # 1
        PROVE  i - 1 \in DOMAIN t /\ t[i - 1] = s[i]
    <3>1. i - 1 \in 1..Len(t) /\ (i - 1) + 1 = i
      BY <1>1, <1>2, <2>2
    <3> QED
      BY <1>1, <1>2, <3>1
  <2> QED
    BY <1>1, <1>2, <2>1, <2>2
<1>4. EntryPrices(s) = {EntryPrice(Head(s))} \cup EntryPrices(t)
  BY <1>3 DEF EntryPrices
<1>5. AllNew(s) => AllNew(t) /\ Head(s).md_update_action = "0"
  BY <1>3 DEF AllNew
<1>6. Agree(s, v) =>
        /\ Agree(t, v)
        /\ Head(s).md_update_action \in {"0", "1", "2"}
        /\ IF Head(s).md_update_action = "2"
           THEN EntryPrice(Head(s)) \notin DOMAIN v
           ELSE /\ EntryPrice(Head(s)) \in DOMAIN v
                /\ v[EntryPrice(Head(s))] = Head(s).md_entry_size
  <2> SUFFICES ASSUME Agree(s, v)
               PROVE  /\ Agree(t, v)
                      /\ Head(s).md_update_action \in {"0", "1", "2"}
                      /\ IF Head(s).md_update_action = "2"
                         THEN EntryPrice(Head(s)) \notin DOMAIN v
                         ELSE /\ EntryPrice(Head(s)) \in DOMAIN v
                              /\ v[EntryPrice(Head(s))] = Head(s).md_entry_size
    OBVIOUS
  <2>1. Agree(t, v)
    BY <1>3 DEF Agree
  <2>2. /\ Head(s).md_update_action \in {"0", "1", "2"}
        /\ IF Head(s).md_update_action = "2"
           THEN EntryPrice(Head(s)) \notin DOMAIN v
           ELSE /\ EntryPrice(Head(s)) \in DOMAIN v
                /\ v[EntryPrice(Head(s))] = Head(s).md_entry_size
    BY <1>3 DEF Agree
  <2> QED
    BY <2>1, <2>2
<1> QED
  BY <1>1, <1>4, <1>5, <1>6 DEF t

\* With its first message gone, the rest of the channel leads on from the second view.
LEMMA ChainTail ==
  ASSUME NEW s \in Seq(FeedMessages), s # << >>, NEW o,
         NEW V \in [1..(Len(s) + 1) -> Views], Chain(V, s, o)
  PROVE  /\ Head(s) \in FeedMessages /\ Tail(s) \in Seq(FeedMessages)
         /\ V[1] \in Views /\ V[2] \in Views /\ Leads(V[1], Head(s), V[2])
         /\ \E W \in [1..(Len(Tail(s)) + 1) -> Views] : Chain(W, Tail(s), o) /\ W[1] = V[2]
<1> DEFINE t == Tail(s)
           W == [i \in 1..(Len(t) + 1) |-> V[i + 1]]
<1>1. /\ Head(s) \in FeedMessages /\ t \in Seq(FeedMessages)
      /\ Len(t) = Len(s) - 1 /\ Len(s) \in Nat \ {0}
      /\ Head(s) = s[1]
      /\ \A i \in 1..Len(t) : t[i] = s[i + 1]
  BY HeadTailProperties, LenProperties, EmptySeq
<1> HIDE DEF t
<1>2. V[1] \in Views /\ V[2] \in Views /\ Leads(V[1], Head(s), V[2])
  <2>1. 1 \in 1..Len(s) /\ 1 \in 1..(Len(s) + 1) /\ 2 \in 1..(Len(s) + 1) /\ 1 + 1 = 2
    BY <1>1
  <2>2. Leads(V[1], s[1], V[1 + 1])
    BY <2>1 DEF Chain
  <2> QED
    BY <1>1, <2>1, <2>2
<1>3. \A i \in 1..(Len(t) + 1) : i + 1 \in 1..(Len(s) + 1)
  BY <1>1
<1>4. W \in [1..(Len(t) + 1) -> Views]
  BY <1>3
<1>5. \A i \in 1..(Len(t) + 1) : W[i] = V[i + 1]
  OBVIOUS
<1> HIDE DEF W
<1>6. W[1] = V[2]
  <2>1. 1 \in 1..(Len(t) + 1) /\ 1 + 1 = 2
    BY <1>1
  <2> QED
    BY <1>5, <2>1
<1>7. W[Len(t) + 1] = Disclosed(o)
  <2>1. Len(t) + 1 \in 1..(Len(t) + 1) /\ Len(t) + 1 + 1 = Len(s) + 1
    BY <1>1
  <2> QED
    BY <1>5, <2>1 DEF Chain
<1>8. ASSUME NEW i \in 1..Len(t)
      PROVE  Leads(W[i], t[i], W[i + 1])
  <2>1. i \in 1..(Len(t) + 1) /\ i + 1 \in 1..(Len(t) + 1) /\ i + 1 \in 1..Len(s)
    BY <1>1
  <2>2. Leads(V[i + 1], s[i + 1], V[i + 1 + 1])
    BY <2>1 DEF Chain
  <2>3. W[i] = V[i + 1] /\ W[i + 1] = V[i + 1 + 1] /\ t[i] = s[i + 1]
    BY <1>1, <1>5, <2>1
  <2> QED
    BY <2>2, <2>3
<1>9. Chain(W, t, o)
  BY <1>7, <1>8 DEF Chain
<1> QED
  BY <1>1, <1>2, <1>4, <1>6, <1>9 DEF t

\* A message that tells a new view extends the chain to it.
LEMMA ChainAppend ==
  ASSUME NEW s \in Seq(FeedMessages), NEW o, NEW n, NEW m \in FeedMessages,
         NEW V \in [1..(Len(s) + 1) -> Views], Chain(V, s, o),
         Disclosed(n) \in Views, Leads(Disclosed(o), m, Disclosed(n))
  PROVE  /\ Append(s, m) \in Seq(FeedMessages)
         /\ \E W \in [1..(Len(Append(s, m)) + 1) -> Views] :
              Chain(W, Append(s, m), n) /\ W[1] = V[1]
<1> DEFINE t == Append(s, m)
           W == [i \in 1..(Len(t) + 1) |-> IF i <= Len(s) + 1 THEN V[i] ELSE Disclosed(n)]
<1>1. /\ t \in Seq(FeedMessages) /\ Len(t) = Len(s) + 1 /\ Len(s) \in Nat
      /\ \A i \in 1..Len(s) : t[i] = s[i]
      /\ t[Len(s) + 1] = m
  BY AppendProperties, LenProperties
<1> HIDE DEF t
<1>2. W \in [1..(Len(t) + 1) -> Views]
  <2>1. \A i \in 1..(Len(t) + 1) : i <= Len(s) + 1 => i \in 1..(Len(s) + 1)
    BY <1>1
  <2> QED
    BY <2>1
<1>3. \A i \in 1..(Len(t) + 1) : W[i] = IF i <= Len(s) + 1 THEN V[i] ELSE Disclosed(n)
  OBVIOUS
<1> HIDE DEF W
<1>4. W[1] = V[1]
  <2>1. 1 \in 1..(Len(t) + 1) /\ 1 <= Len(s) + 1
    BY <1>1
  <2> QED
    BY <1>3, <2>1
<1>5. W[Len(t) + 1] = Disclosed(n)
  <2>1. Len(t) + 1 \in 1..(Len(t) + 1) /\ ~ (Len(t) + 1 <= Len(s) + 1)
    BY <1>1
  <2> QED
    BY <1>3, <2>1
<1>6. ASSUME NEW i \in 1..Len(t)
      PROVE  Leads(W[i], t[i], W[i + 1])
  <2>1. CASE i = Len(s) + 1
    <3>1. W[i] = V[Len(s) + 1]
      <4>1. i \in 1..(Len(t) + 1) /\ i <= Len(s) + 1
        BY <1>1, <2>1
      <4> QED
        BY <1>3, <2>1, <4>1
    <3>2. W[i + 1] = Disclosed(n)
      BY <1>1, <1>5, <2>1
    <3>3. V[Len(s) + 1] = Disclosed(o)
      BY DEF Chain
    <3> QED
      BY <1>1, <2>1, <3>1, <3>2, <3>3
  <2>2. CASE i # Len(s) + 1
    <3>1. /\ i \in 1..Len(s) /\ i \in 1..(Len(t) + 1) /\ i + 1 \in 1..(Len(t) + 1)
          /\ i <= Len(s) + 1 /\ i + 1 <= Len(s) + 1
      BY <1>1, <2>2
    <3>2. W[i] = V[i] /\ W[i + 1] = V[i + 1] /\ t[i] = s[i]
      BY <1>1, <1>3, <3>1
    <3>3. Leads(V[i], s[i], V[i + 1])
      BY <3>1 DEF Chain
    <3> QED
      BY <3>2, <3>3
  <2> QED
    BY <2>1, <2>2
<1>7. Chain(W, t, n)
  BY <1>5, <1>6 DEF Chain
<1> QED
  BY <1>1, <1>2, <1>4, <1>7 DEF t

-----------------------------------------------------------------------------
(* The client's steps *)

\* apply_snapshot or apply_update called with a message is a step of the book, and
\* its loop has the message's entries ahead of it.
LEMMA OpenStep ==
  ASSUME Inv, FeedTypeOK, LoopInStep, NEW m \in FeedMessages, Open(m)
  PROVE  Next /\ LoopInStep' /\ cur' \in Seq(BidEntries)
<1>1. /\ m.kind \in {"snapshot", "update"} /\ m.seq \in 0..MaxSeq
      /\ m.entries \in Seq(BidEntries) /\ Len(m.entries) <= MaxEntries
      /\ m.kind = "snapshot" => AllNew(m.entries)
  BY DEF FeedMessages
<1>2. Len(m.entries) \in 0..MaxEntries
  <2>1. Len(m.entries) \in Nat
    BY <1>1, LenProperties
  <2> QED
    BY <1>1, <2>1, BoundsAssumption
<1>3. cur' = m.entries
  BY DEF Open
<1>4. CASE m.kind = "snapshot"
  <2>1. BeginSnapshot(m.seq, "0", Len(m.entries))
    BY <1>4 DEF Open
  <2>2. Next
    BY <1>1, <1>2, <2>1 DEF Next
  <2>3. msg'.kind = "snapshot" /\ msg'.left = Len(m.entries)
    BY <2>1 DEF BeginSnapshot
  <2>4. LoopInStep'
    BY <1>1, <1>3, <1>4, <2>3 DEF LoopInStep, AllNew
  <2> QED
    BY <1>1, <1>3, <2>2, <2>4
<1>5. CASE m.kind = "update"
  <2>1. BeginUpdate(m.seq, Len(m.entries))
    BY <1>5 DEF Open
  <2>2. Next
    BY <1>1, <1>2, <2>1 DEF Next
  <2>3. msg'.kind = "update" /\ msg'.left = Len(m.entries)
    BY <2>1 DEF BeginUpdate
  <2>4. LoopInStep'
    BY <1>1, <1>3, <1>5, <2>3 DEF LoopInStep
  <2> QED
    BY <1>1, <1>3, <2>2, <2>4
<1> QED
  BY <1>1, <1>4, <1>5

\* A book at the view u that opens a message leading from u to v is at v; a book
\* that opens a snapshot of v is, wherever it was.
LEMMA OpenCatches ==
  ASSUME Inv, FeedTypeOK, LoopInStep, NEW m \in FeedMessages, Open(m),
         NEW u \in Views, NEW v \in Views, Leads(u, m, v),
         m.kind = "snapshot" \/ Catches(u)
  PROVE  Catches(v)'
<1>1. m.kind \in {"snapshot", "update"} /\ m.entries \in Seq(BidEntries) /\ m.seq \in 0..MaxSeq
  BY DEF FeedMessages
<1>2. cur' = m.entries
  BY DEF Open
<1>3. Agree(m.entries, v)
  BY DEF Leads, Tells
<1>4. CASE m.kind = "snapshot"
  <2>1. BeginSnapshot(m.seq, "0", Len(m.entries))
    BY <1>4 DEF Open
  <2>2. DOMAIN book'.bids = {}
    BY <1>1, <2>1, FreshBooks DEF BeginSnapshot
  <2>3. DOMAIN v = EntryPrices(m.entries)
    BY <1>4 DEF Leads, Tells
  <2> QED
    BY <1>2, <1>3, <2>2, <2>3 DEF Catches
<1>5. CASE m.kind = "update"
  <2>1. BeginUpdate(m.seq, Len(m.entries)) /\ Catches(u)
    BY <1>5 DEF Open
  <2>2. book'.bids = book.bids
    <3>1. book \in Books
      BY DEF Inv, TypeOK
    <3> QED
      BY <2>1, <3>1 DEF BeginUpdate, SequencedBook, Books
  <2>3. EntryPrices(cur) = {}
    <3>1. Len(cur) = 0
      BY <2>1 DEF BeginUpdate, Idle, LoopInStep
    <3>2. cur = << >>
      BY <3>1, EmptySeq DEF FeedTypeOK
    <3> QED
      BY <3>2, EmptySays
  <2>4. pushed' = (pushed \ EntryPrices(m.entries)) \cup m.out
    BY <1>5 DEF Open
  <2>5. ASSUME NEW p \in DOMAIN v \ EntryPrices(m.entries)
        PROVE  p \in DOMAIN book.bids /\ book.bids[p] = v[p]
    <3>1. p \in DOMAIN u /\ u[p] = v[p]
      BY DEF Leads
    <3> QED
      BY <2>1, <2>3, <3>1 DEF Catches
  <2>6. ASSUME NEW p \in DOMAIN book.bids \ (DOMAIN v \cup EntryPrices(m.entries))
        PROVE  p \in pushed'
    <3>1. CASE p \in DOMAIN u
      BY <2>4, <3>1 DEF Leads
    <3>2. CASE p \notin DOMAIN u
      BY <2>1, <2>3, <2>4, <3>2 DEF Catches
    <3> QED
      BY <3>1, <3>2
  <2> QED
    BY <1>2, <1>3, <2>2, <2>5, <2>6 DEF Catches
<1> QED
  BY <1>1, <1>4, <1>5

\* An entry applied sets its level to what the view has, or erases it if the view
\* has none.
LEMMA ApplyLevel ==
  ASSUME Inv, FeedTypeOK, LoopInStep, Apply, NEW v \in Views, Agree(cur, v)
  PROVE  LET p == EntryPrice(Head(cur))
         IN  IF p \in DOMAIN v
             THEN book'.bids = SetLevel(book.bids, p, v[p])
             ELSE book'.bids = EraseLevel(book.bids, p)
<1> DEFINE e == Head(cur)
           p == EntryPrice(e)
           a == e.md_update_action
<1>1. cur # << >> /\ ApplyEntry(e)
  BY DEF Apply
<1>2. cur \in Seq(BidEntries)
  BY DEF FeedTypeOK
<1>3. /\ e \in BidEntries
      /\ AllNew(cur) => a = "0"
      /\ a \in {"0", "1", "2"}
      /\ IF a = "2" THEN p \notin DOMAIN v
         ELSE p \in DOMAIN v /\ v[p] = e.md_entry_size
  BY <1>1, <1>2, HeadSays
<1>4. e \in Entries /\ e.md_entry_type = "0"
  BY <1>3 DEF BidEntries
<1>5. p = apply_sign_to_price(e.quote[1], e.quote[2])
  BY DEF EntryPrice
<1>6. \A r \in DOMAIN v : v[r] > 0
  BY ViewLevels
<1>7. book \in Books
  BY DEF Inv, TypeOK
<1> HIDE DEF e, p, a
<1>8. CASE msg.kind = "snapshot"
  <2>1. book' = SnapshotEntry(book, e, msg.calculated_flag)
    BY <1>1, <1>8 DEF ApplyEntry
  <2>2. book' = [book EXCEPT !.bids = NewLevel(@, p, e.md_entry_size)]
    BY <1>4, <1>5, <2>1 DEF SnapshotEntry
  <2>3. book'.bids = NewLevel(book.bids, p, e.md_entry_size)
    BY <1>7, <2>2 DEF Books
  <2>4. a = "0"
    BY <1>3, <1>8 DEF LoopInStep
  <2> QED
    BY <1>3, <1>6, <2>3, <2>4 DEF NewLevel, e, p
<1>9. CASE msg.kind = "update"
  <2>1. book' = UpdateEntry(book, e)
    BY <1>1, <1>9 DEF ApplyEntry
  <2>2. book' = [book EXCEPT !.bids = ApplyAction(@, a, p, e.md_entry_size)]
    BY <1>4, <1>5, <2>1 DEF UpdateEntry, a
  <2>3. book'.bids = ApplyAction(book.bids, a, p, e.md_entry_size)
    BY <1>7, <2>2 DEF Books
  <2>4. CASE a = "2"
    BY <1>3, <2>3, <2>4 DEF ApplyAction, e, p
  <2>5. CASE a = "0"
    BY <1>3, <1>6, <2>3, <2>5 DEF ApplyAction, NewLevel, e, p
  <2>6. CASE a = "1"
    BY <1>3, <1>6, <2>3, <2>6 DEF ApplyAction, ChangeLevel, e, p
  <2> QED
    BY <1>3, <2>4, <2>5, <2>6
<1> QED
  BY <1>1, <1>8, <1>9 DEF ApplyEntry

\* Applying an entry is a step of the book, and leaves the loop one entry less.
LEMMA ApplyStep ==
  ASSUME Inv, FeedTypeOK, LoopInStep, Apply
  PROVE  Next /\ LoopInStep' /\ cur' \in Seq(BidEntries)
<1>1. cur # << >> /\ ApplyEntry(Head(cur)) /\ cur' = Tail(cur)
  BY DEF Apply
<1>2. cur \in Seq(BidEntries)
  BY DEF FeedTypeOK
<1>3. /\ Head(cur) \in BidEntries /\ Tail(cur) \in Seq(BidEntries)
      /\ Len(Tail(cur)) = Len(cur) - 1
      /\ AllNew(cur) => AllNew(Tail(cur))
  BY <1>1, <1>2, HeadSays
<1>4. Head(cur) \in Entries
  BY <1>3 DEF BidEntries
<1>5. Next
  BY <1>1, <1>4 DEF Next
<1>6. msg'.kind = msg.kind /\ msg'.left = msg.left - 1 /\ msg.left # 0
  BY <1>1 DEF ApplyEntry, Idle, Inv, TypeOK, Messages
<1>7. LoopInStep'
  <2>1. msg.kind = "snapshot" => AllNew(cur)'
    BY <1>1, <1>3 DEF LoopInStep, AllNew
  <2> QED
    BY <1>1, <1>3, <1>6, <2>1 DEF LoopInStep
<1> QED
  BY <1>1, <1>3, <1>5, <1>7

\* A book at a view stays at it as the entries left are applied.
LEMMA ApplyCatches ==
  ASSUME Inv, FeedTypeOK, LoopInStep, Apply, NEW v \in Views, Catches(v)
  PROVE  Catches(v)'
<1> DEFINE p == EntryPrice(Head(cur))
<1>1. cur # << >> /\ cur' = Tail(cur) /\ pushed' = pushed
  BY DEF Apply
<1>2. cur \in Seq(BidEntries) /\ Agree(cur, v)
  BY DEF FeedTypeOK, Catches
<1>3. EntryPrices(cur) = {p} \cup EntryPrices(Tail(cur)) /\ Agree(Tail(cur), v)
  BY <1>1, <1>2, HeadSays
<1>4. IF p \in DOMAIN v THEN book'.bids = SetLevel(book.bids, p, v[p])
      ELSE book'.bids = EraseLevel(book.bids, p)
  BY <1>2, ApplyLevel
<1> HIDE DEF p
<1>5. /\ DOMAIN book'.bids = IF p \in DOMAIN v THEN DOMAIN book.bids \cup {p}
                             ELSE DOMAIN book.bids \ {p}
      /\ p \in DOMAIN v => book'.bids[p] = v[p]
      /\ \A x \in DOMAIN book.bids \ {p} : book'.bids[x] = book.bids[x]
  BY <1>4 DEF SetLevel, EraseLevel
<1>6. ASSUME NEW x \in DOMAIN v \ EntryPrices(Tail(cur))
      PROVE  x \in DOMAIN book'.bids /\ book'.bids[x] = v[x]
  <2>1. CASE x = p
    BY <1>5, <2>1
  <2>2. CASE x # p
    <3>1. x \in DOMAIN book.bids /\ book.bids[x] = v[x]
      BY <1>3, <2>2 DEF Catches
    <3> QED
      BY <1>5, <2>2, <3>1
  <2> QED
    BY <2>1, <2>2
<1>7. ASSUME NEW x \in DOMAIN book'.bids \ (DOMAIN v \cup EntryPrices(Tail(cur)))
      PROVE  x \in pushed
  <2>1. x # p /\ x \in DOMAIN book.bids
    BY <1>5
  <2> QED
    BY <1>3, <2>1 DEF Catches
<1> QED
  BY <1>1, <1>3, <1>6, <1>7 DEF Catches

-----------------------------------------------------------------------------
(* Every step preserves the invariant *)

\* At the start nothing is disclosed, nothing is in flight and the book is empty.
LEMMA FeedInitInv == FeedInit => FeedInv
<1> SUFFICES ASSUME FeedInit PROVE FeedInv
  OBVIOUS
<1>1. Inv
  BY InitInv DEF FeedInit
<1>2. /\ orders = [p \in Prices |-> 0] /\ sent_seq = 0 /\ net = << >> /\ cur = << >>
      /\ held = {} /\ last = << >> /\ synced = TRUE /\ book = EmptyBook /\ msg = NoMessage
  BY DEF FeedInit, Init
<1>3. /\ << >> \in Seq(BidEntries) /\ << >> \in Seq(FeedMessages) /\ Len(<< >>) = 0
      /\ DOMAIN << >> = {}
  OBVIOUS
<1>4. orders \in [Prices -> Sizes]
  BY <1>2, FeedAssumption
<1>5. FeedTypeOK
  BY <1>2, <1>3, <1>4, BoundsAssumption DEF FeedTypeOK
<1>6. LoopInStep
  BY <1>2, <1>3 DEF LoopInStep, NoMessage
<1> DEFINE v == Disclosed(orders)
           V == [i \in 1..1 |-> v]
<1>7. v \in Views /\ DOMAIN v = {}
  <2>1. InView(orders) = {}
    BY <1>2 DEF InView, Live
  <2> QED
    BY <1>4, <2>1, DisclosedView
<1> HIDE DEF v
<1>8. Len(net) = 0 /\ 1..(Len(net) + 1) = 1..1 /\ Len(net) + 1 = 1 /\ 1..Len(net) = {}
  BY <1>2, <1>3
<1>9. V \in [1..(Len(net) + 1) -> Views] /\ V[1] = v
  BY <1>7, <1>8
<1> HIDE DEF V
<1>10. Chain(V, net, orders)
  BY <1>8, <1>9 DEF Chain, v
<1>11. Agree(cur, v) /\ LastTells(v)
  BY <1>2, <1>3 DEF Agree, LastTells
<1>12. Catches(v)
  <2>1. DOMAIN book.bids = {}
    BY <1>2 DEF EmptyBook, NoLevels
  <2> QED
    BY <1>7, <1>11, <2>1 DEF Catches
<1>13. Behind
  BY <1>9, <1>10, <1>11, <1>12 DEF Behind
<1> QED
  BY <1>1, <1>5, <1>6, <1>13 DEF FeedInv

\* A change of the exchange's orders: the view stays or the update sent tells it.
LEMMA ExchangeChangeInv ==
  ASSUME FeedInv, NEW p \in Prices, NEW q \in Sizes, ExchangeChange(p, q)
  PROVE  FeedInv'
<1> DEFINE was == Disclosed(orders)
           now == Disclosed(orders')
           m == UpdateMessage(sent_seq + 1, was, now, p)
<1>1. /\ UNCHANGED <<vars, cur, held, last, synced, pushed>>
      /\ orders' = [orders EXCEPT ![p] = q] /\ sent_seq < MaxSeq
  BY DEF ExchangeChange
<1>2. /\ orders \in [Prices -> Sizes] /\ sent_seq \in 0..MaxSeq /\ net \in Seq(FeedMessages)
  BY DEF FeedInv, FeedTypeOK
<1>3. /\ orders' \in [Prices -> Sizes]
      /\ \A r \in Prices \ {p} : orders'[r] = orders[r]
  BY <1>1, <1>2
<1>4. sent_seq + 1 \in 0..MaxSeq
  BY <1>1, <1>2, BoundsAssumption
<1>5. /\ ChangeEntries(was, now, p) = << >> => was = now
      /\ m \in FeedMessages
      /\ Leads(was, m, now)
  BY <1>2, <1>3, <1>4, ChangeLeads
<1>6. now \in Views
  BY <1>3, DisclosedView
<1>7. \/ ChangeEntries(was, now, p) = << >> /\ UNCHANGED <<sent_seq, net>>
      \/ sent_seq' = sent_seq + 1 /\ net' = Append(net, m)
  BY DEF ExchangeChange, UpdateMessage
<1> HIDE DEF was, now, m
<1>8. PICK V \in [1..(Len(net) + 1) -> Views] :
        /\ Chain(V, net, orders)
        /\ synced => Catches(V[1]) /\ LastTells(V[1])
  BY DEF FeedInv, Behind
<1>9. net' \in Seq(FeedMessages) /\ sent_seq' \in 0..MaxSeq
      /\ \E W \in [1..(Len(net') + 1) -> Views] : Chain(W, net', orders') /\ W[1] = V[1]
  <2>1. CASE ChangeEntries(was, now, p) = << >> /\ UNCHANGED <<sent_seq, net>>
    <3>1. Chain(V, net', orders')
      BY <1>5, <1>8, <2>1 DEF Chain, was, now
    <3> QED
      BY <1>2, <2>1, <3>1
  <2>2. CASE sent_seq' = sent_seq + 1 /\ net' = Append(net, m)
    <3>1. Leads(Disclosed(orders), m, Disclosed(orders')) /\ Disclosed(orders') \in Views
      BY <1>5, <1>6 DEF was, now
    <3>2. /\ Append(net, m) \in Seq(FeedMessages)
          /\ \E W \in [1..(Len(Append(net, m)) + 1) -> Views] :
               Chain(W, Append(net, m), orders') /\ W[1] = V[1]
      BY <1>2, <1>5, <1>8, <3>1, ChainAppend
    <3> QED
      BY <1>4, <2>2, <3>2
  <2> QED
    BY <1>7, <2>1, <2>2
<1>10. PICK W \in [1..(Len(net') + 1) -> Views] : Chain(W, net', orders') /\ W[1] = V[1]
  BY <1>9
<1>11. synced' => Catches(W[1])' /\ LastTells(W[1])'
  BY <1>1, <1>8, <1>10 DEF Catches, LastTells, vars
<1>12. Behind'
  BY <1>10, <1>11 DEF Behind
<1>13. Inv' /\ LoopInStep'
  BY <1>1, NextInv DEF FeedInv, LoopInStep, vars
<1>14. FeedTypeOK'
  BY <1>1, <1>3, <1>9 DEF FeedInv, FeedTypeOK
<1> QED
  BY <1>12, <1>13, <1>14 DEF FeedInv

\* A snapshot sent tells the view disclosed.
LEMMA ExchangeSnapshotInv ==
  ASSUME FeedInv, ExchangeSnapshot
  PROVE  FeedInv'
<1> DEFINE v == Disclosed(orders)
           m == SnapshotMessage(sent_seq, v)
<1>1. UNCHANGED <<vars, orders, sent_seq, cur, held, last, synced, pushed>> /\ net' = Append(net, m)
  BY DEF ExchangeSnapshot, SnapshotMessage
<1>2. /\ orders \in [Prices -> Sizes] /\ sent_seq \in 0..MaxSeq /\ net \in Seq(FeedMessages)
  BY DEF FeedInv, FeedTypeOK
<1>3. m \in FeedMessages /\ Leads(Disclosed(orders), m, Disclosed(orders))
  BY <1>2, SnapshotLeads
<1>4. Disclosed(orders) \in Views
  BY <1>2, DisclosedView
<1> HIDE DEF v, m
<1>5. PICK V \in [1..(Len(net) + 1) -> Views] :
        /\ Chain(V, net, orders)
        /\ synced => Catches(V[1]) /\ LastTells(V[1])
  BY DEF FeedInv, Behind
<1>6. /\ Append(net, m) \in Seq(FeedMessages)
      /\ \E W \in [1..(Len(Append(net, m)) + 1) -> Views] :
           Chain(W, Append(net, m), orders) /\ W[1] = V[1]
  BY <1>2, <1>3, <1>4, <1>5, ChainAppend
<1>7. PICK W \in [1..(Len(net') + 1) -> Views] : Chain(W, net', orders') /\ W[1] = V[1]
  BY <1>1, <1>6
<1>8. synced' => Catches(W[1])' /\ LastTells(W[1])'
  BY <1>1, <1>5, <1>7 DEF Catches, LastTells, vars
<1>9. Behind'
  BY <1>7, <1>8 DEF Behind
<1>10. Inv' /\ LoopInStep'
  BY <1>1, NextInv DEF FeedInv, LoopInStep, vars
<1>11. FeedTypeOK'
  BY <1>1, <1>6 DEF FeedInv, FeedTypeOK
<1> QED
  BY <1>9, <1>10, <1>11 DEF FeedInv

\* A lost snapshot leaves the view it is of; with a lost update sync is gone.
LEMMA LoseInv ==
  ASSUME FeedInv, Lose
  PROVE  FeedInv'
<1>1. /\ net # << >> /\ net' = Tail(net)
      /\ synced' = (synced /\ Head(net).kind # "update")
      /\ UNCHANGED <<vars, orders, sent_seq, cur, held, last, pushed>>
  BY DEF Lose
<1>2. net \in Seq(FeedMessages)
  BY DEF FeedInv, FeedTypeOK
<1>3. PICK V \in [1..(Len(net) + 1) -> Views] :
        /\ Chain(V, net, orders)
        /\ synced => Catches(V[1]) /\ LastTells(V[1])
  BY DEF FeedInv, Behind
<1>4. /\ Head(net) \in FeedMessages /\ Tail(net) \in Seq(FeedMessages)
      /\ V[1] \in Views /\ V[2] \in Views /\ Leads(V[1], Head(net), V[2])
      /\ \E W \in [1..(Len(Tail(net)) + 1) -> Views] :
           Chain(W, Tail(net), orders) /\ W[1] = V[2]
  BY <1>1, <1>2, <1>3, ChainTail
<1>5. PICK W \in [1..(Len(net') + 1) -> Views] : Chain(W, net', orders') /\ W[1] = V[2]
  BY <1>1, <1>4
<1>6. synced' => synced /\ W[1] = V[1]
  <2> SUFFICES ASSUME synced' PROVE synced /\ W[1] = V[1]
    OBVIOUS
  <2>1. synced /\ Head(net).kind # "update"
    BY <1>1
  <2>2. Head(net).kind = "snapshot"
    BY <1>4, <2>1 DEF FeedMessages
  <2> QED
    BY <1>4, <1>5, <2>1, <2>2 DEF Leads
<1>7. synced' => Catches(W[1])' /\ LastTells(W[1])'
  BY <1>1, <1>3, <1>6 DEF Catches, LastTells, vars
<1>8. Behind'
  BY <1>5, <1>7 DEF Behind
<1>9. Inv' /\ LoopInStep'
  BY <1>1, NextInv DEF FeedInv, LoopInStep, vars
<1>10. FeedTypeOK'
  BY <1>1, <1>4 DEF FeedInv, FeedTypeOK
<1> QED
  BY <1>8, <1>9, <1>10 DEF FeedInv

\* A message delivered takes the book from the first view to the second.
LEMMA DeliverInv ==
  ASSUME FeedInv, Deliver
  PROVE  FeedInv' /\ Next
<1> DEFINE m == Head(net)
<1>1. /\ net # << >> /\ Open(m) /\ net' = Tail(net) /\ last' = << m >>
      /\ synced' = (synced \/ m.kind = "snapshot")
      /\ UNCHANGED <<orders, sent_seq, held>>
  BY DEF Deliver
<1>2. net \in Seq(FeedMessages) /\ Inv /\ FeedTypeOK /\ LoopInStep
  BY DEF FeedInv, FeedTypeOK
<1>3. PICK V \in [1..(Len(net) + 1) -> Views] :
        /\ Chain(V, net, orders)
        /\ synced => Catches(V[1]) /\ LastTells(V[1])
  BY DEF FeedInv, Behind
<1>4. /\ m \in FeedMessages /\ Tail(net) \in Seq(FeedMessages)
      /\ V[1] \in Views /\ V[2] \in Views /\ Leads(V[1], m, V[2])
      /\ \E W \in [1..(Len(Tail(net)) + 1) -> Views] :
           Chain(W, Tail(net), orders) /\ W[1] = V[2]
  BY <1>1, <1>2, <1>3, ChainTail
<1> HIDE DEF m
<1>5. PICK W \in [1..(Len(net') + 1) -> Views] : Chain(W, net', orders') /\ W[1] = V[2]
  BY <1>1, <1>4
<1>6. Next /\ LoopInStep' /\ cur' \in Seq(BidEntries)
  BY <1>1, <1>2, <1>4, OpenStep
<1>7. ASSUME synced'
      PROVE  Catches(W[1])'
  <2>1. m.kind = "snapshot" \/ Catches(V[1])
    BY <1>1, <1>3, <1>7
  <2> DEFINE u == V[1]
             v == V[2]
  <2>2. u \in Views /\ v \in Views /\ Leads(u, m, v) /\ (m.kind = "snapshot" \/ Catches(u))
    BY <1>4, <2>1
  <2> HIDE DEF u, v
  <2>3. Catches(v)'
    BY <1>1, <1>2, <1>4, <2>2, OpenCatches
  <2> QED
    BY <1>5, <2>3 DEF v
<1>8. LastTells(W[1])'
  <2>1. DOMAIN last' = {1} /\ last'[1] = m
    BY <1>1
  <2>2. Tells(m, W[1])
    BY <1>4, <1>5 DEF Leads
  <2> QED
    BY <2>1, <2>2 DEF LastTells
<1>9. Behind'
  BY <1>5, <1>7, <1>8 DEF Behind
<1>10. Inv'
  BY <1>2, <1>6, NextInv
<1>11. FeedTypeOK'
  <2>1. synced' \in BOOLEAN
    BY <1>1
  <2> QED
    BY <1>1, <1>2, <1>4, <1>6, <2>1 DEF FeedTypeOK
<1> QED
  BY <1>6, <1>9, <1>10, <1>11 DEF FeedInv

\* A copy held up changes nothing that the client has.
LEMMA HoldUpInv ==
  ASSUME FeedInv, HoldUp
  PROVE  FeedInv'
<1>1. /\ net # << >> /\ held' = held \cup {Head(net)}
      /\ UNCHANGED <<vars, orders, sent_seq, net, cur, last, synced, pushed>>
  BY DEF HoldUp
<1>2. net \in Seq(FeedMessages) /\ held \subseteq FeedMessages
  BY DEF FeedInv, FeedTypeOK
<1>3. Head(net) \in FeedMessages
  BY <1>1, <1>2, HeadTailProperties
<1>4. held' \subseteq FeedMessages
  BY <1>1, <1>2, <1>3
<1>5. FeedTypeOK'
  BY <1>1, <1>4 DEF FeedInv, FeedTypeOK
<1>6. Inv' /\ LoopInStep'
  BY <1>1, NextInv DEF FeedInv, LoopInStep, vars
<1>7. Behind'
  BY <1>1 DEF FeedInv, Behind, Chain, Catches, LastTells, vars
<1> QED
  BY <1>5, <1>6, <1>7 DEF FeedInv

\* The message delivered last leaves, delivered once more, the book at the view it
\* told; after any other copy sync is gone.
LEMMA RedeliverInv ==
  ASSUME FeedInv, NEW m, Redeliver(m)
  PROVE  FeedInv' /\ Next
<1>1. /\ m \in held \/ last = << m >>
      /\ Open(m)
      /\ held' = held \ {m}
      /\ synced' = (synced /\ last = << m >>)
      /\ UNCHANGED <<orders, sent_seq, net, last>>
  BY DEF Redeliver
<1>2. Inv /\ FeedTypeOK /\ LoopInStep
  BY DEF FeedInv
<1>3. m \in FeedMessages
  <2>1. CASE m \in held
    BY <1>2, <2>1 DEF FeedTypeOK
  <2>2. CASE last = << m >>
    <3>1. last \in {<< >>} \cup {<< x >> : x \in FeedMessages}
      BY <1>2 DEF FeedTypeOK
    <3>2. PICK x \in FeedMessages : last = << x >>
      BY <2>2, <3>1
    <3>3. m = x
      BY <2>2, <3>2
    <3> QED
      BY <3>3
  <2> QED
    BY <1>1, <2>1, <2>2
<1>4. last = << m >> => DOMAIN last = {1} /\ last[1] = m
  OBVIOUS
<1>5. Next /\ LoopInStep' /\ cur' \in Seq(BidEntries)
  BY <1>1, <1>2, <1>3, OpenStep
<1>6. PICK V \in [1..(Len(net) + 1) -> Views] :
        /\ Chain(V, net, orders)
        /\ synced => Catches(V[1]) /\ LastTells(V[1])
  BY DEF FeedInv, Behind
<1>7. V[1] \in Views
  <2>1. 1 \in 1..(Len(net) + 1)
    BY <1>2, LenProperties DEF FeedTypeOK
  <2> QED
    BY <2>1
<1>8. ASSUME synced'
      PROVE  Catches(V[1])' /\ LastTells(V[1])'
  <2> DEFINE v == V[1]
  <2>1. Catches(v) /\ LastTells(v) /\ v \in Views /\ last = << m >>
    BY <1>1, <1>6, <1>7, <1>8
  <2> HIDE DEF v
  <2>2. Tells(m, v)
    BY <1>4, <2>1 DEF LastTells
  <2>3. Leads(v, m, v)
    BY <2>2 DEF Leads
  <2>4. Catches(v)'
    BY <1>1, <1>2, <1>3, <2>1, <2>3, OpenCatches
  <2>5. LastTells(v)'
    BY <1>1, <2>1 DEF LastTells
  <2> QED
    BY <2>4, <2>5 DEF v
<1>9. Chain(V, net', orders') /\ V \in [1..(Len(net') + 1) -> Views]
  BY <1>1, <1>6
<1>10. Behind'
  BY <1>8, <1>9 DEF Behind
<1>11. Inv'
  BY <1>2, <1>5, NextInv
<1>12. FeedTypeOK'
  <2>1. held' \subseteq FeedMessages /\ synced' \in BOOLEAN
    BY <1>1, <1>2 DEF FeedTypeOK
  <2> QED
    BY <1>1, <1>2, <1>5, <2>1 DEF FeedTypeOK
<1> QED
  BY <1>5, <1>10, <1>11, <1>12 DEF FeedInv

\* An entry applied keeps the book at its view.
LEMMA ApplyInv ==
  ASSUME FeedInv, Apply
  PROVE  FeedInv' /\ Next
<1>1. UNCHANGED <<orders, sent_seq, net, held, last, synced, pushed>>
  BY DEF Apply
<1>2. Inv /\ FeedTypeOK /\ LoopInStep
  BY DEF FeedInv
<1>3. Next /\ LoopInStep' /\ cur' \in Seq(BidEntries)
  BY <1>2, ApplyStep
<1>4. PICK V \in [1..(Len(net) + 1) -> Views] :
        /\ Chain(V, net, orders)
        /\ synced => Catches(V[1]) /\ LastTells(V[1])
  BY DEF FeedInv, Behind
<1>5. V[1] \in Views
  <2>1. 1 \in 1..(Len(net) + 1)
    BY <1>2, LenProperties DEF FeedTypeOK
  <2> QED
    BY <2>1
<1>6. ASSUME synced'
      PROVE  Catches(V[1])' /\ LastTells(V[1])'
  <2> DEFINE v == V[1]
  <2>1. Catches(v) /\ LastTells(v) /\ v \in Views
    BY <1>1, <1>4, <1>5, <1>6
  <2> HIDE DEF v
  <2>2. Catches(v)'
    BY <1>2, <2>1, ApplyCatches
  <2>3. LastTells(v)'
    BY <1>1, <2>1 DEF LastTells
  <2> QED
    BY <2>2, <2>3 DEF v
<1>7. Chain(V, net', orders') /\ V \in [1..(Len(net') + 1) -> Views]
  BY <1>1, <1>4
<1>8. Behind'
  BY <1>6, <1>7 DEF Behind
<1>9. Inv'
  BY <1>2, <1>3, NextInv
<1>10. FeedTypeOK'
  BY <1>1, <1>2, <1>3 DEF FeedTypeOK
<1> QED
  BY <1>3, <1>8, <1>9, <1>10 DEF FeedInv

\* Every step of the feed preserves the invariant, and is a step of the book or
\* leaves the book alone.
LEMMA FeedNextInv == FeedInv /\ [FeedNext]_allVars => FeedInv' /\ [Next]_vars
<1> SUFFICES ASSUME FeedInv, [FeedNext]_allVars PROVE FeedInv' /\ [Next]_vars
  OBVIOUS
<1>1. ASSUME NEW p \in Prices, NEW q \in Sizes, ExchangeChange(p, q)
      PROVE  FeedInv' /\ UNCHANGED vars
  BY <1>1, ExchangeChangeInv DEF ExchangeChange
<1>2. CASE ExchangeSnapshot
  BY <1>2, ExchangeSnapshotInv DEF ExchangeSnapshot
<1>3. CASE Lose
  BY <1>3, LoseInv DEF Lose
<1>4. CASE Deliver
  BY <1>4, DeliverInv
<1>5. ASSUME NEW m, Redeliver(m)
      PROVE  FeedInv' /\ Next
  BY <1>5, RedeliverInv
<1>8. CASE HoldUp
  BY <1>8, HoldUpInv DEF HoldUp
<1>6. CASE Apply
  BY <1>6, ApplyInv
<1>7. CASE UNCHANGED allVars
  <2>1. UNCHANGED vars /\ UNCHANGED <<orders, sent_seq, net, cur, held, last, synced, pushed>>
    BY <1>7 DEF allVars, feedVars
  <2>2. Inv' /\ LoopInStep'
    BY <2>1, NextInv DEF FeedInv, LoopInStep, vars
  <2>3. FeedTypeOK'
    BY <2>1 DEF FeedInv, FeedTypeOK
  <2>4. Behind'
    BY <2>1 DEF FeedInv, Behind, Chain, Catches, LastTells, vars
  <2> QED
    BY <2>1, <2>2, <2>3, <2>4 DEF FeedInv
<1> QED
  BY <1>1, <1>2, <1>3, <1>4, <1>5, <1>6, <1>7, <1>8 DEF FeedNext

-----------------------------------------------------------------------------
(* The feed: theorems *)

\* With the client idle, nothing in flight and the client in sync, the invariant
\* says that the book shows what the exchange discloses.
LEMMA FeedInvMirrors == FeedInv => ClientMirrorsExchange
<1> SUFFICES ASSUME FeedInv, synced, Idle, net = << >>
             PROVE  LET view  == Disclosed(orders)
                        shown == get_top_bids(book, Cardinality(Prices))
                    IN  /\ DOMAIN view \subseteq DOMAIN shown
                        /\ \A p \in DOMAIN view : shown[p] = view[p]
                        /\ DOMAIN shown \ DOMAIN view \subseteq pushed
  BY DEF ClientMirrorsExchange
<1> DEFINE v == Disclosed(orders)
           S == DOMAIN book.bids
           shown == get_top_bids(book, Cardinality(Prices))
<1>1. Inv /\ FeedTypeOK /\ LoopInStep
  BY DEF FeedInv
<1>2. EntryPrices(cur) = {}
  <2>1. Len(cur) = 0
    BY <1>1 DEF Idle, LoopInStep
  <2>2. cur = << >>
    BY <1>1, <2>1, EmptySeq DEF FeedTypeOK
  <2> QED
    BY <2>2, EmptySays
<1>3. Catches(v)
  <2>1. PICK V \in [1..(Len(net) + 1) -> Views] : Chain(V, net, orders) /\ Catches(V[1])
    BY DEF FeedInv, Behind
  <2>2. Len(net) + 1 = 1
    OBVIOUS
  <2> QED
    BY <2>1, <2>2 DEF Chain
<1>4. S \in SUBSET Prices
  BY <1>1 DEF Inv, TypeOK, Books, Levels
<1>5. IsFiniteSet(S) /\ S \subseteq Int /\ Cardinality(S) <= Cardinality(Prices)
  BY <1>4, FinitePrices, FS_Subset
<1>6. Cardinality(S) \in Nat /\ Cardinality(Prices) \in Nat
  BY <1>5, FinitePrices, FS_CardinalityType
<1>7. \A p \in S : Cardinality(Higher(S, p)) \in 0..(Cardinality(S) - 1)
  BY <1>5, RankFalls
<1>8. \A p \in S : Cardinality(Higher(S, p)) < Cardinality(Prices)
  BY <1>5, <1>6, <1>7
<1>9. DOMAIN shown = S /\ \A p \in S : shown[p] = book.bids[p]
  <2>1. \A p \in S : Cardinality({r \in S : r > p}) < Cardinality(Prices)
    BY <1>8 DEF Higher
  <2> QED
    BY <2>1 DEF get_top_bids
<1> HIDE DEF v, shown
<1>10. /\ DOMAIN v \subseteq DOMAIN shown
       /\ \A p \in DOMAIN v : shown[p] = v[p]
       /\ DOMAIN shown \ DOMAIN v \subseteq pushed
  BY <1>2, <1>3, <1>9 DEF Catches
<1> QED
  BY <1>10 DEF v, shown

\* The book of a client mirrors the exchange's disclosed levels whenever nothing is
\* in flight and, since the last snapshot delivered in its turn, no update was lost
\* and no copy came out of turn, whatever was lost, repeated or late before:
\* applying I081 by price and I083 as a rebuild is enough.
THEOREM FeedMirrors == FeedSpec => []ClientMirrorsExchange
<1>1. FeedInv /\ [FeedNext]_allVars => FeedInv'
  BY FeedNextInv
<1> QED
  BY FeedInitInv, <1>1, FeedInvMirrors, PTL DEF FeedSpec

\* The feed implements OrderBook: whatever the exchange sends and the channel does,
\* the client's book takes only the steps of an OrderBook.
THEOREM FeedImplementsBook == FeedSpec => Spec
<1>1. FeedInit => Init
  BY DEF FeedInit
<1>2. FeedInv /\ [FeedNext]_allVars => FeedInv' /\ [Next]_vars
  BY FeedNextInv
<1> QED
  BY FeedInitInv, <1>1, <1>2, PTL DEF FeedSpec, Spec

\* The four safety invariants of the book hold of the client's book in the feed.
THEOREM FeedBookCorrect == FeedSpec => []Inv
BY FeedImplementsBook, Correct, PTL

=============================================================================
