------------------------------ MODULE OrderBook ------------------------------
(***************************************************************************)
(* OrderBookManagement::OrderBook (order_book/order_book.cpp): the price   *)
(* levels of one product, rebuilt by a snapshot (I083) and changed by      *)
(* differential updates (I081).                                            *)
(*                                                                         *)
(* Both messages carry a list of entries that the code applies one by one  *)
(* in a for loop. Here a message opens with an action of its own and every *)
(* iteration of the loop is one step, so that the invariants also hold of  *)
(* the book between two entries. A book is not thread safe: the next       *)
(* message opens only when the loop of the previous one is over.           *)
(***************************************************************************)
EXTENDS Integers, FiniteSets

CONSTANTS
  Quotes,      \* the <<md_entry_px, sign>> pairs that entries carry
  Sizes,       \* the md_entry_size values that entries carry
  MaxSeq,      \* bound: prod_msg_seq ranges over 0..MaxSeq
  MaxEntries   \* bound: no_md_entries ranges over 0..MaxEntries

\* Prices and sizes are unsigned packed-BCD digits on the wire.
ASSUME QuotesAssumption == Quotes \subseteq Nat \X {"0", "-"}
ASSUME SizesAssumption == Sizes \subseteq Nat
ASSUME BoundsAssumption == MaxSeq \in Nat /\ MaxEntries \in Nat

VARIABLES
  book,     \* the members of the OrderBook object
  msg,      \* the message being applied, or the last one applied
  applied,  \* history: prod_msg_seq of every message since the last rebase
  named     \* history: <<entry type, price>> of the entries of msg so far

vars == <<book, msg, applied, named>>

-----------------------------------------------------------------------------
(* Values *)

apply_sign_to_price(px, sign) == IF sign = "-" /\ px > 0 THEN -px ELSE px

Prices == {apply_sign_to_price(q[1], q[2]) : q \in Quotes}

\* A price map: a function from the prices present to their quantities.
Levels == UNION {[P -> Sizes] : P \in SUBSET Prices}

\* std::optional<PriceQuantityLevel>: a set with at most one level.
Derived == {{}} \cup {{[price |-> p, quantity |-> q]} : p \in Prices, q \in Sizes}

Books == [bids : Levels, asks : Levels,
          derived_bid : Derived, derived_ask : Derived,
          last_prod_msg_seq : 0..MaxSeq]

EntryTypes == {"0", "1", "E", "F", "other"}
UpdateActions == {"0", "1", "2", "5", "other"}

Entries == [md_entry_type : EntryTypes, md_update_action : UpdateActions,
            quote : Quotes, md_entry_size : Sizes]

-----------------------------------------------------------------------------
(* Price maps *)

NoLevels == [p \in {} |-> 0]

SetLevel(m, p, q) == [x \in DOMAIN m \cup {p} |-> IF x = p THEN q ELSE m[x]]

EraseLevel(m, p) == [x \in DOMAIN m \ {p} |-> m[x]]

\* A New entry (and every snapshot entry) of quantity zero is ignored.
NewLevel(m, p, q) == IF q > 0 THEN SetLevel(m, p, q) ELSE m

\* Faulty variant of ChangeLevel: zero is stored like any other quantity.
ChangeLevelStoringZero(m, p, q) == SetLevel(m, p, q)

\* A Change sets the level, inserting it when it is missing; zero erases it.
ChangeLevel(m, p, q) == IF q > 0 THEN SetLevel(m, p, q) ELSE EraseLevel(m, p)

\* Faulty variant of ApplyAction: deletions are not recognised.
ApplyActionWithoutDelete(m, action, p, q) ==
  CASE action = "0" -> NewLevel(m, p, q)
    [] action = "1" -> ChangeLevel(m, p, q)
    [] OTHER -> m

ApplyAction(m, action, p, q) ==
  CASE action = "0" -> NewLevel(m, p, q)
    [] action = "1" -> ChangeLevel(m, p, q)
    [] action = "2" -> EraseLevel(m, p)
    [] OTHER -> m

\* A derived quote is replaced, and cleared by price and quantity both zero.
OverlayQuote(p, q) ==
  IF q > 0 \/ p # 0 THEN {[price |-> p, quantity |-> q]} ELSE {}

\* get_top_bids and get_top_asks: the n best levels of a side.
get_top_bids(b, n) ==
  LET best == {p \in DOMAIN b.bids :
                 Cardinality({r \in DOMAIN b.bids : r > p}) < n}
  IN  [p \in best |-> b.bids[p]]

get_top_asks(b, n) ==
  LET best == {p \in DOMAIN b.asks :
                 Cardinality({r \in DOMAIN b.asks : r < p}) < n}
  IN  [p \in best |-> b.asks[p]]

-----------------------------------------------------------------------------
(* The object's operations *)

EmptyBook == [bids |-> NoLevels, asks |-> NoLevels,
              derived_bid |-> {}, derived_ask |-> {}, last_prod_msg_seq |-> 0]

\* Faulty variant of RebasedBook: reset() is not called.
RebasedBookWithoutReset(seq) == [book EXCEPT !.last_prod_msg_seq = seq]

\* apply_snapshot before its loop: reset(), then the sequence number as sent.
RebasedBook(seq) == [EmptyBook EXCEPT !.last_prod_msg_seq = seq]

\* One iteration of apply_snapshot's loop.
SnapshotEntry(b, e, calculated_flag) ==
  LET p == apply_sign_to_price(e.quote[1], e.quote[2])
      q == e.md_entry_size
      derives == calculated_flag = "0"
  IN  CASE e.md_entry_type = "0" -> [b EXCEPT !.bids = NewLevel(@, p, q)]
        [] e.md_entry_type = "1" -> [b EXCEPT !.asks = NewLevel(@, p, q)]
        [] e.md_entry_type = "E" /\ derives ->
             [b EXCEPT !.derived_bid = OverlayQuote(p, q)]
        [] e.md_entry_type = "F" /\ derives ->
             [b EXCEPT !.derived_ask = OverlayQuote(p, q)]
        [] OTHER -> b

\* Faulty variants of SequencedBook: a late number is recorded too; the number
\* recorded is the one expected next.
SequencedBookAlways(b, seq) == [b EXCEPT !.last_prod_msg_seq = seq]
SequencedBookExpected(b, seq) == [b EXCEPT !.last_prod_msg_seq = seq + 1]

\* apply_update before its loop: only a newer number is recorded; an older one
\* is noticed and nothing is done about it.
SequencedBook(b, seq) ==
  IF seq > b.last_prod_msg_seq \/ b.last_prod_msg_seq = 0
  THEN [b EXCEPT !.last_prod_msg_seq = seq]
  ELSE b

\* One iteration of apply_update's loop.
UpdateEntry(b, e) ==
  LET p == apply_sign_to_price(e.quote[1], e.quote[2])
      q == e.md_entry_size
      action == e.md_update_action
  IN  CASE e.md_entry_type = "0" ->
             [b EXCEPT !.bids = ApplyAction(@, action, p, q)]
        [] e.md_entry_type = "1" ->
             [b EXCEPT !.asks = ApplyAction(@, action, p, q)]
        [] e.md_entry_type = "E" /\ action = "5" ->
             [b EXCEPT !.derived_bid = OverlayQuote(p, q)]
        [] e.md_entry_type = "F" /\ action = "5" ->
             [b EXCEPT !.derived_ask = OverlayQuote(p, q)]
        [] OTHER -> b

-----------------------------------------------------------------------------
(* The state machine *)

NoMessage == [kind |-> "none", prod_msg_seq |-> 0, calculated_flag |-> "0", left |-> 0]

Messages == [kind : {"none", "snapshot", "update"}, prod_msg_seq : 0..MaxSeq,
             calculated_flag : {"0", "1"}, left : 0..MaxEntries]

Init ==
  /\ book = EmptyBook
  /\ msg = NoMessage
  /\ applied = {}
  /\ named = {}

\* No message's loop is running.
Idle == msg.left = 0

reset ==
  /\ Idle
  /\ book' = EmptyBook
  /\ msg' = NoMessage
  /\ applied' = {}
  /\ named' = {}

BeginSnapshot(seq, flag, n) ==
  /\ Idle
  /\ book' = RebasedBook(seq)
  /\ msg' = [kind |-> "snapshot", prod_msg_seq |-> seq, calculated_flag |-> flag, left |-> n]
  /\ applied' = {seq}
  /\ named' = {}

BeginUpdate(seq, n) ==
  /\ Idle
  /\ book' = SequencedBook(book, seq)
  /\ msg' = [kind |-> "update", prod_msg_seq |-> seq, calculated_flag |-> "0", left |-> n]
  /\ applied' = applied \cup {seq}
  /\ named' = {}

Name(e) == <<e.md_entry_type, apply_sign_to_price(e.quote[1], e.quote[2])>>

ApplyEntry(e) ==
  /\ ~ Idle
  /\ \/ /\ msg.kind = "snapshot"
        /\ book' = SnapshotEntry(book, e, msg.calculated_flag)
     \/ /\ msg.kind = "update"
        /\ book' = UpdateEntry(book, e)
  /\ msg' = [msg EXCEPT !.left = @ - 1]
  /\ named' = named \cup {Name(e)}
  /\ UNCHANGED applied

Next ==
  \/ reset
  \/ \E seq \in 0..MaxSeq, flag \in {"0", "1"}, n \in 0..MaxEntries :
       BeginSnapshot(seq, flag, n)
  \/ \E seq \in 0..MaxSeq, n \in 0..MaxEntries : BeginUpdate(seq, n)
  \/ \E e \in Entries : ApplyEntry(e)

Spec == Init /\ [][Next]_vars

-----------------------------------------------------------------------------
(* Properties *)

\* Every member has its type, and a message has at most MaxEntries entries.
TypeOK ==
  /\ book \in Books
  /\ msg \in Messages
  /\ applied \subseteq 0..MaxSeq
  /\ named \subseteq EntryTypes \X Prices

\* No sequence of snapshots and updates, in whatever order their entries come,
\* leaves a level of quantity zero on a side: get_top_bids and get_top_asks
\* would show it as a price that can be traded.
NoEmptyLevel ==
  /\ \A p \in DOMAIN book.bids : book.bids[p] > 0
  /\ \A p \in DOMAIN book.asks : book.asks[p] > 0

\* A snapshot replaces the book: whatever was there before, every level and
\* every derived quote of the book afterwards was named by one of the
\* snapshot's own entries.
SnapshotLeavesNoResidue ==
  msg.kind = "snapshot" =>
    /\ \A p \in DOMAIN book.bids : <<"0", p>> \in named
    /\ \A p \in DOMAIN book.asks : <<"1", p>> \in named
    /\ \A d \in book.derived_bid : <<"E", d.price>> \in named
    /\ \A d \in book.derived_ask : <<"F", d.price>> \in named

\* There are no derived quotes in a call auction: from the moment a snapshot
\* with calculated_flag '1' is opened until another message is, both are empty.
NoDerivedInAuction ==
  msg.kind = "snapshot" /\ msg.calculated_flag = "1" =>
    book.derived_bid = {} /\ book.derived_ask = {}

\* last_prod_msg_seq is the highest number applied since the book was last
\* rebased by a snapshot or emptied by reset, late updates notwithstanding.
SeqIsHighWater ==
  /\ \A s \in applied : s <= book.last_prod_msg_seq
  /\ book.last_prod_msg_seq \in applied \cup {0}

\* "Should be ignored by current logic" (test_order_book.cpp): no entry of an
\* update that is older than the book changes the book. The code finds out that
\* the update is old and goes on to its loop.
LateUpdateIgnored ==
  [][ ~ Idle /\ msg.kind = "update" /\ msg.prod_msg_seq < book.last_prod_msg_seq
        => book' = book ]_vars

=============================================================================
