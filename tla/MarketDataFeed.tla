--------------------------- MODULE MarketDataFeed ---------------------------
(***************************************************************************)
(* An OrderBook fed by the exchange over a channel that may lose, repeat or *)
(* reorder messages: two feeds and the retransmission server carry copies,  *)
(* and what is retransmitted is never checked for duplicates. The exchange  *)
(* is external: it keeps the full bid side of one product and discloses its *)
(* Depth best levels. As the notes in order_book.h                          *)
(* and in apply_update describe, an update (I081) carries the level that    *)
(* changed and, when a deletion makes room, the level that comes into view; *)
(* a level pushed out of view by a better one gets no message. A snapshot   *)
(* (I083) carries the disclosed levels.                                     *)
(***************************************************************************)
EXTENDS OrderBook, Sequences

CONSTANTS
  Depth,   \* the disclosed depth (the exchange's is 5)
  MaxNet,  \* bound: messages in flight
  MaxLate  \* bound: copies held up at a time

ASSUME DepthAssumption == Depth \in Nat \ {0} /\ MaxNet \in Nat \ {0} /\ MaxLate \in Nat

\* Prices have a fixed number of digits, a price may have no orders at all, and
\* a message has room for an update's two entries and for a snapshot's levels.
ASSUME FeedAssumption ==
  /\ IsFiniteSet(Quotes) /\ 0 \in Sizes
  /\ MaxEntries >= 2 /\ MaxEntries >= Depth

VARIABLES
  orders,    \* the exchange's quantity at every price
  sent_seq,  \* the exchange's last PROD-MSG-SEQ
  net,       \* messages in flight, first in first out
  cur,       \* the entries of the message being applied that are left
  held,      \* copies of messages that are held up on the way
  last,      \* the message delivered last in its turn
  synced,    \* history: since the last snapshot delivered in its turn no update
             \* was lost and no message came out of turn
  pushed     \* history: the levels pushed out of view since then

feedVars == <<orders, sent_seq, net, cur, held, last, synced, pushed>>
allVars == <<vars, feedVars>>

-----------------------------------------------------------------------------
(* The exchange *)

\* The prices that have orders, those above a price, and those in view.
Live(o) == {p \in Prices : o[p] > 0}
Above(o, p) == {r \in Live(o) : r > p}
InView(o) == {p \in Live(o) : Cardinality(Above(o, p)) < Depth}

Disclosed(o) == [p \in InView(o) |-> o[p]]

\* The price of an entry, and an entry with a given price.
EntryPrice(e) == apply_sign_to_price(e.quote[1], e.quote[2])

BidEntry(action, p, q) ==
  [md_entry_type |-> "0", md_update_action |-> action,
   quote |-> CHOOSE quote \in Quotes : apply_sign_to_price(quote[1], quote[2]) = p,
   md_entry_size |-> q]

EntryPrices(entries) == {EntryPrice(entries[i]) : i \in DOMAIN entries}

\* The entry for the price p whose orders changed, if it is or was in view.
OwnEntry(was, now, p) ==
  IF p \in DOMAIN now
  THEN << BidEntry(IF p \in DOMAIN was THEN "1" ELSE "0", p, now[p]) >>
  ELSE IF p \in DOMAIN was THEN << BidEntry("2", p, 0) >> ELSE << >>

\* The level that the change at p brought into view, if there is one, and its entry.
Fresh(was, now, p) == DOMAIN now \ (DOMAIN was \cup {p})

RefillEntry(was, now, p) ==
  IF Fresh(was, now, p) = {} THEN << >>
  ELSE LET r == CHOOSE r \in Fresh(was, now, p) : TRUE
       IN  << BidEntry("0", r, now[r]) >>

ChangeEntries(was, now, p) == OwnEntry(was, now, p) \o RefillEntry(was, now, p)

\* A change of the orders at a price, and the update it causes if any. The level
\* that it pushes out of view is noted beside the message, for the history.
ExchangeChange(p, q) ==
  /\ q # orders[p] /\ Len(net) < MaxNet /\ sent_seq < MaxSeq
  /\ orders' = [orders EXCEPT ![p] = q]
  /\ LET was == Disclosed(orders)
         now == Disclosed(orders')
         entries == ChangeEntries(was, now, p)
     IN  IF entries = << >>
         THEN UNCHANGED <<sent_seq, net>>
         ELSE /\ sent_seq' = sent_seq + 1
              /\ net' = Append(net, [kind |-> "update", seq |-> sent_seq + 1,
                                     entries |-> entries,
                                     out |-> DOMAIN was \ (DOMAIN now \cup {p})])
  /\ UNCHANGED <<vars, cur, held, last, synced, pushed>>

\* The disclosed levels as a list of entries, best first.
Ranked(view, i) ==
  CHOOSE p \in DOMAIN view : Cardinality({r \in DOMAIN view : r > p}) = i - 1

SnapshotEntries(view) ==
  [i \in 1..Cardinality(DOMAIN view) |->
     BidEntry("0", Ranked(view, i), view[Ranked(view, i)])]

ExchangeSnapshot ==
  /\ Len(net) < MaxNet
  /\ net' = Append(net, [kind |-> "snapshot", seq |-> sent_seq,
                         entries |-> SnapshotEntries(Disclosed(orders)),
                         out |-> {}])
  /\ UNCHANGED <<vars, orders, sent_seq, cur, held, last, synced, pushed>>

-----------------------------------------------------------------------------
(* The channel and the client *)

Lose ==
  /\ net # << >>
  /\ net' = Tail(net)
  /\ synced' = (synced /\ Head(net).kind # "update")
  /\ UNCHANGED <<vars, orders, sent_seq, cur, held, last, pushed>>

\* apply_update or apply_snapshot is called with message m.
Open(m) ==
  /\ IF m.kind = "snapshot"
     THEN BeginSnapshot(m.seq, "0", Len(m.entries))
     ELSE BeginUpdate(m.seq, Len(m.entries))
  /\ cur' = m.entries
  /\ pushed' = IF m.kind = "snapshot" THEN {}
               ELSE (pushed \ EntryPrices(m.entries)) \cup m.out

Deliver ==
  /\ net # << >>
  /\ Open(Head(net))
  /\ net' = Tail(net)
  /\ last' = <<Head(net)>>
  /\ synced' = (synced \/ Head(net).kind = "snapshot")
  /\ UNCHANGED <<orders, sent_seq, held>>

\* A copy of a message is held up: in a feed that stalls, or with the server of
\* retransmissions. The message itself is delivered or lost as any other.
HoldUp ==
  /\ net # << >> /\ Cardinality(held) < MaxLate
  /\ held' = held \cup {Head(net)}
  /\ UNCHANGED <<vars, orders, sent_seq, net, cur, last, synced, pushed>>

\* A copy arrives: of the message delivered last, or one that was held up while
\* others overtook it. The book applies it like any other.
Redeliver(m) ==
  /\ m \in held \/ last = << m >>
  /\ Open(m)
  /\ held' = held \ {m}
  /\ synced' = (synced /\ last = << m >>)
  /\ UNCHANGED <<orders, sent_seq, net, last>>

Apply ==
  /\ cur # << >>
  /\ ApplyEntry(Head(cur))
  /\ cur' = Tail(cur)
  /\ UNCHANGED <<orders, sent_seq, net, held, last, synced, pushed>>

FeedInit ==
  /\ Init
  /\ orders = [p \in Prices |-> 0]
  /\ sent_seq = 0
  /\ net = << >>
  /\ cur = << >>
  /\ held = {}
  /\ last = << >>
  /\ synced = TRUE
  /\ pushed = {}

FeedNext ==
  \/ \E p \in Prices, q \in Sizes : ExchangeChange(p, q)
  \/ ExchangeSnapshot
  \/ Lose
  \/ Deliver
  \/ HoldUp
  \/ \E m \in held \cup {last[i] : i \in DOMAIN last} : Redeliver(m)
  \/ Apply

FeedSpec == FeedInit /\ [][FeedNext]_allVars

-----------------------------------------------------------------------------
(* Properties *)

\* With nothing in flight, and no update lost and no message out of turn since the
\* last snapshot, the client has every level that the exchange discloses, with its
\* quantity: applying updates by price, in any legal sequence and with the last
\* message repeated, loses none, and a snapshot repairs whatever was left behind by
\* a lost update or by a copy that came late, which apply_update applies although
\* it sees that the number is old (LateUpdateIgnored). The only other levels the
\* client can show are those that were pushed out of the disclosed depth since the
\* last snapshot: the exchange sends nothing for them and apply_update does not
\* prune.
ClientMirrorsExchange ==
  synced /\ Idle /\ net = << >> =>
    LET view  == Disclosed(orders)
        shown == get_top_bids(book, Cardinality(Prices))
    IN  /\ DOMAIN view \subseteq DOMAIN shown
        /\ \A p \in DOMAIN view : shown[p] = view[p]
        /\ DOMAIN shown \ DOMAIN view \subseteq pushed

=============================================================================
