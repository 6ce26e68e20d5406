# TLA+ models of the TAIFEX C++ SDK

The SDK receives the market data of the Taiwan Futures Exchange by multicast
(optionally on two redundant feeds), asks a retransmission server over TCP for
what it missed, and keeps an order book per product. This directory holds TLA+
models of its parts, TLC configurations that check them on small instances, and
proofs that TLAPS checks for every instance. Paths below are relative to the
root of the repository.

## The system

| part | state | operations | hard behaviour |
|---|---|---|---|
| `OrderBook` (`order_book/`) | `bids_`, `asks_`, `derived_bid_`, `derived_ask_`, `last_prod_msg_seq_` | `reset`, `apply_snapshot` (I083), `apply_update` (I081), `get_top_*` | late, lost and repeated messages; levels that leave the disclosed depth without a message |
| `TaifexSdk` (`sdk/`) | `product_info_cache_`, `order_books_`, `channel_sequences_`, `initialized_` | `initialize`, `process_message`; `handle_i010/i081/i083/i001/i002`, which nothing calls | sequence resets; not thread safe, and called by several threads |
| `NetworkManager` (`networking/`) | `running_`, `config_`, the receivers, `deduplication_log_`, `retransmission_client_`, `retrans_primary_active_` | `configure_and_start`, `stop`, `process_incoming_packet`, the callbacks of the client | all receiver threads share the log without a lock; parts that fail to start; failover from a callback |
| `MulticastReceiver` (`networking/`) | `running_`, subscriptions with a socket, a thread and a flag each | `add_subscription`, `start`, `stop`, `receive_loop` | sockets that fail one by one; a thread per feed that `stop` has to end |
| `RetransmissionClient` (`networking/`) | three atomic flags, `socket_fd_`, `client_msg_seq_num_`, `tcp_receive_buffer_` | `start`, `stop`, `receive_loop`, `process_incoming_data`, `request_retransmission` | three kinds of threads without a lock; a byte stream cut anywhere; reconnects |
| protocol messages (`networking/retransmission_protocol.cpp`) | none | serialise, deserialise, checksum | widths and byte order of every field |
| body parsers (`messages/`), header, identification, codecs | none | parse | BCD digits that do not parse; ten digits in 32 bits |
| `LogFilePacketSimulator` (`utils/`), `examples/pcap_replay_example.cpp` | an open file and its position | `open`, `has_next_packet`, `get_next_taifex_packet`, `close` | truncated files, records that hold something else |
| logger, error codes | none | | |

A packet goes `MulticastReceiver::receive_loop` -> `NetworkManager::on_*_multicast_data`
-> `process_incoming_packet` (deduplication) -> `TaifexSdk::process_message`
(length, checksum, channel sequence) -> a handler -> `OrderBook`. A retransmitted
packet enters at `process_incoming_packet` on the client's own thread and skips the
deduplication. The call from `process_message` to the handlers, through
`dispatch_message_body`, is commented out at this commit (`sdk/taifex_sdk.cpp:163`), and
that function is declared (`sdk/taifex_sdk.h:144`) and defined nowhere: as built no
handler runs and no book is fed. The client calls back into the manager
when it receives data, a status or an error, and when it is disconnected, always on
the thread on which it notices.

What makes each part correct:

* the book shows no empty level, is replaced by a snapshot, has every level the
  exchange discloses when nothing was lost or came late, and knows the newest number it
  has seen;
* the manager drops a packet only if its number has been taken already, hands every
  other one on, and bounds its log; when it does not run, nothing of it does, and when it runs
  it hears what it was configured for;
* a receiver loses no socket and no thread, whichever call fails, and its `stop` ends;
* the SDK reports every gap, and starts afresh after a sequence reset;
* the client is logged in again after any failure, numbers its messages from the
  login request, cuts every message out of the stream whole and in order, and `stop`
  ends it;
* a replay processes the message of every readable record, once, and ends.

`PROJECT.json` lists the hazards at their lines and the properties that look at them.

## Modules

| module | models | state and actions |
|---|---|---|
| `OrderBook` | `order_book/order_book.cpp` | `book` is the object. `BeginSnapshot` and `BeginUpdate` are the parts of `apply_*` before the loop, `ApplyEntry` one iteration, `reset` the method. |
| `MarketDataFeed` | a book at the end of the feed; extends `OrderBook` | the exchange (external) changes its orders and sends updates and snapshots; the channel loses them, repeats the last one, and holds copies up (`HoldUp`) that come after newer ones (`Redeliver`). |
| `NetworkManager` | `process_incoming_packet` and `is_sequence_valid` as every thread runs them | `at[t]` is where thread `t` is: `Find`, `Insert`, `Prune` on the log, `SeqRead`, `SeqStore` on the SDK's map; `stop`, and `configure_and_start`, which replaces `config_` and with it the log's limit (`LogLimit`) and keeps the log; `DataRace` when two accesses conflict, `ReceiveGarbled` when a getter throws. |
| `MulticastReceiver` | `networking/multicast_receiver.cpp` | `rx[r]` is the object behind a handle, `op[r]` the place of its owner in `start` or `stop`, `rx[r].subs[i].thread` that of a receiver thread. |
| `NetworkLifecycle` | `configure_and_start` and `stop` of `NetworkManager`; extends `MulticastReceiver` | `mgr` is the place of the application; the receivers' threads run beside it; the client is there, running or stopped. |
| `RetransmissionClient` | `retransmission_client.cpp`, and the failover callback of `NetworkManager` | `loop`, `app`, `req[r]` are the places of the client thread, of the application in `stop`, and of the requesters; `conns` the server's side. |
| `WireFormat` | `endian_utils.h`, `pack_bcd.cpp`, `checksum.cpp`, `retransmission_protocol.cpp`, `common_header.cpp` | operators on sequences of bytes, no state. The fields of a class are written down twice, as `..._written` in the order of its `serialize` and as `..._read` in that of its `deserialize`. |
| `MessageStream` | what a source of messages promises (abstract) | `todo`, `done`, `open`; `Send`, `Deliver`, `Close`. `SafeSpec` is its safety part, `Delivers` its liveness. |
| `RetransmissionFraming` | `process_incoming_data` on bytes; extends `WireFormat` | the server (external) may `Send` at any time, with the history `expected` of what is to be handled; the buffer is the range from `erased` to `received` of the bytes sent; `Recv`, `TakeMessage`, `LeaveLoop`, `ThrowBodyLength`. |
| `LogReplay` | `LogFilePacketSimulator` and the loop of `pcap_replay_example`; extends `WireFormat` | `Capture` (external) writes the file before it is opened, with the history `expected`; `bytes` is the file, `pos` and `good` the stream, `place` where `main` is; one action per outcome of `get_next_taifex_packet`. |
| `TaifexSdk` | `sdk/taifex_sdk.cpp` as built, on one thread | `initialize`, `process_message`, and `RejectMessage` for its early returns; the handlers are not reached. |
| `MarketDataFeedProofs` | theorems about `OrderBook` and `MarketDataFeed` | the inductive invariants, their proofs, and the refinement of the one by the other |
| `NetworkLifecycleProofs` | theorems about `MulticastReceiver` and `NetworkLifecycle` | the inductive invariants and their proofs |
| `NetworkManagerProofs`, `RetransmissionClientProofs`, `RetransmissionFramingProofs`, `LogReplayProofs` | theorems about the module of that name | the inductive invariant of each, and its proof; for the last two the refinement of `MessageStream` |
| `SequenceRanges` | lemmas on prefixes and remainders of a sequence | shared by the last two |
| `MC...` | instances for TLC | |

`RetransmissionClient` and `RetransmissionFraming` look at the same buffer: the first
for what happens across connections and threads, where half messages are enough, the
second for what one connection's bytes become. `RetransmissionFraming` and `LogReplay`
are both shown to implement `MessageStream`, by `INSTANCE ... WITH` a mapping of `todo`
to the messages that are still to come out (the rest of `expected`), `done` to those that
did, and `open` to a stream that was not stopped and not misled (below).

Abstractions, and why they keep what the properties tell apart:

* *Book entries.* The parsers yield entries; the fields that `apply_*` looks at are
  kept, with "other" for every code it does not know, and the sign conversion is
  modelled as it is. The price level field is never read by the code.
* *Packets* are a channel, a number, an epoch and whether they are intact: the epoch
  distinguishes two uses of one number by the exchange and is not visible to the code;
  a damaged copy has a good header, so that its key is recorded, and is rejected by
  `process_message`. The key keeps the shift and the bitwise or, with `KeyBase` for 2^32.
  The constant `Wire` says which copies can reach which thread.
* *Data races* end the model (`fate`), since C++ defines nothing afterwards; the
  variables are then cleared. So the safety properties of `NetworkManager` speak of
  executions in which conflicting accesses interleave without overlapping, and
  every such interleaving is explored.
* *Byte streams.* In `RetransmissionClient` they consist of half messages, the
  coarsest cut in which `recv` can return part of a message and a buffer can begin in
  the middle of one. A head followed by another message's bytes has a bad checksum and
  is dropped. A buffer that starts within a message loses a nondeterministic part of
  its bytes. In `RetransmissionFraming` they are bytes. An item of the server is a
  message with what is wrong with its bytes: nothing, the checksum, a length that is none
  (which for market data ends the program), or a length that is not the item's own, too
  long or too short. The last kind `Misleads`: the code goes by the length
  (`retransmission_client.cpp:349` and `379`), so that the client is `adrift` from there on and
  the properties say what it did before. The branch at
  `retransmission_client.cpp:362-366` cannot be reached: `parse` only fails on a buffer
  that is shorter than the header, which was checked at line 339.
* *Capture files* are bytes as well; the file is cut anywhere in its last record or in
  the global header. The seek at `log_file_packet_simulator.cpp:50` does not fail on a
  short file, contrary to the comment at line 51.
* *Sockets.* A connection has a number of its own; descriptors that the operating
  system gives out again, and a `connect` that succeeds on a descriptor `stop` has
  just closed, are left out. On the client thread the close of a socket and the
  clearing of the flags are one step. A receiver's socket is closed, or open with or
  without its timeout; a datagram without bytes is one of `RecvFails`' rounds.
* *Failover* is modelled up to the point where the program ends. The callback of a
  requester whose send fails (lines 161 and 170) is left out: the assumption
  `BackupAssumption` says that there is no requester where a backup is configured, and
  nobody calls `trigger_retransmission_request`.
* `ActiveSubscription`'s constructor is declared with "Defined in .cpp"
  (`multicast_receiver.h:100`) and defined nowhere; the model takes the values that
  the comments at `multicast_receiver.cpp:61-62` give it.

## Runs

| run | result | what it shows |
|---|---|---|
| `order_book` | pass | `NoEmptyLevel`, `SnapshotLeavesNoResidue`, `NoDerivedInAuction`, `SeqIsHighWater` for all sequences of resets, snapshots and updates, between entries too |
| `feed` | pass | `ClientMirrorsExchange`: the client has every disclosed level whenever no update was lost and no copy came late since the last snapshot, with the last message possibly repeated, and shows beyond them only levels pushed out of depth since; a snapshot repairs what a lost update or a late copy did |
| `network_manager` | pass | `LogIsBounded`, `DiscardedIsCarried`, `NoHiddenGap`, and `AcceptedReachesSdk` (liveness), with damaged copies, numbers used again after the exchange restarts, two numbers with one key, and configurations that change between sessions |
| `lifecycle` | pass | `NothingLeftBehind`, `ThreadsHaveSockets`, `StartedHears`, `NoSessionNothingRuns`, `SessionHears`, `FeedsHeard`, `ConfiguredFeedsOnly`, `JoinedBeforeGone` (of steps), and `StopEnds` (liveness) |
| `retransmission_client` | pass | `WelcomeIsNoticed`, `NumberedFromLogin`, and `StopReturns`, `LoginAgain` (liveness) |
| `framing` | pass | `RoundTrip`, `NothingWholeWaits`, `ThrownAfterHandling`, and the refinement of `MessageStream` with its liveness |
| `replay` | pass | `AlignedOnRecords`, `ReplayEnds` (liveness), and the refinement of `MessageStream` |
| `nm_unique` | violation | both feeds' copies of a packet are forwarded, against `networking/network_manager.h:110` |
| `client_stop` | violation | `stop` can leave a connection open, against `networking/retransmission_client.h:92` |
| `client_failover` | violation | the failover ends the program, against `networking/network_manager.h:85` |
| `sdk_built` | violation | as built a reset does not restart its channel, against `sdk/taifex_sdk.h:85` and `tests/test_taifex_sdk.cpp:679` |
| `feed_late` | violation | `apply_update` applies the entries of an update that it has found to be old, against `tests/test_order_book.cpp:373-375` and its own comment at `order_book/order_book.cpp:174` |

What else the models showed, stated in the properties as what the code does:

* A level pushed out of the disclosed depth stays in the map, against
  `order_book/order_book.h:139-140`, and can come back into the top levels after the
  exchange has cancelled it without a message: the set `pushed` of `ClientMirrorsExchange`.
* A damaged copy of a packet makes the manager drop the good copy of the other feed;
  what remains true is that the gap is seen (`DiscardedIsCarried`, `NoHiddenGap`).
* Nothing clears `deduplication_log_`: after the exchange has restarted its numbers, a
  packet can be dropped for the one that had its number before. A number of 2^32 or more
  runs into the bits of the channel, and its key can be another number's. Both occur in
  run `network_manager`; `DiscardedIsCarried` and `AcceptedReachesSdk` therefore speak of
  numbers (`SameNumber`) and not of packets.
* After a session with two feeds, one with a single feed and `dual_feed_enabled` left on
  (only warned of, `network_manager.cpp:75-76`) has a smaller limit and the old log. Every insertion
  is followed by one pruning, so the log keeps the size that it had: the history `allowed`
  in `LogIsBounded`.
* The login request is number 0 and the next message number 1 (`NumberedFromLogin`):
  `client_msg_seq_num_` is reset before the login request
  (`retransmission_client.cpp:114`), while `retransmission_protocol.h:47-48` says that it
  "Resets to 0 after each successful login".
* When `SO_RCVTIMEO` cannot be set, which `retransmission_client.cpp:95-97` only logs, a
  `recv` may block for good: closing the descriptor does not wake it, and `stop` waits in
  `join`. `StopReturns` names the case (`Deaf`).
* A length field that is not its message's own costs the client the messages behind it
  for the rest of the connection.
* After a connection that was cut within a message, the bytes left in
  `tcp_receive_buffer_` can swallow the next connection's start message: the history
  `torn` in `WelcomeIsNoticed` and `LoginAgain`.
* A receiver that could not be started keeps its subscription through `stop`, and a
  later `configure_and_start` that has no feed for it starts it all the same: the
  history `leftover` in `ConfiguredFeedsOnly`.

Bounds:

* `OrderBook`: prices 0 and -1 (zero is special to derived quotes, -1 needs the
  sign), sizes 0 and 1 (zero is special, other sizes are treated alike), numbers up
  to 2, two entries a message. An entry acts on one level, so two levels and two
  entries give every interference between levels; the theorems lift the bounds.
* `MarketDataFeed`: three prices, one of them negative, and `Depth` 2, so that a level can
  be pushed out and come back; quantities up to 2, four updates, one message in flight
  beside the one that is applied and one copy held up at a time (5.0 million states). The theorems lift the bounds.
* `NetworkManager`: two feeds and one client thread; six packets on two channels, among
  them a damaged copy, a number used again after the exchange has restarted, and a number
  with another's key; `Window` 1, so that pruning happens at once, `KeyBase` 4, and
  configurations with two feeds, with one, and with one and `dual_feed_enabled` (495,592
  states). `Wire` gives each thread some of the packets to keep the run small. The
  theorems on `LogIsBounded`, `DiscardedIsCarried` and `NoHiddenGap` hold for all values of
  the constants; `AcceptedReachesSdk` is liveness and has no theorem.
* `NetworkLifecycle`: two groups, no, one or two feeds, with and without dual feed and
  server, in any order and any number of sessions. The manager itself gives each
  receiver one subscription; for receivers with several, and owners that call the
  methods in other orders (`RxSpec`), there are the theorems.
* `RetransmissionClient`: two connections, one message of the server besides the
  start message, one request. Two connections are what it takes for anything left by
  one to disturb the next. The last connection that the bound allows is not closed
  by the server, so that liveness is not refuted by the bound; and a `start` needs a
  connection to be left.
* `RetransmissionFraming`: two messages a connection, each of every class, good, with a
  bad checksum, with a length that cannot be, or with one that is not its own, and with
  bytes 27 (the ESC) in their fields and data. The loop keeps nothing but the buffer, so
  that two neighbours show what one message can do to another. All cuts of the bytes are
  explored, and every moment at which the server may send the second message (81,391
  states).
* `LogReplay`: two records out of nine kinds: one message, several, none, padding, an ESC
  in the frame's headers, the other byte order; all places to cut.
* `TaifexSdk`: two channels and numbers up to 4; the violation needs one channel and takes
  four states.

`CHECK_DEADLOCK FALSE` is set where the system may stop: all messages delivered,
all connections used up, the file at its end, or the program ended. `lifecycle` is
checked for deadlock: an application can always call one of the two methods.

Fairness:

* `NetworkManager`: weak fairness of the threads' steps inside
  `process_incoming_packet`, none of which blocks. It is stated for the threads
  together, and that is enough: a thread's way ends after five steps, and arrivals,
  which are bounded, stops and races are not fair.
* `NetworkLifecycle`: the application's calls go on, and a receiver thread does while
  its `recvfrom` has a timeout. Without one (`SO_RCVTIMEO` failed, which is only
  logged) it may wait for good; `StopEnds` names that case (`Deaf`). Packets and errors
  need not come.
* `RetransmissionClient`: weak fairness of the steps of `stop` and of the client thread,
  except where it waits in a `recv` whose timeout could not be set (`timed` is FALSE): that one
  ends when the server sends or closes, and it is the exception `Deaf` of `StopReturns`.
  `send`, which has no timeout, is taken to return: the messages are a few dozen bytes and
  the server reads them. `LoginAgain` also needs a
  server that accepts a client that tries again and again (strong fairness of
  `ConnectOk`), answers a login and closes the connection after an error
  notification: the comment at `networking/network_manager.cpp:265` relies on the
  last, and the code has no timeout that could replace the second. The histories
  `torn` and `meddled` exclude the two situations in which the login is really lost
  (a buffer left by a cut connection; a requester that closes the socket under the
  client thread).
* `RetransmissionFraming`: the client thread runs and TCP delivers what was sent. The
  fairness of `TakeMessage` is stated for its part `EraseFront`, which is enabled
  exactly when it is and which TLC evaluates without decoding the message.
* `LogReplay`: `main` runs on; likewise `ProcessReturns` stands for `process_message`.

Every property of a passing run has a mutant in `PROJECT.json`: a faulty variant of
a definition, kept beside it, under which TLC finds the property violated.

## Theorems

Every assumption on the constants is an `ASSUME` of the module that declares them, and TLC
evaluates it on the instance of every run.

`MarketDataFeedProofs`, the book. `Correct` proves `Spec => []Inv`, for all sets of quotes and
sizes and all bounds, under the assumptions that prices and sizes are natural numbers
with a sign. `Inv` is the conjunction of `TypeOK` and the four safety invariants;
it is inductive as it stands, because the properties are stated between the entries of
a message and not only at its end. The argument: `SetLevelMap` and `EraseLevelMap` say
what the two ways of changing a price map do, `LevelOperations` that no entry code can
leave an empty level or add a price other than its own, `SnapshotEntryEffect` and
`UpdateEntryEffect` what one iteration changes; then one lemma per action.
`TypeCorrect`, `LevelsNotEmpty`, `SnapshotReplacesBook`, `AuctionHasNoDerived` and
`SequenceHighWater` are its parts. Of the assumptions its proof cites those of `OrderBook`
alone.

`MarketDataFeedProofs`, the feed. For every finite set of quotes, every depth and every
number of messages in flight and of copies held up; `FeedAssumption` adds that a message has room for the levels
of a snapshot. `ClientMirrorsExchange` speaks of the moment when nothing is in flight, and
says nothing of the messages on their way. `FeedInv` therefore names a view of the exchange
before and after every message in flight (`Behind`): each message leads from its view to the
next (`Chain`, `Leads`), the last view is what the exchange discloses now, and the book has
the first as soon as the entries left of the message being applied are applied (`Catches`).
The message delivered last tells that first view (`LastTells`), so that to deliver it again
changes nothing; a copy that comes out of turn ends `synced` until the next snapshot, whose
view does not depend on what the book was. That one change of the orders moves at most one other level in or out of
view is a fact about ranks in a finite set of prices (`RankFalls` and the lemmas after it);
it is why two entries are enough for an update. `FeedMirrors` is the theorem.
`FeedImplementsBook` proves that the book in the feed does what `OrderBook` allows
(`FeedSpec => Spec`), with which every theorem about the book holds in the feed
(`FeedBookCorrect`).

`NetworkManagerProofs`. For all finite sets of threads, all packets, damaged or not,
and all limits:

* `LogBounded`: the log has at most `allowed` keys plus one for every thread between
  its insertion and its pruning, where `allowed` is the limit of the current configuration
  or the number of keys that the session found in the log. The allowance is what makes it
  inductive: an insertion adds a key and a pruning thread, a pruning takes both back, or the
  log was within the limit already. It needs that keys are natural numbers, so that a
  smallest one exists (`SmallestInSet`), that the log is finite, and that no thread is on
  its way while the configuration is replaced.
* `GapNeverHidden`: strengthened by `LastWasForwarded` (the number stored for a
  channel was forwarded on it, in an intact packet) and `StoredWasForwarded` (so was the
  packet of a thread about to store), which hold however lookups and stores of several
  threads interleave.
* `DuplicatesOnly`: a packet is discarded only if one with its channel and number, or one
  whose key a number of 2^32 or more makes the same, is carried by a thread past the lookup
  or was forwarded. The strengthening `LogIsCarried` says the same of every key in the log;
  `KeysDistinct` is the arithmetic. It has no premise on the numbers.
* `CopiesOnly`: under `NumbersNotReused` (numbers below 2^32, each used once on its
  channel) that packet is a copy of the discarded one. Without the premise this is false,
  as said above.
* `TypeCorrect`.

`NetworkLifecycleProofs`, the receivers. For any groups and any number of subscriptions
(the proofs cite `MaxSubsAssumption` alone, and use nothing of which receivers there are),
from `RxSpec`. `RxCorrect` proves the inductive
invariant `RxInv`. None of the three safety invariants is inductive, since they look at
receivers whose owner is in no method; `QuietByPlace` says which subscriptions have no
thread and no socket at every place of the owner's loop (in `start`, those it has not
come to, and all while none has succeeded; in `stop`, those it has passed), `Paired` that
a subscription has both or neither, and `Heard` that a thread is in its loop from the
first success of `start` on. One lemma (`SubscriptionStep`) does the bookkeeping for all
steps that change one subscription. `RxNothingLeftBehind`, `RxThreadsHaveSockets`,
`RxStartedHears` and `RxTypeCorrect` are parts of it. `RxJoinedBeforeGone` is proved along
with it step by step: every step keeps the threads and sockets of every subscription
(`Kept`) except when the thread has ended.

`NetworkLifecycleProofs`, the manager. For all groups and all sets of configurations; the
two receivers are those that the manager has, with room for the subscription that
`configure_and_start` makes (`ReceiversAssumption`). `LifeInv` is `RxInv` with `ManagerInv`,
which gives, for every place of the application in the two methods, the value of `running_`, which receiver the
application is inside of, which receivers may run, whether the client does, and what
`start` returned to whom. The lemmas about receivers are those of
the first part; a step inside a receiver is seen by the manager only through
`OwnerEffect` and `LeavesRest`. `GroupsKnown`, stated for all subscriptions and not only
for those with a thread, is what makes `ConfiguredFeedsOnly` inductive. Theorems:
`LifeTypeCorrect`, `LifeNoSessionNothingRuns`, `LifeSessionHears`, `LifeFeedsHeard`,
`LifeConfiguredFeedsOnly`, `LifeReceivers` (`NothingLeftBehind` and `ThreadsHaveSockets`)
and `LifeJoinedBeforeGone`: the objects that `configure_and_start` replaces have no
thread, which rests on `NoSessionNothingRuns`.

`RetransmissionClientProofs`. For all sets of requesters and any number of connections,
messages and requests, from `Spec` (no fairness). `Inv` has eight parts:

* `SocketKnown`: `socket_fd` is the last connection or none. `ByPlace` and `Stopped`:
  what the flags and the connection can be by the place of the client thread.
* `NumbersKept`: as long as nobody asked, every connection got the login request and
  then heartbeats in order, and while the client is connected `client_msg_seq_num_` is
  the number of messages that its connection got. This holds although `stop` can clear
  `socket_fd` at any time, and gives `ClientNumberedFromLogin`.
* `Boundaries`: unless `torn`, the buffer followed by what is in flight is a sequence
  of messages of which only the last may be cut, and none is while the connection is up.
  It speaks of the buffer and the bytes in flight as one sequence, because a `recv`
  moves bytes from one to the other and leaves the whole unchanged (`ReadMoves`).
* `WelcomePending`: unless `torn` or `meddled`, a client that was welcomed either is
  logged in or will be after the messages of that sequence (`LoggedInAfter`, the flag
  that handling them would leave).
* `CaughtUp`: with nothing in flight the loop is at `recv` only with less than a message
  in the buffer. With `Boundaries` the buffer is then empty, and with `WelcomePending`
  that gives `ClientWelcomeIsNoticed`.

The lemmas on sequences of halves say what taking, dropping and appending do to
`Whole` and `LoggedInAfter`; then there is one lemma per action (`...Step`). TLC checked
`Inv` on two connections before it was proved. `ClientTypeCorrect` is a part of it.

`RetransmissionFramingProofs`. For every set of items and any number of them on a
connection, however `recv` cuts the bytes. The assumptions say what a byte string that
the server sends is, and no more: `FramedAssumption` that the header of an item announces
the item's own length, unless it makes `getBodyLength` throw (`Fatal`) or `Misleads`;
`LengthsAssumption` that any two bytes where a length is looked for are read as a natural
number; `HandledAssumption` that an undamaged item of a known type is handled as its message
and every other comes to nothing. They exclude the protocol message whose size starts with
the byte 27 (see the hazards). That the encodings have these properties is what a fold over
bytes computes, so TLC evaluates them. The proof is about the rest: that no way of cutting
the stream, no neighbour and no time of `stop` makes the client see an item other than whole.
Of the invariant `FramingInv`, `Layout` says that the stream is the items' bytes one after the
other, each with its place and with the number of messages due before it. A client on its
course satisfies `AtItem(k)`: what is erased are exactly the items before the k-th, none of
which is fatal or misleads, their messages and no others were handled, and a client outside
the loop has less than that item in its buffer. `FrontItem` is the step from bytes to items:
with enough bytes to go on, the length that the code computes is the item's own. A client
that is adrift satisfies `Astray`: the misleading item is behind it, and what was expected
before that item is the beginning of what was handled; from there on only the bounds
of the buffer are known, and they hold because the code compares whatever length it reads
with what it holds. Theorems: `FramingTypeCorrect`, `FramingLeavesNoneWaiting`
(`NothingWholeWaits`), `FramingThrowsLast` (`ThrownAfterHandling`, from the part `Thrown` of
the invariant) and `FramingImplementsStream`: `Spec => MS!SafeSpec`, step by step.

`LogReplayProofs`. For every set of captures, any number of records and every place at which
the file may end. `RecordsAssumption`: a record's header has the length of its data, or one
that is refused; a record of the other byte order whose reversed length is small and wrong
is excluded. `TakenAssumption`: what follows the first ESC of a record is taken as the
record's message if it is all the record holds, and comes to nothing otherwise; excluded is
an ESC among the frame's headers behind which something by chance is a message, checksum
included. `ReplayInv` is built like `FramingInv`: `Layout` of the records in the file, which
may end within the last, and `AtRecord(k)`: no record before the k-th is fatal, their
messages and no others are processed, and a stream that can be read is at the start of the
k-th. While a packet is in `process_message` the stream is already behind the record
(`Passed`), and after a failed read or an oversized record it is nowhere in particular, which
is why the place is tied to `good` and `is_file_open`. Theorems: `ReplayTypeCorrect`,
`ReplayAligned` (`AlignedOnRecords`) and `ReplayImplementsStream` (`Spec => MS!SafeSpec`).
TLC checked both invariants before they were proved.

Only model-checked: all liveness properties (the prover handles neither fairness nor
`ENABLED`), among them `Delivers`, the liveness part of the two refinements of
`MessageStream`; and `RoundTrip` of `RetransmissionFraming`, since what serialising and
deserialising compute from a sequence of fields of any length is an induction over data. For
the same reason the assumptions on encoded bytes above are evaluated, not proved.

## Not modelled

* The logger and the exception classes: no other part reads their state.
* `main_logger_test.cpp`, and the 64-bit conversions of `endian_utils.h`, which nothing uses.
* The handlers of `TaifexSdk`, `get_or_create_order_book` and the lookup of a product's
  decimals: nothing reaches them as built. `dispatch_message_body`, `get_order_book` and
  `get_product_info` are declared in `sdk/taifex_sdk.h` and defined nowhere.
* The body parsers (`messages/`), the table of message codes (`message_identifier.cpp`) and
  `string_utils.cpp`: data without control. `OrderBook` starts from the entries they yield.
* `trigger_retransmission_request` is called by nobody; what it would do is
  `request_retransmission`, which is modelled.
* A product's sequence number at its 32-bit width, and protocol messages whose size
  starts with the byte 27: both need numbers out of reach of the bounds, see the hazards.

## Plan

Done: the book and its proofs; the feed, with late copies, and its proofs; the packet path
with damaged copies, reused numbers and changing configurations and its proofs; the receivers
and the manager's lifecycle with their proofs; the client and its proofs; framing, with lengths
that mislead, and replay with their abstract specification and their proofs; the SDK as built.
Every safety property that a passing run checks is a theorem, except `RoundTrip`.
What the hazards without a property would need, in the order of their worth: a requester
whose send fails beside the failover; numbers at their 32-bit width.
