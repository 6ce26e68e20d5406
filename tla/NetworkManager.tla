--------------------------- MODULE NetworkManager ---------------------------
(***************************************************************************)
(* The path of a packet through NetworkManager::process_incoming_packet    *)
(* into TaifexSdk::process_message (networking/network_manager.cpp,        *)
(* sdk/taifex_sdk.cpp).                                                    *)
(*                                                                         *)
(* Every multicast receiver and the retransmission client run a thread of  *)
(* their own, and all of them call process_incoming_packet without a lock. *)
(* A thread's step is one operation on a shared container: the lookup, the *)
(* insertion and the pruning of deduplication_log_, and the lookup and the *)
(* store of channel_sequences_. Operations of two threads that touch the   *)
(* same container at the same time are a data race, after which nothing    *)
(* can be said of the program (fate "raced").                              *)
(***************************************************************************)
EXTENDS Integers, FiniteSets

CONSTANTS
  Feeds,      \* the threads of the multicast receivers
  Recovery,   \* the threads of the retransmission client
  Packets,    \* the copies of packets on the wire, with well-formed headers
  Wire,       \* the copies that can reach each thread
  KeyBase,    \* 2^32 in the code: what the shift of the channel id multiplies by
  Window,     \* DEDUPLICATION_WINDOW_SIZE
  Configs     \* the configurations that configure_and_start is called with

ASSUME ThreadsAssumption ==
  Feeds \cap Recovery = {} /\ IsFiniteSet(Feeds) /\ IsFiniteSet(Recovery)
ASSUME NumbersAssumption ==
  /\ Packets \subseteq [ch : Nat, seq : Nat, epoch : Nat, ok : BOOLEAN]
  /\ KeyBase \in Nat \ {0}
ASSUME ConfigsAssumption ==
  Window \in Nat /\ Configs \subseteq [feeds : Nat, dual : BOOLEAN]

Threads == Feeds \cup Recovery

ASSUME WireAssumption == Wire \in [Threads -> SUBSET Packets]

\* A packet has a CHANNEL-ID and a CHANNEL-SEQ. Its epoch says which use of the
\* number it is, for the exchange restarts at 1; the header has no such field. A
\* copy that was damaged behind its header is not ok: process_message rejects it
\* by its length or its checksum.
Channels == {p.ch : p \in Packets}
Seqs == {p.seq : p \in Packets}

Copies(p, q) == p.ch = q.ch /\ p.seq = q.seq /\ p.epoch = q.epoch

\* NetworkManagerConfig, as far as the path of a packet reads it: the number of
\* multicast_feeds and dual_feed_enabled.
NoConfig == [feeds |-> 0, dual |-> FALSE]

Idle == [step |-> "idle"]

VARIABLES
  running,            \* running_
  config,             \* config_
  deduplication_log,  \* the keys of deduplication_log_
  channel_sequences,  \* channel_sequences_ of the SDK, a map by channel
  at,                 \* where each thread is, and with which packet
  fate,               \* "live", "raced", or "terminated" by an exception
  epoch,              \* the exchange's current epoch
  allowed,            \* history: the limit of the log, or the keys that an earlier
                      \* session left in it if they are more
  delivered,          \* history: the packets each thread has received
  forwarded,          \* history: <<thread, packet>> given to process_message
  discarded,          \* history: packets dropped as duplicates
  contiguous          \* history: <<ch, seq>> judged to follow the last one

session == <<running, config, allowed>>
vars == <<session, deduplication_log, channel_sequences, at, fate, epoch,
          delivered, forwarded, discarded, contiguous>>

-----------------------------------------------------------------------------
(* Keys *)

\* The bitwise or of a channel id and what a sequence number leaves above bit
\* 32, which has two bits (ten decimal digits).
OrTwoBits(ch, high) ==
  ch + (IF high % 2 = 1 /\ ch % 2 = 0 THEN 1 ELSE 0)
     + (IF (high \div 2) % 2 = 1 /\ (ch \div 2) % 2 = 0 THEN 2 ELSE 0)

\* combined_seq_key = (channel_id << 32) | channel_seq
Key(p) ==
  IF p.seq < KeyBase
  THEN p.ch * KeyBase + p.seq
  ELSE OrTwoBits(p.ch, p.seq \div KeyBase) * KeyBase + (p.seq % KeyBase)

Smallest(S) == CHOOSE k \in S : \A l \in S : k <= l

\* The size above which the log is pruned.
LogLimit(c) == Window * c.feeds

-----------------------------------------------------------------------------
(* The threads *)

Goto(t, where) == at' = [at EXCEPT ![t] = where]

\* A thread that carries packet p at the given step.
Carrying(t, step, p) == at[t] = [step |-> step, pkt |-> p]

\* What the program can still do after a data race or an uncaught exception is
\* not defined: its variables go back to their initial values and stand for
\* nothing.
GiveUp(why) ==
  /\ fate' = why
  /\ running' = FALSE
  /\ config' = NoConfig
  /\ allowed' = 0
  /\ deduplication_log' = {}
  /\ channel_sequences' = [c \in {} |-> 0]
  /\ at' = [t \in Threads |-> Idle]
  /\ epoch' = 0
  /\ delivered' = [t \in Threads |-> {}]
  /\ forwarded' = {}
  /\ discarded' = {}
  /\ contiguous' = {}

\* A packet arrives and process_incoming_packet is entered while the manager is
\* running; otherwise, and when the packet is too short for a header, it returns,
\* and the packet might as well have been lost on the way. A thread receives one
\* copy of a packet at most, in any order. Only what a feed brings, and only with
\* dual_feed_enabled, goes through the log; both feeds may be there without it,
\* for the receiver of an earlier configuration is started again.
Receive(t, p) ==
  /\ fate = "live" /\ running /\ at[t] = Idle
  /\ p.epoch <= epoch /\ \A q \in delivered[t] : ~ Copies(p, q)
  /\ p \in Wire[t]
  /\ delivered' = [delivered EXCEPT ![t] = @ \cup {p}]
  /\ Goto(t, [step |-> IF t \in Feeds /\ config.dual THEN "find" ELSE "seq_read", pkt |-> p])
  /\ UNCHANGED <<session, deduplication_log, channel_sequences, fate, epoch,
                 forwarded, discarded, contiguous>>

\* A header whose digits are not BCD: the getters throw, here or in
\* process_message, and no frame of the receiver thread catches it.
ReceiveGarbled(t) ==
  /\ fate = "live" /\ running /\ at[t] = Idle
  /\ GiveUp("terminated")

\* Faulty variant of Find: what is not above some key counts as seen.
FindNotAbove(t) ==
  /\ fate = "live"
  /\ \E p \in Packets :
       /\ Carrying(t, "find", p)
       /\ IF \E k \in deduplication_log : Key(p) <= k
          THEN /\ discarded' = discarded \cup {p}
               /\ Goto(t, Idle)
          ELSE /\ Goto(t, [step |-> "insert", pkt |-> p])
               /\ UNCHANGED discarded
  /\ UNCHANGED <<session, deduplication_log, channel_sequences, fate, epoch,
                 delivered, forwarded, contiguous>>

\* deduplication_log_.find
Find(t) ==
  /\ fate = "live"
  /\ \E p \in Packets :
       /\ Carrying(t, "find", p)
       /\ IF Key(p) \in deduplication_log
          THEN /\ discarded' = discarded \cup {p}
               /\ Goto(t, Idle)
          ELSE /\ Goto(t, [step |-> "insert", pkt |-> p])
               /\ UNCHANGED discarded
  /\ UNCHANGED <<session, deduplication_log, channel_sequences, fate, epoch,
                 delivered, forwarded, contiguous>>

\* deduplication_log_[combined_seq_key] = now
Insert(t) ==
  /\ fate = "live"
  /\ \E p \in Packets :
       /\ Carrying(t, "insert", p)
       /\ deduplication_log' = deduplication_log \cup {Key(p)}
       /\ Goto(t, [step |-> "prune", pkt |-> p])
  /\ UNCHANGED <<session, channel_sequences, fate, epoch, delivered, forwarded,
                 discarded, contiguous>>

\* Faulty variant of Prune: one key too many is tolerated.
PruneLate(t) ==
  /\ fate = "live"
  /\ \E p \in Packets :
       /\ Carrying(t, "prune", p)
       /\ deduplication_log' =
            IF Cardinality(deduplication_log) > LogLimit(config) + 1
            THEN deduplication_log \ {Smallest(deduplication_log)}
            ELSE deduplication_log
       /\ Goto(t, [step |-> "seq_read", pkt |-> p])
  /\ UNCHANGED <<session, channel_sequences, fate, epoch, delivered, forwarded,
                 discarded, contiguous>>

\* Above the limit the smallest key goes, whichever it is.
Prune(t) ==
  /\ fate = "live"
  /\ \E p \in Packets :
       /\ Carrying(t, "prune", p)
       /\ deduplication_log' =
            IF Cardinality(deduplication_log) > LogLimit(config)
            THEN deduplication_log \ {Smallest(deduplication_log)}
            ELSE deduplication_log
       /\ Goto(t, [step |-> "seq_read", pkt |-> p])
  /\ UNCHANGED <<session, channel_sequences, fate, epoch, delivered, forwarded,
                 discarded, contiguous>>

\* Faulty variant of SeqRead: the number is looked at before the checksum.
SeqReadUnchecked(t) ==
  /\ fate = "live"
  /\ \E p \in Packets :
       /\ Carrying(t, "seq_read", p)
       /\ forwarded' = forwarded \cup {<<t, p>>}
       /\ LET known == p.ch \in DOMAIN channel_sequences
              last  == channel_sequences[p.ch]
          IN  /\ Goto(t, IF known /\ p.seq <= last THEN Idle
                         ELSE [step |-> "seq_store", pkt |-> p])
              /\ contiguous' = IF known /\ p.seq = last + 1
                               THEN contiguous \cup {<<p.ch, p.seq>>}
                               ELSE contiguous
  /\ UNCHANGED <<session, deduplication_log, channel_sequences, fate, epoch,
                 delivered, discarded>>

\* forward_to_sdk, and process_message up to is_sequence_valid's decision. A
\* damaged copy ends there. An old number is rejected without a store; the verdict
\* itself is ignored by process_message.
SeqRead(t) ==
  /\ fate = "live"
  /\ \E p \in Packets :
       /\ Carrying(t, "seq_read", p)
       /\ forwarded' = forwarded \cup {<<t, p>>}
       /\ LET known == p.ch \in DOMAIN channel_sequences
              last  == channel_sequences[p.ch]
          IN  /\ Goto(t, IF ~ p.ok \/ (known /\ p.seq <= last) THEN Idle
                         ELSE [step |-> "seq_store", pkt |-> p])
              /\ contiguous' = IF p.ok /\ known /\ p.seq = last + 1
                               THEN contiguous \cup {<<p.ch, p.seq>>}
                               ELSE contiguous
  /\ UNCHANGED <<session, deduplication_log, channel_sequences, fate, epoch,
                 delivered, discarded>>

\* Faulty variant of SeqStore: the number expected next is stored.
SeqStoreExpected(t) ==
  /\ fate = "live"
  /\ \E p \in Packets :
       /\ Carrying(t, "seq_store", p)
       /\ channel_sequences' =
            [c \in DOMAIN channel_sequences \cup {p.ch} |->
               IF c = p.ch THEN p.seq + 1 ELSE channel_sequences[c]]
       /\ Goto(t, Idle)
  /\ UNCHANGED <<session, deduplication_log, fate, epoch, delivered, forwarded,
                 discarded, contiguous>>

\* channel_sequences_[channel_id] = current_channel_seq: the first number of a
\* channel, the expected one and the one after a gap are all stored.
SeqStore(t) ==
  /\ fate = "live"
  /\ \E p \in Packets :
       /\ Carrying(t, "seq_store", p)
       /\ channel_sequences' =
            [c \in DOMAIN channel_sequences \cup {p.ch} |->
               IF c = p.ch THEN p.seq ELSE channel_sequences[c]]
       /\ Goto(t, Idle)
  /\ UNCHANGED <<session, deduplication_log, fate, epoch, delivered, forwarded,
                 discarded, contiguous>>

-----------------------------------------------------------------------------
(* Data races *)

LogSteps == {"find", "insert", "prune"}
SeqSteps == {"seq_read", "seq_store"}

\* The next operations of two threads touch the same container, one of them
\* writing: any log operation against an insertion or a pruning, and a store
\* against an access to the same channel or, when it adds a channel, to any.
Conflict(t, u) ==
  \/ /\ at[t].step \in {"insert", "prune"}
     /\ at[u].step \in LogSteps
  \/ /\ at[t].step = "seq_store"
     /\ at[u].step \in SeqSteps
     /\ \/ at[t].pkt.ch = at[u].pkt.ch
        \/ at[t].pkt.ch \notin DOMAIN channel_sequences

DataRace(t, u) ==
  /\ fate = "live" /\ t # u /\ Conflict(t, u)
  /\ GiveUp("raced")

-----------------------------------------------------------------------------
(* The manager and the exchange *)

\* stop(): clears running_ and joins the threads; a packet that is past the
\* check at the top of process_incoming_packet is still handled. A start whose
\* primary receiver fails ends in the same way: running_ is cleared again and what
\* was started is stopped.
stop ==
  /\ fate = "live" /\ running
  /\ running' = FALSE
  /\ UNCHANGED <<config, allowed, deduplication_log, channel_sequences, at, fate, epoch,
                 delivered, forwarded, discarded, contiguous>>

\* configure_and_start, once stop() has joined the threads. config_ is replaced;
\* the log of the earlier session is kept.
configure_and_start(c) ==
  /\ fate = "live" /\ ~ running
  /\ \A t \in Threads : at[t] = Idle
  /\ running' = TRUE
  /\ config' = c
  /\ LET left == Cardinality(deduplication_log)
     IN  allowed' = IF left > LogLimit(c) THEN left ELSE LogLimit(c)
  /\ UNCHANGED <<deduplication_log, channel_sequences, at, fate, epoch,
                 delivered, forwarded, discarded, contiguous>>

\* The exchange restarts its numbers (a new session, or I002).
RestartNumbers ==
  /\ fate = "live" /\ \E p \in Packets : p.epoch > epoch
  /\ epoch' = epoch + 1
  /\ UNCHANGED <<session, deduplication_log, channel_sequences, at, fate,
                 delivered, forwarded, discarded, contiguous>>

Init ==
  /\ running = FALSE
  /\ config = NoConfig
  /\ allowed = 0
  /\ deduplication_log = {}
  /\ channel_sequences = [c \in {} |-> 0]
  /\ at = [t \in Threads |-> Idle]
  /\ fate = "live"
  /\ epoch = 0
  /\ delivered = [t \in Threads |-> {}]
  /\ forwarded = {}
  /\ discarded = {}
  /\ contiguous = {}

Step(t) == Find(t) \/ Insert(t) \/ Prune(t) \/ SeqRead(t) \/ SeqStore(t)

Next ==
  \/ \E t \in Threads : Step(t) \/ ReceiveGarbled(t)
  \/ \E t \in Threads, p \in Packets : Receive(t, p)
  \/ \E t, u \in Threads : DataRace(t, u)
  \/ stop
  \/ \E c \in Configs : configure_and_start(c)
  \/ RestartNumbers

Spec == Init /\ [][Next]_vars

\* As long as there are threads inside process_incoming_packet, one of them is
\* scheduled again and again: none of their steps blocks. (Each has finitely many
\* packets to bring to an end, so nothing has to be said of which one.)
FairSpec == Spec /\ WF_vars(\E t \in Threads : Step(t))

-----------------------------------------------------------------------------
(* Properties *)

Places == {Idle} \cup [step : LogSteps \cup SeqSteps, pkt : Packets]

\* Every variable has its type, and only feeds go through the log.
TypeOK ==
  /\ running \in BOOLEAN
  /\ config \in Configs \cup {NoConfig}
  /\ allowed \in Nat
  /\ deduplication_log \subseteq {Key(p) : p \in Packets}
  /\ DOMAIN channel_sequences \subseteq Channels
  /\ channel_sequences \in [DOMAIN channel_sequences -> Seqs]
  /\ at \in [Threads -> Places]
  /\ \A t \in Recovery : at[t].step \notin LogSteps
  /\ fate \in {"live", "raced", "terminated"}
  /\ epoch \in Nat
  /\ delivered \in [Threads -> SUBSET Packets]
  /\ forwarded \subseteq Threads \X Packets
  /\ discarded \subseteq Packets
  /\ contiguous \subseteq Channels \X Seqs

\* Although no lock pairs an insertion with its pruning, and config_ with its limit
\* is replaced while the log is kept, the log never outgrows the limit, or what an
\* earlier session left in it, by more than the threads that have inserted and not
\* yet pruned. What was left is not given back: a pruning takes away one key, and
\* there is one for every key that is new.
LogIsBounded ==
  Cardinality(deduplication_log) <=
    allowed + Cardinality({t \in Threads : at[t].step = "prune"})

\* A thread has the packet, past the lookup, or has handed it to the SDK.
Carried(p) ==
  \E t \in Threads :
    \/ <<t, p>> \in forwarded
    \/ \E s \in {"insert", "prune", "seq_read"} : Carrying(t, s, p)

\* The same number of the same channel; or two numbers with one key, of which one
\* does not fit the 32 bits left to it and runs into the channel.
SameNumber(p, q) ==
  \/ p.ch = q.ch /\ p.seq = q.seq
  \/ Key(p) = Key(q) /\ (p.seq >= KeyBase \/ q.seq >= KeyBase)

\* A packet is dropped as a duplicate only if one with its channel and number is on
\* its way to the SDK or has reached it. It need not be a copy of the packet: it
\* may be the one that had the number before the exchange restarted, for nothing
\* clears the log, and it may be damaged, for a key is recorded before anything
\* has looked at the checksum.
DiscardedIsCarried ==
  \A p \in discarded : \E q \in Packets : SameNumber(p, q) /\ Carried(q)

\* When is_sequence_valid judges a number to be the expected one, an undamaged
\* packet with the number before it has reached the SDK on that channel: however
\* the threads' lookups and stores interleave, and whatever arrives damaged, a gap
\* is never hidden, only reported where there is none.
NoHiddenGap ==
  \A cs \in contiguous :
    \E f \in forwarded : f[2].ok /\ f[2].ch = cs[1] /\ f[2].seq = cs[2] - 1

\* Every number that a running manager is given on a channel reaches the SDK, on
\* whichever thread and whatever is pruned, discarded, stopped or configured anew
\* meanwhile: again and again there is nothing left that was delivered and whose
\* number was not forwarded. Of a number that is used again after a restart this
\* says nothing more: the packet forwarded may be the earlier one.
AcceptedReachesSdk ==
  []<>( \/ fate # "live"
        \/ \A t \in Threads : \A p \in delivered[t] :
             \E f \in forwarded : SameNumber(p, f[2]) )

\* NetworkManager forwards "unique market data packets": of the copies that the
\* feeds deliver, the SDK gets one.
ForwardedOnce ==
  \A p \in Packets : Cardinality({t \in Feeds : <<t, p>> \in forwarded}) <= 1

=============================================================================
