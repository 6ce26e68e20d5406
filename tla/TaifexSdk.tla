------------------------------ MODULE TaifexSdk ------------------------------
(***************************************************************************)
(* Taifex::TaifexSdk (sdk/taifex_sdk.cpp) as it is built, called by one    *)
(* thread: process_message validates a message and tracks the numbers of   *)
(* its channel. The call of dispatch_message_body, which is declared and   *)
(* defined nowhere, is commented out, so that no handler is reached and    *)
(* the product cache and the books stay empty.                             *)
(***************************************************************************)
EXTENDS Integers

CONSTANTS
  Channels,
  MaxSeq      \* bound: CHANNEL-SEQ ranges over 1..MaxSeq

\* What identifyMessageId says of a message: a sequence reset, or any other.
Ids == {"I002", "other"}

VARIABLES
  initialized,
  channel_sequences,    \* by channel
  verdict,              \* what is_sequence_valid said of the last message
  fresh                 \* history: channels with no message since their I002

vars == <<initialized, channel_sequences, verdict, fresh>>

\* is_sequence_valid, as a judgement and as the numbers that it leaves behind.
is_sequence_valid(ch, seq) ==
  IF ch \notin DOMAIN channel_sequences THEN "first"
  ELSE IF seq = channel_sequences[ch] + 1 THEN "expected"
  ELSE IF seq <= channel_sequences[ch] THEN "old" ELSE "gap"

SequencesAfter(ch, seq) ==
  IF is_sequence_valid(ch, seq) = "old"
  THEN channel_sequences
  ELSE [c \in DOMAIN channel_sequences \cup {ch} |->
          IF c = ch THEN seq ELSE channel_sequences[c]]

-----------------------------------------------------------------------------

initialize ==
  /\ initialized' = TRUE
  /\ UNCHANGED <<channel_sequences, verdict, fresh>>

\* A message before initialize, or one whose length or checksum is wrong; or one
\* whose header digits are not BCD, which throws before anything has changed.
RejectMessage ==
  /\ verdict' = "rejected"
  /\ UNCHANGED <<initialized, channel_sequences, fresh>>

\* A valid message. The verdict on its number is not acted on.
process_message(ch, seq, id) ==
  /\ initialized
  /\ verdict' = is_sequence_valid(ch, seq)
  /\ channel_sequences' = SequencesAfter(ch, seq)
  /\ fresh' = IF id = "I002" THEN fresh \cup {ch} ELSE fresh \ {ch}
  /\ UNCHANGED initialized

Init ==
  /\ initialized = FALSE
  /\ channel_sequences = [c \in {} |-> 0]
  /\ verdict = "none"
  /\ fresh = {}

Next ==
  \/ initialize
  \/ RejectMessage
  \/ \E ch \in Channels, seq \in 1..MaxSeq, id \in Ids : process_message(ch, seq, id)

Spec == Init /\ [][Next]_vars

-----------------------------------------------------------------------------
(* Properties *)

\* "For I002 (Sequence Reset): Resets relevant order books and channel sequence
\* tracking": the first message of a channel after its reset is not taken for an
\* old one, whatever was processed on this and on other channels before.
ResetRestartsChannel ==
  [][ \A ch \in fresh \ fresh' : verdict' # "old" ]_vars

=============================================================================
