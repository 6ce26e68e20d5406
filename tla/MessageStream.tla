--------------------------- MODULE MessageStream ---------------------------
(***************************************************************************)
(* What a source of messages promises to the code behind it: the messages  *)
(* that are sent, before it is opened or later, come out one by one, whole, *)
(* in order and once, until the stream is closed.                          *)
(***************************************************************************)
EXTENDS Sequences

CONSTANT Messages

VARIABLES
  todo,   \* the messages still to come
  done,   \* the messages delivered
  open    \* the stream has not been closed

vars == <<todo, done, open>>

Init == todo \in Seq(Messages) /\ done = <<>> /\ open = TRUE

\* The sender is on the other side, and may go on when the stream is closed.
Send(m) ==
  /\ todo' = Append(todo, m)
  /\ UNCHANGED <<done, open>>

Deliver ==
  /\ open /\ todo # <<>>
  /\ done' = Append(done, Head(todo))
  /\ todo' = Tail(todo)
  /\ UNCHANGED open

Close ==
  /\ open /\ open' = FALSE
  /\ UNCHANGED <<todo, done>>

Next == Deliver \/ Close \/ \E m \in Messages : Send(m)

\* Safety alone: what comes out and in which order.
SafeSpec == Init /\ [][Next]_vars

\* A stream that stays open delivers everything that was sent, again and again.
Delivers == []<>(todo = <<>> \/ ~ open)

Spec == SafeSpec /\ Delivers

=============================================================================
