---------------------------- MODULE MCLogReplay ----------------------------
(* Records with one message, with none, with several, with padding, and with  *)
(* an ESC among the bytes before the message: one that only hides it, and one *)
(* behind which the place of the body length holds the message's own ESC.     *)
EXTENDS LogReplay

Market(seq, body) ==
  [kind |-> "market", tc |-> 50, mk |-> 65, ch |-> 12, seq |-> seq, body |-> body]

Cap(prefix, msgs, trailer) ==
  [prefix |-> prefix, msgs |-> msgs, trailer |-> trailer, swapped |-> FALSE]

A == Market(345678901, <<>>)
B == Market(1, <<27, 0, 27>>)

MCCaptures ==
  {Cap(<<69, 0>>, <<A>>, <<>>), Cap(<<>>, <<B>>, <<>>), Cap(<<69>>, <<A, B>>, <<>>),
   Cap(<<>>, <<A>>, <<0, 0>>), Cap(<<>>, <<>>, <<>>), Cap(<<69, 0>>, <<>>, <<>>),
   Cap(<<27, 0>>, <<A>>, <<>>), Cap(<<27>> \o [i \in 1 .. 16 |-> 1], <<A>>, <<>>),
   [Cap(<<69>>, <<A>>, <<>>) EXCEPT !.swapped = TRUE]}

=============================================================================
