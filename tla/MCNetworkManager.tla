-------------------------- MODULE MCNetworkManager --------------------------
(* Two feeds and the retransmission client, on model values for the threads.  *)
EXTENDS NetworkManager

CONSTANTS primary, secondary, retrans

MCFeeds == {primary, secondary}
MCRecovery == {retrans}

Packet(c, s, e, ok) == [ch |-> c, seq |-> s, epoch |-> e, ok |-> ok]

Config(n, dual) == [feeds |-> n, dual |-> dual]

\* Two feeds, one of them taken away again with dual_feed_enabled left as it was,
\* and a single feed.
MCConfigs == {Config(2, TRUE), Config(1, TRUE), Config(1, FALSE)}
MCDualConfigs == {Config(2, TRUE)}

\* Two consecutive numbers of a channel, the first of them also as a damaged copy
\* and once more after the exchange has restarted; the first number of another
\* channel; and one that is too large for its place in the key, which it shares
\* with the first.
MCPackets ==
  {Packet(1, 1, 0, TRUE), Packet(1, 1, 0, FALSE), Packet(1, 2, 0, TRUE),
   Packet(1, 1, 1, TRUE), Packet(2, 1, 0, TRUE), Packet(1, 5, 0, TRUE)}

\* Each feed brings some of them; the first number is also retransmitted.
MCWire ==
  [t \in MCFeeds \cup MCRecovery |->
     CASE t = primary -> {Packet(1, 1, 0, TRUE), Packet(1, 2, 0, TRUE),
                          Packet(1, 1, 1, TRUE)}
       [] t = secondary -> {Packet(1, 1, 0, FALSE),
                            Packet(1, 5, 0, TRUE)}
       [] t = retrans -> {Packet(1, 1, 0, TRUE), Packet(2, 1, 0, TRUE)}]

\* Both feeds bring the same number.
MCSameWire == [t \in MCFeeds \cup MCRecovery |-> {Packet(1, 1, 0, TRUE)}]

=============================================================================
