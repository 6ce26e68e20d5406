------------------------- MODULE MCNetworkLifecycle -------------------------
(* No feed, one feed, two feeds, and a feed of another group, with and without *)
(* dual feed and retransmission server.                                       *)
EXTENDS NetworkLifecycle

CONSTANTS A, B

MCGroups == {A, B}

MCConfigurations ==
  [feeds : {<<>>, <<A>>, <<B>>, <<A, B>>}, dual : BOOLEAN, server : BOOLEAN]

=============================================================================
