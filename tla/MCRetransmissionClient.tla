----------------------- MODULE MCRetransmissionClient -----------------------
(* RetransmissionClient with model values for the requesters.                 *)
EXTENDS RetransmissionClient

CONSTANT requester

MCRequesters == {requester}

=============================================================================
