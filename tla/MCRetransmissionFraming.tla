---------------------- MODULE MCRetransmissionFraming ----------------------
(* One message of every kind, with bytes 27 where they could be taken for an  *)
(* ESC, and the ways in which one can be wrong.                               *)
EXTENDS RetransmissionFraming

Msg(type, fields, data) ==
  [kind |-> "protocol", type |-> type, num |-> 258, time |-> <<27, 70000>>,
   fields |-> fields, data |-> data]

Market(body) ==
  [kind |-> "market", tc |-> 50, mk |-> 65, ch |-> 12, seq |-> 345678901,
   body |-> body]

\* A login request carries the code of its operator and the password.
Login ==
  Msg(20, [multiplication_operator |-> 777,
           check_code |-> calculate_check_code(777, 1234), session_id |-> 6939], <<>>)
Request == Msg(101, [channel_id |-> 1, begin_seq_no |-> 65537, recover_num |-> 5], <<>>)
Response ==
  Msg(102, [channel_id |-> 2, status_code |-> 27, begin_seq_no |-> 453050624,
            recover_num |-> 1], <<27, 0, 255>>)

Good ==
  {Login, Request, Response, Msg(30, [channel_id |-> 6939], <<>>),
   Msg(50, <<>>, <<>>), Msg(104, <<>>, <<>>), Msg(105, <<>>, <<>>),
   Msg(10, [status_code |-> 27], <<>>), Market(<<>>), Market(<<27, 0, 27>>)}

MCItems ==
  [msg : Good, harm : {"none"}]
    \cup [msg : {Response, Market(<<27, 0, 27>>)},
          harm : {"checksum", "length", "longer", "shorter"}]

=============================================================================
