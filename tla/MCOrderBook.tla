----------------------------- MODULE MCOrderBook -----------------------------
(* OrderBook on two prices, one of them the special price zero and the other  *)
(* negative, so that the sign conversion and the clearing of derived quotes   *)
(* both happen.                                                                *)
EXTENDS OrderBook

MCQuotes == {<<0, "0">>, <<1, "-">>}

=============================================================================
