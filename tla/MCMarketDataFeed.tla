-------------------------- MODULE MCMarketDataFeed --------------------------
(* MarketDataFeed on a negative price and two positive ones. The histories of *)
(* OrderBook that no property of the feed reads are left out of the view.     *)
EXTENDS MarketDataFeed

MCQuotes == {<<2, "-">>, <<1, "0">>, <<3, "0">>}

FeedView == <<book, msg, feedVars>>

=============================================================================
