---------------------------- MODULE MCPriceFeed ----------------------------
(* Two processes, two execution sources and, in MCPriceFeedWarning, a       *)
(* research source.  A tick is half a minute; the two prices are 100 bps    *)
(* apart, the threshold is 50.                                              *)
EXTENDS PriceFeed, TLC

CONSTANTS pyth, kraken, yfinance, w1, w2
MCPriority == <<pyth, kraken>>
MCReads == IF Research = {} THEN MCPriority ELSE Append(MCPriority, yfinance)
MCLag == {0, 2}
MCSymmetry == Permutations(Server)
=============================================================================
