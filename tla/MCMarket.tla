------------------------------ MODULE MCMarket ------------------------------
(* The sequential market on a small instance: account 1 buys, account 2 sells
   and may buy from itself through the same menu. *)
EXTENDS Market

MCUsers == {1, 2}
MCSellers == {2}
MCPrices == {2}
MCDiscounts == {1}
MCQuantities == {1}
MCStocks == {0, 1}
MCTopups == {2}
MCTypes == {0, 3}
=============================================================================
