------------------------------ MODULE MCSerial ------------------------------
(* One thread, from the empty database, with every kind of request: account 1
   buys, account 2 sells and may buy from itself. *)
EXTENDS MarketSerial

MCUsers == {1, 2}
MCSellers == {2}
MCPrices == {2}
MCDiscounts == {1}
MCQuantities == {1}
MCStocks == {0}
MCTopups == {2}
MCTypes == {0, 3}
MCThreads == {1}
=============================================================================
