----------------------------- MODULE MCThreads -----------------------------
(* Two threads.  The run starts from databases the market can be in: account 2
   has added an item or two and account 1 has topped up; either both have item 1
   in the cart, or account 1 has ordered it. *)
EXTENDS MarketThreads, TLC

MCUsers == {1, 2}
MCSellers == {2}
MCPrices == {2}
MCDiscounts == {1}
MCQuantities == {1}
MCStocks == {0}
MCTopups == {2}
MCTypes == {0}
MCThreads2 == {1, 2}
MCThreads1 == {1}

Listed == NewItem(2, 2, 0)

\* Both accounts want item 1, the only one, and account 1 can pay for it.
Contended ==
  /\ items = (1 :> Listed) /\ lastItem = 1
  /\ orders = Empty /\ lastOrder = 0
  /\ carts = (1 :> CartRow(1, 1, 1) @@ 2 :> CartRow(2, 1, 1)) /\ lastRow = 2

\* Account 1 has ordered item 1, account 2 has item 2 in its cart.
Ordered ==
  /\ items = (1 :> Froze(Listed, 1) @@ 2 :> Listed) /\ lastItem = 2
  /\ orders = (1 :> NewOrder(1, CartRow(1, 1, 1), Listed)) /\ lastOrder = 1
  /\ carts = (1 :> CartRow(2, 2, 1)) /\ lastRow = 1

MCInit ==
  /\ balance = [u \in Users |-> IF u = 1 THEN 2 ELSE 0]
  /\ Contended \/ Ordered
  /\ up = TRUE /\ th = [t \in Threads |-> Idle]
  /\ reply = "none" /\ requests = 0
  /\ raced = FALSE /\ torn = FALSE /\ expected = balance

MCSpec == MCInit /\ [][Next]_vars /\ Fairness
=============================================================================
