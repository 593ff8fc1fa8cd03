---------------------------- MODULE MarketSerial ----------------------------
(***************************************************************************)
(* One client at a time: the threaded server with a single thread, not     *)
(* ended from outside, implements Market, whose requests are one step      *)
(* each.  What a request has written half of is hidden behind the tables   *)
(* as they were before its first write, kept in the history variable pre:  *)
(* a request takes effect when its handler has nothing left to write, and  *)
(* one row of a checkout when its row leaves the cart.                     *)
(***************************************************************************)
EXTENDS MarketThreads

VARIABLE pre   \* the tables when last no handler was between two writes

ASSUME OneThreadAssumption == Cardinality(Threads) = 1 /\ ~Killable

Me == CHOOSE t \in Threads : TRUE

SerialInit == Init /\ pre = db
SerialNext == Next /\ pre' = IF th'[Me].dirty THEN pre ELSE db'
SerialSpec == SerialInit /\ [][SerialNext]_<<vars, pre>>
FairSerialSpec == SerialSpec /\ WF_<<vars, pre>>(Continue(Me) /\ History(Me) /\ SerialNext)

CheckingOut == th[Me].does = "checkout"

M == INSTANCE Market WITH
  balance <- pre[1], items <- pre[2], orders <- pre[3], carts <- pre[4],
  lastItem <- pre[5], lastOrder <- pre[6], lastRow <- pre[7],
  busy <- IF CheckingOut THEN th[Me].user ELSE Nobody,
  pending <- IF CheckingOut THEN DOMAIN th[Me].batch ELSE {},
  allOk <- IF CheckingOut THEN th[Me].ok ELSE TRUE,
  reply <- IF CheckingOut THEN "none" ELSE reply

\* A handler's storage calls together do what the request does in Market, and
\* nothing if it answers early or crashes before its first write.
ImplementsMarket == M!Spec

\* The loop of a checkout goes on as Market assumes.
CheckoutGoesOn == M!Fairness

\* The wallets stay within Market's bound on them.
WithinBound == \A u \in Users : balance[u] \in -MaxBalance .. MaxBalance
=============================================================================
