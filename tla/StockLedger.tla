----------------------------- MODULE StockLedger -----------------------------
(***************************************************************************)
(* What the order classes promise about stock, without tables or handlers: *)
(* every item the market lists is one unit; a unit is held by at most one  *)
(* order, it leaves that order by being sold or released, a unit once sold *)
(* is never for sale again, and the id of an order is never given twice.   *)
(* Withdrawing an item takes the unit away and leaves the order, if any,   *)
(* pointing at it.                                                         *)
(***************************************************************************)
EXTENDS Integers

CONSTANTS MaxItems, MaxOrders

VARIABLES
  unit,     \* unit[i]: where the unit of item i is
  holder,   \* holder[i]: the order that points at the unit of i, 0 for none
  issued    \* order ids given so far

ledger == <<unit, holder, issued>>

ItemIds == 1 .. MaxItems

TypeOK ==
  /\ unit \in [ItemIds -> {"unlisted", "free", "held", "sold", "withdrawn"}]
  /\ holder \in [ItemIds -> 0 .. MaxOrders]
  /\ issued \in 0 .. MaxOrders

Init ==
  /\ unit = [i \in ItemIds |-> "unlisted"]
  /\ holder = [i \in ItemIds |-> 0]
  /\ issued = 0

Move(i, from, to) == unit[i] = from /\ unit' = [unit EXCEPT ![i] = to]

List(i) == Move(i, "unlisted", "free") /\ UNCHANGED <<holder, issued>>

\* An order takes the unit under an id that is new.
Hold(i) ==
  /\ Move(i, "free", "held")
  /\ issued' = issued + 1
  /\ holder' = [holder EXCEPT ![i] = issued']

\* An order for a quantity of 0 takes an id and nothing else.
Burn == issued' = issued + 1 /\ UNCHANGED <<unit, holder>>

Release(i) ==
  /\ Move(i, "held", "free")
  /\ holder' = [holder EXCEPT ![i] = 0]
  /\ UNCHANGED issued

Sell(i) ==
  /\ Move(i, "held", "sold")
  /\ holder' = [holder EXCEPT ![i] = 0]
  /\ UNCHANGED issued

Withdraw(i) ==
  /\ unit[i] \in {"free", "held", "sold"}
  /\ unit' = [unit EXCEPT ![i] = "withdrawn"]
  /\ UNCHANGED <<holder, issued>>

Next ==
  \/ Burn
  \/ \E i \in ItemIds :
       List(i) \/ Hold(i) \/ Release(i) \/ Sell(i) \/ Withdraw(i)

Spec == Init /\ [][Next]_ledger
=============================================================================
