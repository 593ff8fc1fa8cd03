------------------------------- MODULE Market -------------------------------
(***************************************************************************)
(* The market with requests served one after the other, as it is with one  *)
(* client (client_session::feed waits for the answer) and in the offline   *)
(* program (session::exec called directly).  One action per request; only  *)
(* the loop of cart::checkout takes one step per row, so that the process  *)
(* may die between two rows.                                               *)
(*                                                                         *)
(* A null pointer that is dereferenced, or an exception no one catches,    *)
(* ends the process: Crash.  The database file stays; Restart opens it     *)
(* again.  Requests come from the client's menus, so user ids are those of *)
(* registered accounts, while item, order and row ids are whatever number  *)
(* the person types.                                                       *)
(***************************************************************************)
EXTENDS MarketData, FiniteSetsExt

VARIABLES
  balance,    \* users.balance
  items,      \* table items
  orders,     \* table orders
  carts,      \* table item_cart
  lastItem,   \* AUTOINCREMENT counters: the largest id ever given
  lastOrder,
  lastRow,
  up,         \* the process is alive
  busy,       \* the user whose checkout is running, or Nobody
  pending,    \* rows the loop of that checkout has still to visit
  allOk,      \* all_success of that checkout
  reply       \* the last answer: "none", "success" or "failure"

db == <<balance, items, orders, carts, lastItem, lastOrder, lastRow>>
run == <<up, busy, pending, allOk>>
vars == <<db, run, reply>>

ItemIds == 1 .. MaxItems
OrderIds == 1 .. MaxOrders
RowIds == 1 .. MaxRows

Init ==
  /\ balance = [u \in Users |-> 0]
  /\ items = Empty /\ orders = Empty /\ carts = Empty
  /\ lastItem = 0 /\ lastOrder = 0 /\ lastRow = 0
  /\ up = TRUE /\ busy = Nobody /\ pending = {} /\ allOk = TRUE
  /\ reply = "none"

-----------------------------------------------------------------------------
(* The process *)

Ready == up /\ busy = Nobody

Answer(r) == reply' = r /\ UNCHANGED run

\* Fault: the state of a request survives the process.
CrashKeepsRequest ==
  up' = FALSE /\ reply' = "none" /\ UNCHANGED <<busy, pending, allOk>>

\* The process ends without an answer; whatever was in memory is gone.
Crash ==
  /\ up' = FALSE /\ reply' = "none"
  /\ busy' = Nobody /\ pending' = {} /\ allOk' = TRUE

\* The process is ended from outside.
Kill == up /\ Crash /\ UNCHANGED db

\* session::Start: sync_schema finds the tables as they are.
Restart ==
  ~up /\ up' = TRUE /\ UNCHANGED <<db, busy, pending, allOk, reply>>

\* What a handler that only reads does: it crashes if it meets an item it
\* cannot read among those it prints.
ReadItems(is) ==
  /\ Ready
  /\ IF \A i \in is : Readable(items, i) THEN Answer("success") ELSE Crash
  /\ UNCHANGED db

\* Text where a number is wanted: add_to_cart, cart_edit and seller_sale
\* answer "invalid input" and touch nothing.
InvalidInput == Ready /\ Answer("failure") /\ UNCHANGED db

-----------------------------------------------------------------------------
(* Wallet *)

\* The bound on wallets, MaxBalance.
Bounded(bal) == \A u \in Users : bal[u] \in -MaxBalance .. MaxBalance

WalletTopup(u, amount) ==
  /\ Ready
  /\ balance' = [balance EXCEPT ![u] = @ + amount]
  /\ Bounded(balance')
  /\ Answer("success")
  /\ UNCHANGED <<items, orders, carts, lastItem, lastOrder, lastRow>>

WalletShow == ReadItems({})

-----------------------------------------------------------------------------
(* Cart *)

RowsOf(u) == {r \in DOMAIN carts : carts[r].user = u}
RowsFor(u, i) == {r \in RowsOf(u) : carts[r].item = i}

\* Fault: cart::add that always inserts.
AddRowAlwaysInserts(u, i, q) ==
  /\ lastRow < MaxRows
  /\ carts' = Put(carts, lastRow + 1, CartRow(u, i, q))
  /\ lastRow' = lastRow + 1

\* cart::add.  Nothing checks that the item exists.
AddRow(u, i, q) ==
  \/ /\ RowsFor(u, i) = {}
     /\ lastRow < MaxRows
     /\ carts' = Put(carts, lastRow + 1, CartRow(u, i, q))
     /\ lastRow' = lastRow + 1
  \/ \E r \in RowsFor(u, i) :
       /\ \A s \in RowsFor(u, i) : r <= s
       /\ carts' = [carts EXCEPT ![r].quantity = SizeAdd(@, q)]
       /\ UNCHANGED lastRow

AddToCart(u, i, q) ==
  /\ Ready
  /\ AddRow(u, i, q)
  /\ Answer("success")
  /\ UNCHANGED <<balance, items, orders, lastItem, lastOrder>>

\* cart::edit, and cart::remove which is edit with quantity 0.
CartEdit(u, r, q) ==
  /\ Ready
  /\ IF r \in RowsOf(u)
       THEN /\ Answer("success")
            /\ carts' = IF q = 0 THEN Keep(carts, DOMAIN carts \ {r})
                                 ELSE [carts EXCEPT ![r].quantity = q]
       ELSE Answer("failure") /\ UNCHANGED carts
  /\ UNCHANGED <<balance, items, orders, lastItem, lastOrder, lastRow>>

CartRemove(u, r) == CartEdit(u, r, 0)

CartShow(u) == ReadItems({carts[r].item : r \in RowsOf(u)})

\* cart_checkout loads the user's rows ...
CheckoutStart(u) ==
  /\ Ready
  /\ lastOrder + Cardinality(RowsOf(u)) <= MaxOrders
  /\ busy' = u /\ pending' = RowsOf(u) /\ allOk' = TRUE
  /\ reply' = "none"
  /\ UNCHANGED <<db, up>>

\* ... visits them in the order of their ids, one order::create each ...
CreateOrder(r) ==
  LET row == carts[r]
      it == items[row.item]
  IN /\ Available(it) >= row.quantity
     /\ lastOrder < MaxOrders
     /\ items' = [items EXCEPT ![row.item] = Froze(@, row.quantity)]
     /\ orders' = Put(orders, lastOrder + 1, NewOrder(busy, row, it))
     /\ lastOrder' = lastOrder + 1

\* Fault: the ordered row stays in the cart.
ClearRowForgets(r) == UNCHANGED carts

ClearRow(r) == carts' = Keep(carts, DOMAIN carts \ {r})

\* An order was created: its row leaves the cart.
RowOrdered(r) ==
  /\ Readable(items, carts[r].item)
  /\ CreateOrder(r)
  /\ ClearRow(r)
  /\ pending' = pending \ {r}
  /\ UNCHANGED <<balance, lastItem, lastRow, up, busy, allOk, reply>>

\* Fault: the loop comes back to a row it could not order.
RowShortRetries(r) ==
  /\ Readable(items, carts[r].item)
  /\ Available(items[carts[r].item]) < carts[r].quantity
  /\ allOk' = FALSE
  /\ UNCHANGED <<db, up, busy, pending, reply>>

\* order::create answered 0: the row stays.
RowShort(r) ==
  /\ Readable(items, carts[r].item)
  /\ Available(items[carts[r].item]) < carts[r].quantity
  /\ pending' = pending \ {r}
  /\ allOk' = FALSE
  /\ UNCHANGED <<db, up, busy, reply>>

\* itemp is null and get_seller() is called on it.
RowUnreadable(r) ==
  /\ ~Readable(items, carts[r].item)
  /\ Crash /\ UNCHANGED db

CheckoutRow ==
  /\ up
  /\ \E r \in pending :
       /\ \A s \in pending : r <= s
       /\ RowOrdered(r) \/ RowShort(r) \/ RowUnreadable(r)

\* ... and answers success = 1 whether or not every order could be created.
CheckoutDone ==
  /\ up /\ busy # Nobody /\ pending = {}
  /\ busy' = Nobody /\ allOk' = TRUE
  /\ reply' = "success"
  /\ UNCHANGED <<db, up, pending>>

-----------------------------------------------------------------------------
(* Orders *)

\* order::pay reads both user rows before it writes either, so that when
\* customer and seller are one account the second write wins.
Transfer(bal, customer, seller, amount) ==
  [bal EXCEPT ![customer] = bal[customer] - amount,
              ![seller] = bal[seller] + amount]

\* Fault: the check of base_user::pay left out.
CanPayAlways(user, amount) == TRUE

CanPay(user, amount) == balance[user] >= amount

\* Fault: the order row is not removed.
CloseOrderKeepsIt(o, it) ==
  /\ items' = [items EXCEPT ![orders[o].item] = Unfroze(it, orders[o].quantity)]
  /\ UNCHANGED orders

\* order::cancel, on the item row it as it is then.
CloseOrder(o, it) ==
  /\ items' = [items EXCEPT ![orders[o].item] = Unfroze(it, orders[o].quantity)]
  /\ orders' = Keep(orders, DOMAIN orders \ {o})

\* order::get gave a null pointer and orders_pay uses it.
PayMissing(o) ==
  Ready /\ o \notin DOMAIN orders /\ Crash /\ UNCHANGED db

PayRefused(o) ==
  /\ Ready /\ o \in DOMAIN orders
  /\ ~CanPay(orders[o].customer, Signed(orders[o].price))
  /\ Answer("failure") /\ UNCHANGED db

\* The wallets are written first.  If the item cannot be read the process
\* ends there, the order still open.
PayAccepted(o) ==
  /\ Ready /\ o \in DOMAIN orders
  /\ LET ord == orders[o]
         amount == Signed(ord.price)
     IN /\ CanPay(ord.customer, amount)
        /\ balance' = Transfer(balance, ord.customer, ord.seller, amount)
        /\ Bounded(balance')
        /\ IF Readable(items, ord.item)
             THEN /\ CloseOrder(o, Sold(items[ord.item], ord.quantity))
                  /\ Answer("success")
             ELSE Crash /\ UNCHANGED <<items, orders>>
  /\ UNCHANGED <<carts, lastItem, lastOrder, lastRow>>

OrdersPay(o) == PayMissing(o) \/ PayRefused(o) \/ PayAccepted(o)

CancelMissing(o) ==
  Ready /\ o \notin DOMAIN orders /\ Answer("failure") /\ UNCHANGED db

CancelFound(o) ==
  /\ Ready /\ o \in DOMAIN orders
  /\ IF Readable(items, orders[o].item)
       THEN CloseOrder(o, items[orders[o].item]) /\ Answer("success")
       ELSE Crash /\ UNCHANGED <<items, orders>>
  /\ UNCHANGED <<balance, carts, lastItem, lastOrder, lastRow>>

OrdersCancel(o) == CancelMissing(o) \/ CancelFound(o)

OrdersShow(u) ==
  ReadItems({orders[o].item : o \in {p \in DOMAIN orders : orders[p].customer = u}})

-----------------------------------------------------------------------------
(* Items *)

SellerAdd(s, price, type) ==
  /\ Ready
  /\ lastItem < MaxItems
  /\ items' = Put(items, lastItem + 1, NewItem(s, price, type))
  /\ lastItem' = lastItem + 1
  /\ Answer("success")
  /\ UNCHANGED <<balance, orders, carts, lastOrder, lastRow>>

\* base_item::edit for a request whose fields all parse.  A field left blank
\* keeps its value: price and type then are those of the row, and a blank
\* stock is any that passes the check.  The stock is read, compared and
\* dropped.  Name and description are not modelled.
SellerEdit(i, price, type, stock) ==
  /\ Ready
  /\ IF ~Readable(items, i)
       THEN Crash /\ UNCHANGED items
       ELSE IF AsSize(stock) < items[i].frozen
              THEN Answer("failure") /\ UNCHANGED items
              ELSE /\ items' = [items EXCEPT ![i].price = price, ![i].type = type]
                   /\ Answer("success")
  /\ UNCHANGED <<balance, orders, carts, lastItem, lastOrder, lastRow>>

\* A field does not parse.  stoll or stoi throws and edit answers "invalid
\* input"; with a null item that holds only if no field was written before.
SellerEditInvalid(i) ==
  /\ Ready
  /\ \/ Answer("failure")
     \/ ~Readable(items, i) /\ Crash
  /\ UNCHANGED db

\* Fault: the cart rows of a removed item are left behind.
RowsWithoutItemForgets(i) == carts

RowsWithoutItem(i) == Keep(carts, {r \in DOMAIN carts : carts[r].item # i})

\* base_item::remove takes the cart rows and the item; orders are not looked at.
SellerRemove(i) ==
  /\ Ready
  /\ IF Readable(items, i)
       THEN /\ carts' = RowsWithoutItem(i)
            /\ items' = Keep(items, DOMAIN items \ {i})
            /\ Answer("success")
       ELSE Crash /\ UNCHANGED <<items, carts>>
  /\ UNCHANGED <<balance, orders, lastItem, lastOrder, lastRow>>

ItemsOf(s) == {i \in DOMAIN items : items[i].seller = s}

SellerSale(s, type, discount) ==
  LET chosen == {i \in ItemsOf(s) : items[i].type = type}
  IN /\ Ready
     /\ IF \A i \in chosen : Readable(items, i)
          THEN /\ items' = [i \in DOMAIN items |->
                              IF i \in chosen THEN [items[i] EXCEPT !.discount = discount]
                                              ELSE items[i]]
               /\ Answer("success")
          ELSE Crash /\ UNCHANGED items
     /\ UNCHANGED <<balance, orders, carts, lastItem, lastOrder, lastRow>>

SellerList(s) == ReadItems(ItemsOf(s))

\* list prints every item, search those whose name matches: any of them.
Search == \E is \in SUBSET DOMAIN items : ReadItems(is)

-----------------------------------------------------------------------------
CustomerNext(u) ==
  \/ \E amount \in Topups : WalletTopup(u, amount)
  \/ \E i \in ItemIds, q \in Quantities : AddToCart(u, i, q)
  \/ \E r \in RowIds : CartRemove(u, r)
  \/ \E r \in RowIds, q \in Quantities : CartEdit(u, r, q)
  \/ CartShow(u)
  \/ CheckoutStart(u)
  \/ OrdersShow(u)

SellerNext(s) ==
  \/ \E price \in Prices, type \in Types : SellerAdd(s, price, type)
  \/ \E type \in Types, discount \in Discounts : SellerSale(s, type, discount)
  \/ SellerList(s)

\* seller_edit and seller_remove, orders_pay and orders_cancel do not look at
\* who asks.
EditNext(i) ==
  \E stock \in Stocks :
    \E price \in Prices \cup {items[j].price : j \in DOMAIN items \cap {i}},
       type \in Types \cup {items[j].type : j \in DOMAIN items \cap {i}} :
      SellerEdit(i, price, type, stock)

Next ==
  \/ \E u \in Users : CustomerNext(u)
  \/ \E s \in Sellers : SellerNext(s)
  \/ \E i \in ItemIds : EditNext(i) \/ SellerEditInvalid(i) \/ SellerRemove(i)
  \/ \E o \in OrderIds : OrdersPay(o) \/ OrdersCancel(o)
  \/ WalletShow \/ Search \/ InvalidInput
  \/ CheckoutRow \/ CheckoutDone
  \/ Kill \/ Restart

Spec == Init /\ [][Next]_vars

\* The thread that serves a request goes on while the process lives.
Fairness == WF_vars(CheckoutRow) /\ WF_vars(CheckoutDone)
FairSpec == Spec /\ Fairness

-----------------------------------------------------------------------------
(* Correctness *)

WalletsOK == balance \in [Users -> Int]

ItemsOK ==
  /\ lastItem \in 0 .. MaxItems
  /\ DOMAIN items \subseteq 1 .. lastItem
  /\ items \in [DOMAIN items -> Item]

OrdersOK ==
  /\ lastOrder \in 0 .. MaxOrders
  /\ DOMAIN orders \subseteq 1 .. lastOrder
  /\ orders \in [DOMAIN orders -> Order]
  /\ \A o \in DOMAIN orders : orders[o].item <= lastItem

CartsOK ==
  /\ lastRow \in 0 .. MaxRows
  /\ DOMAIN carts \subseteq 1 .. lastRow
  /\ carts \in [DOMAIN carts -> Row]

RunOK ==
  /\ up \in BOOLEAN /\ allOk \in BOOLEAN
  /\ busy \in Users \cup {Nobody}
  /\ pending \subseteq DOMAIN carts
  /\ \A r \in pending : carts[r].user = busy
  /\ busy = Nobody => pending = {}
  /\ ~up => busy = Nobody
  /\ reply \in {"none", "success", "failure"}

\* Types of the tables and of the request in progress; ids lie within the
\* AUTOINCREMENT counters, an order only names an item that was once added,
\* and the loop of a checkout only holds rows of its user that are still in
\* the table.
TypeOK == WalletsOK /\ ItemsOK /\ OrdersOK /\ CartsOK /\ RunOK

\* An order with a quantity holds the unit of its item.
HoldsUnit(o, i) == orders[o].item = i /\ orders[o].quantity # 0

\* Stock and orders agree.  seller_add gives one unit and nothing ever gives
\* more; frozen is 1 exactly while an open order holds that unit, no two open
\* orders hold the same unit (also after the item was removed), so what is
\* shown as available was never promised to someone else.
OneUnitReserved ==
  /\ \A i \in DOMAIN items :
       /\ items[i].stock \in {0, 1}
       /\ items[i].frozen <= items[i].stock
       /\ items[i].frozen = 1 <=> \E o \in DOMAIN orders : HoldsUnit(o, i)
  /\ \A o \in DOMAIN orders : orders[o].quantity \in {0, 1}
  /\ \A o, p \in DOMAIN orders :
       orders[p].quantity # 0 /\ HoldsUnit(o, orders[p].item) => o = p

\* cart::add finds the row it made before: a user has at most one row per item.
OneRowPerItem ==
  \A r, s \in DOMAIN carts :
    carts[r].user = carts[s].user /\ carts[r].item = carts[s].item => r = s

\* base_item::remove takes an item out of every cart with it: no cart keeps a
\* reference to what was just removed.
RemovalLeavesNoRow ==
  [][\A i \in DOMAIN items \ DOMAIN items' :
       \A r \in DOMAIN carts' : carts'[r].item # i]_vars

\* When a checkout answers, every row it could order is an order and out of
\* the cart: what is left asks for more than is available now, and
\* all_success says whether anything is left.
CheckoutOutcome ==
  [][busy # Nobody /\ busy' = Nobody /\ up' =>
       /\ \A r \in RowsOf(busy) :
            /\ Readable(items, carts[r].item)
            /\ Available(items[carts[r].item]) < carts[r].quantity
       /\ allOk <=> RowsOf(busy) = {}]_vars

\* Money leaves a wallet only for an order, only the order's price, and the
\* order is closed by it: no order takes money twice, except one whose item
\* cannot be read any more.  (For amounts of top-ups that are not negative.)
MoneyTakenClosesOrder ==
  [][\A u \in Users : balance'[u] < balance[u] =>
       \E o \in DOMAIN orders :
         /\ u \in {orders[o].customer, orders[o].seller}
         /\ balance[u] - balance'[u] \in {Signed(orders[o].price), -Signed(orders[o].price)}
         /\ o \notin DOMAIN orders' \/ ~Readable(items, orders[o].item)]_vars

\* An order is closed in one of two ways: the wallets stay as they are and its
\* quantity is available again, or its price has moved and its quantity has
\* left the stock for good.  Never the one half of one and the other of the
\* other.
OrderLeavesOneWay ==
  [][\A o \in DOMAIN orders \ DOMAIN orders' :
       LET ord == orders[o]
           was == items[ord.item]
           is == items'[ord.item]
       IN \/ /\ balance' = balance
             /\ is.stock = was.stock
             /\ Available(is) = Available(was) + ord.quantity
          \/ /\ balance' = Transfer(balance, ord.customer, ord.seller, Signed(ord.price))
             /\ is.stock = was.stock - ord.quantity
             /\ Available(is) = Available(was)]_vars

\* base_user::pay refuses what the wallet cannot cover: a wallet falls below
\* zero only on the receiving side of an order with a negative price.
NoOverdraft ==
  [][\A u \in Users : balance'[u] < balance[u] /\ balance'[u] < 0 =>
       \E o \in DOMAIN orders :
         Signed(orders[o].price) < 0 /\ orders[o].seller = u]_vars

\* A checkout that was started comes to an end: it answers or dies.
CheckoutEnds == busy # Nobody ~> busy = Nobody

\* The tables implement the ledger of units.
UnitOf(i) ==
  IF i > lastItem THEN "unlisted"
  ELSE IF i \notin DOMAIN items THEN "withdrawn"
  ELSE IF items[i].stock = 0 THEN "sold"
  ELSE IF items[i].frozen = 0 THEN "free"
  ELSE "held"
HolderOf(i) ==
  IF \E o \in DOMAIN orders : HoldsUnit(o, i)
    THEN CHOOSE o \in DOMAIN orders : HoldsUnit(o, i)
    ELSE 0

Ledger == INSTANCE StockLedger WITH
  unit <- [i \in ItemIds |-> UnitOf(i)],
  holder <- [i \in ItemIds |-> HolderOf(i)],
  issued <- lastOrder

\* Every step of the market is a step of the ledger or leaves it alone: a unit
\* goes from free to held by a new order and from there back or to sold, and
\* no handler resurrects a unit or an order id.
ImplementsLedger == Ledger!Spec

-----------------------------------------------------------------------------
(* What the source's own words say, and the code does not do *)

\* "customer pays the order, seller receives the money" (server_interface.h:364):
\* a payment moves money and makes none.
TotalMoney == MapThenSumSet(LAMBDA u : balance[u], Users)
PayCreatesNoMoney ==
  [][(\E o \in OrderIds : PayAccepted(o)) => TotalMoney' = TotalMoney]_vars

\* "User cancels the order" (server_interface.h:371): cancelling an order that
\* exists closes it.
CancelClosesOrder ==
  [][\A o \in DOMAIN orders : OrdersCancel(o) => o \notin DOMAIN orders']_vars

\* "input stock: " (client_session.cpp:282): the number a seller enters, once
\* accepted, is the item's stock.
EditSetsStock ==
  [][\A i \in DOMAIN items, price \in Prices, type \in Types, stock \in Stocks :
       SellerEdit(i, price, type, stock) /\ reply' = "success"
         => items'[i].stock = AsSize(stock)]_vars
=============================================================================
