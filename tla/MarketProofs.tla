---------------------------- MODULE MarketProofs ----------------------------
(***************************************************************************)
(* Theorems about the sequential market, for every set of accounts, every  *)
(* price, quantity and width and every bound.                              *)
(***************************************************************************)
EXTENDS Market, TLAPS

(* Widths and rows. *)

\* size_t arithmetic stays within its width.
LEMMA SizeClosed ==
  ASSUME NEW a \in Size, NEW b \in Size
  PROVE  SizeAdd(a, b) \in Size /\ SizeSub(a, b) \in Size
  BY SizeAssumption DEF Size, SizeAdd, SizeSub

\* The changes a handler makes to an item row leave it an item row.
LEMMA ItemChanges ==
  ASSUME NEW it \in Item, NEW q \in Size
  PROVE  Froze(it, q) \in Item /\ Unfroze(it, q) \in Item /\ Sold(it, q) \in Item
  <1>1. it.frozen \in Size /\ it.stock \in Size
    BY DEF Item
  <1>2. SizeAdd(it.frozen, q) \in Size /\ SizeSub(it.frozen, q) \in Size
        /\ SizeSub(it.stock, q) \in Size
    BY <1>1, SizeClosed
  <1> QED
    BY <1>2 DEF Item, Froze, Unfroze, Sold

\* What seller_add inserts is an item row.
LEMMA NewItemType ==
  ASSUME NEW s \in Users, NEW price \in Int, NEW type \in Int
  PROVE  NewItem(s, price, type) \in Item
  BY SizeAssumption DEF NewItem, Item, Size, NoDiscount

\* What order::create inserts is an order row.
LEMMA NewOrderType ==
  ASSUME NEW u \in Users, NEW row \in Row, NEW it \in Item
  PROVE  NewOrder(u, row, it) \in Order
  <1>1. it.price \in Int /\ it.discount \in Int /\ it.seller \in Users
    BY DEF Item
  <1>2. row.quantity \in Size /\ row.quantity \in Int /\ row.item \in 1 .. MaxItems
    BY SizeAssumption DEF Row, Size
  <1>3. Discounted(it) \in Int
    BY <1>1 DEF Discounted
  <1>4. OrderPrice(it, row.quantity) \in Int
    BY <1>2, <1>3, MoneyAssumption DEF OrderPrice
  <1> QED
    BY <1>1, <1>2, <1>4 DEF NewOrder, Order

(* Type correctness. *)

\* The empty database and a process without a request are well typed.
LEMMA InitTypeOK == Init => TypeOK
  BY UsersAssumption, MoneyAssumption, SizeAssumption, BoundsAssumption
     DEF Init, TypeOK, WalletsOK, ItemsOK, OrdersOK, CartsOK, RunOK, Empty, Nobody

\* A process that ends leaves no request in progress.
LEMMA CrashRun ==
  ASSUME CartsOK', Crash
  PROVE  RunOK'
  BY DEF Crash, RunOK

\* An answer of a handler that no checkout interrupts.
LEMMA AnswerRun ==
  ASSUME RunOK, Ready, CartsOK', NEW r \in {"success", "failure"}, Answer(r)
  PROVE  RunOK'
  BY DEF Answer, RunOK, Ready, run, Nobody

\* Tables that a step leaves alone keep their types.
LEMMA SameTables ==
  /\ WalletsOK /\ UNCHANGED balance => WalletsOK'
  /\ ItemsOK /\ UNCHANGED <<items, lastItem>> => ItemsOK'
  /\ OrdersOK /\ UNCHANGED <<orders, lastOrder, lastItem>> => OrdersOK'
  /\ CartsOK /\ UNCHANGED <<carts, lastRow>> => CartsOK'
  BY DEF WalletsOK, ItemsOK, OrdersOK, CartsOK

\* One item row is rewritten.
LEMMA ItemUpdate ==
  ASSUME ItemsOK, NEW i \in DOMAIN items, NEW it \in Item,
         items' = [items EXCEPT ![i] = it], UNCHANGED lastItem
  PROVE  ItemsOK' /\ DOMAIN items' = DOMAIN items
  BY DEF ItemsOK

\* order::cancel on an order whose item row is it.
LEMMA CloseOrderType ==
  ASSUME TypeOK, NEW o \in DOMAIN orders, NEW it \in Item,
         orders[o].item \in DOMAIN items,
         CloseOrder(o, it), UNCHANGED <<lastItem, lastOrder>>
  PROVE  ItemsOK' /\ OrdersOK'
  <1> USE DEF TypeOK, CloseOrder
  <1>1. orders[o] \in Order /\ orders[o].quantity \in Size
    BY DEF OrdersOK, Order
  <1>2. Unfroze(it, orders[o].quantity) \in Item
    BY <1>1, ItemChanges
  <1>3. ItemsOK'
    BY <1>2, ItemUpdate
  <1>4. /\ orders' \in [DOMAIN orders' -> Order]
        /\ DOMAIN orders' \subseteq DOMAIN orders
        /\ \A p \in DOMAIN orders' : orders'[p] = orders[p]
    BY DEF OrdersOK, Keep
  <1>5. OrdersOK'
    BY <1>4 DEF OrdersOK
  <1> QED
    BY <1>3, <1>5

\* Cart rows that are kept.
LEMMA KeepCarts ==
  ASSUME CartsOK, NEW S, carts' = Keep(carts, S), UNCHANGED lastRow
  PROVE  /\ CartsOK'
         /\ DOMAIN carts' = DOMAIN carts \cap S
         /\ \A r \in DOMAIN carts' : carts'[r] = carts[r]
  BY DEF CartsOK, Keep

\* order::create: the item row is frozen and an order inserted.
LEMMA CreateOrderType ==
  ASSUME TypeOK, NEW r \in pending, Readable(items, carts[r].item), busy \in Users,
         CreateOrder(r), UNCHANGED lastItem
  PROVE  ItemsOK' /\ OrdersOK'
  <1> USE DEF TypeOK
  <1> DEFINE i == carts[r].item
             q == carts[r].quantity
             new == NewOrder(busy, carts[r], items[i])
  <1>1. i \in DOMAIN items
    BY DEF Readable
  <1>2. items[i] \in Item /\ carts[r] \in Row /\ q \in Size
    BY <1>1 DEF ItemsOK, CartsOK, RunOK, Row
  <1>3. Froze(items[i], q) \in Item
    BY <1>2, ItemChanges
  <1>4. items' = [items EXCEPT ![i] = Froze(items[i], q)]
    BY DEF CreateOrder
  <1>5. ItemsOK' /\ DOMAIN items' = DOMAIN items
    BY <1>1, <1>3, <1>4, ItemUpdate
  <1>6. new \in Order /\ new.item = i
    BY <1>2, NewOrderType DEF NewOrder
  <1>7. orders' = Put(orders, lastOrder + 1, new) /\ lastOrder' = lastOrder + 1
        /\ lastOrder < MaxOrders
    BY DEF CreateOrder
  <1>8. /\ orders' \in [DOMAIN orders' -> Order]
        /\ DOMAIN orders' = DOMAIN orders \cup {lastOrder + 1}
        /\ orders'[lastOrder + 1] = new
        /\ \A p \in DOMAIN orders : p # lastOrder + 1 => orders'[p] = orders[p]
    <2>1. orders \in [DOMAIN orders -> Order]
      BY DEF OrdersOK
    <2> QED
      BY <1>6, <1>7, <2>1 DEF Put
  <1>9. i \in Int /\ lastItem \in Int /\ i <= lastItem
    BY <1>1 DEF ItemsOK
  <1>10. lastOrder \in Int /\ lastOrder + 1 \in 0 .. MaxOrders
    BY <1>7, BoundsAssumption DEF OrdersOK
  <1>11. OrdersOK'
    BY <1>6, <1>7, <1>8, <1>9, <1>10, BoundsAssumption DEF OrdersOK
  <1> QED
    BY <1>5, <1>11

\* Every request, every step of a checkout, a crash and a restart keep the types.
LEMMA TypeStep == TypeOK /\ [Next]_vars => TypeOK'
  <1> SUFFICES ASSUME TypeOK, [Next]_vars PROVE TypeOK'
    OBVIOUS
  <1> USE DEF TypeOK
  <1>crash. ASSUME Crash, UNCHANGED db PROVE TypeOK'
    BY <1>crash, CrashRun, SameTables DEF db
  <1>answer. ASSUME Ready, UNCHANGED db, NEW r \in {"success", "failure"}, Answer(r)
             PROVE  TypeOK'
    BY <1>answer, AnswerRun, SameTables DEF db
  <1>read. ASSUME NEW is, ReadItems(is) PROVE TypeOK'
    BY <1>read, <1>crash, <1>answer DEF ReadItems
  <1>1. ASSUME NEW u \in Users, NEW amount \in Topups, WalletTopup(u, amount)
        PROVE  TypeOK'
    <2>1. WalletsOK'
      BY <1>1, MoneyAssumption DEF WalletTopup, WalletsOK
    <2> QED
      BY <1>1, <2>1, AnswerRun, SameTables DEF WalletTopup
  <1>2. ASSUME NEW u \in Users, NEW i \in ItemIds, NEW q \in Quantities,
               AddToCart(u, i, q)
        PROVE  TypeOK'
    <2>q. q \in Size
      BY SizeAssumption DEF Size
    <2>1. ASSUME lastRow < MaxRows,
                 carts' = Put(carts, lastRow + 1, CartRow(u, i, q)),
                 lastRow' = lastRow + 1
          PROVE  CartsOK'
      <3>1. CartRow(u, i, q) \in Row
        BY <2>q DEF CartRow, Row, ItemIds
      <3> QED
        BY <2>1, <3>1, BoundsAssumption DEF CartsOK, Put
    <2>2. ASSUME NEW r \in RowsFor(u, i), UNCHANGED lastRow,
                 carts' = [carts EXCEPT ![r].quantity = SizeAdd(@, q)]
          PROVE  CartsOK'
      <3>1. r \in DOMAIN carts /\ carts[r] \in Row /\ carts[r].quantity \in Size
        BY DEF RowsFor, RowsOf, CartsOK, Row
      <3>2. SizeAdd(carts[r].quantity, q) \in Size
        BY <3>1, <2>q, SizeClosed
      <3>3. [carts[r] EXCEPT !.quantity = SizeAdd(carts[r].quantity, q)] \in Row
        BY <3>1, <3>2 DEF Row
      <3> QED
        BY <2>2, <3>1, <3>3 DEF CartsOK
    <2>3. CartsOK'
      BY <1>2, <2>1, <2>2 DEF AddToCart, AddRow, RowsFor
    <2> QED
      BY <1>2, <2>3, AnswerRun, SameTables DEF AddToCart
  <1>3. ASSUME NEW u \in Users, NEW r \in RowIds, NEW q \in Quantities \cup {0},
               CartEdit(u, r, q)
        PROVE  TypeOK'
    <2>1. CASE r \notin RowsOf(u)
      BY <1>3, <2>1, <1>answer DEF CartEdit, db
    <2>2. CASE r \in RowsOf(u) /\ q = 0
      <3>1. CartsOK'
        BY <1>3, <2>2, KeepCarts DEF CartEdit
      <3> QED
        BY <1>3, <2>2, <3>1, AnswerRun, SameTables DEF CartEdit
    <2>3. CASE r \in RowsOf(u) /\ q # 0
      <3>1. q \in Size
        BY SizeAssumption DEF Size
      <3>2. carts' = [carts EXCEPT ![r].quantity = q] /\ UNCHANGED lastRow
        BY <1>3, <2>3 DEF CartEdit
      <3>3. r \in DOMAIN carts /\ [carts[r] EXCEPT !.quantity = q] \in Row
        BY <2>3, <3>1 DEF RowsOf, CartsOK, Row
      <3>4. CartsOK'
        BY <3>2, <3>3 DEF CartsOK
      <3> QED
        BY <1>3, <2>3, <3>4, AnswerRun, SameTables DEF CartEdit
    <2> QED
      BY <2>1, <2>2, <2>3
  <1>4. ASSUME NEW u \in Users, CheckoutStart(u) PROVE TypeOK'
    <2>1. RunOK'
      BY <1>4, UsersAssumption DEF CheckoutStart, RunOK, Ready, db, RowsOf, Nobody
    <2> QED
      BY <1>4, <2>1, SameTables DEF CheckoutStart, db
  <1>5. ASSUME NEW r \in pending, up, RowOrdered(r) PROVE TypeOK'
    <2>1. busy \in Users
      BY DEF RunOK
    <2>2. ItemsOK' /\ OrdersOK'
      BY <1>5, <2>1, CreateOrderType DEF RowOrdered
    <2>3. /\ CartsOK' /\ DOMAIN carts' = DOMAIN carts \ {r}
          /\ \A s \in DOMAIN carts' : carts'[s] = carts[s]
      BY <1>5, KeepCarts DEF RowOrdered, ClearRow
    <2>4. RunOK'
      BY <1>5, <2>3 DEF RowOrdered, RunOK
    <2> QED
      BY <1>5, <2>2, <2>3, <2>4, SameTables DEF RowOrdered
  <1>6. ASSUME NEW r \in pending, up, RowShort(r) PROVE TypeOK'
    <2>1. RunOK'
      BY <1>6 DEF RowShort, RunOK, db
    <2> QED
      BY <1>6, <2>1, SameTables DEF RowShort, db
  <1>7. CASE CheckoutRow
    BY <1>5, <1>6, <1>7, <1>crash DEF CheckoutRow, RowUnreadable
  <1>8. CASE CheckoutDone
    <2>1. RunOK'
      BY <1>8 DEF CheckoutDone, RunOK, db
    <2> QED
      BY <1>8, <2>1, SameTables DEF CheckoutDone, db
  <1>9. ASSUME NEW o \in OrderIds, PayAccepted(o) PROVE TypeOK'
    <2> DEFINE ord == orders[o]
               amount == Signed(ord.price)
    <2>1. ord \in Order /\ ord.price \in Int /\ ord.quantity \in Size
      BY <1>9 DEF PayAccepted, OrdersOK, Order
    <2>2. amount \in Int
      BY <2>1, MoneyAssumption DEF Signed
    <2>3. balance' = Transfer(balance, ord.customer, ord.seller, amount)
      BY <1>9 DEF PayAccepted
    <2>4. ord.customer \in Users /\ ord.seller \in Users
      BY <2>1 DEF Order
    <2>5. WalletsOK'
      BY <2>2, <2>3, <2>4 DEF WalletsOK, Transfer
    <2>6. CASE Readable(items, ord.item)
      <3>1. Sold(items[ord.item], ord.quantity) \in Item
        BY <2>1, <2>6, ItemChanges DEF Readable, ItemsOK
      <3>2. CloseOrder(o, Sold(items[ord.item], ord.quantity)) /\ Ready /\ Answer("success")
            /\ o \in DOMAIN orders
            /\ UNCHANGED <<carts, lastItem, lastOrder, lastRow>>
        BY <1>9, <2>6 DEF PayAccepted
      <3>3. ItemsOK' /\ OrdersOK'
        BY <2>6, <3>1, <3>2, CloseOrderType DEF Readable
      <3> QED
        BY <2>5, <3>2, <3>3, AnswerRun, SameTables
    <2>7. CASE ~Readable(items, ord.item)
      BY <1>9, <2>5, <2>7, CrashRun, SameTables DEF PayAccepted
    <2> QED
      BY <2>6, <2>7
  <1>10. ASSUME NEW o \in OrderIds, OrdersPay(o) PROVE TypeOK'
    BY <1>9, <1>10, <1>crash, <1>answer DEF OrdersPay, PayMissing, PayRefused
  <1>11. ASSUME NEW o \in OrderIds, CancelFound(o) PROVE TypeOK'
    <2> DEFINE ord == orders[o]
    <2>1. CASE Readable(items, ord.item)
      <3>1. items[ord.item] \in Item
        BY <2>1 DEF Readable, ItemsOK
      <3>2. CloseOrder(o, items[ord.item]) /\ Ready /\ Answer("success")
            /\ o \in DOMAIN orders
            /\ UNCHANGED <<balance, carts, lastItem, lastOrder, lastRow>>
        BY <1>11, <2>1 DEF CancelFound
      <3>3. ItemsOK' /\ OrdersOK'
        BY <2>1, <3>1, <3>2, CloseOrderType DEF Readable
      <3> QED
        BY <3>2, <3>3, AnswerRun, SameTables
    <2>2. CASE ~Readable(items, ord.item)
      BY <1>11, <2>2, <1>crash DEF CancelFound, db
    <2> QED
      BY <2>1, <2>2
  <1>12. ASSUME NEW o \in OrderIds, OrdersCancel(o) PROVE TypeOK'
    BY <1>11, <1>12, <1>answer DEF OrdersCancel, CancelMissing
  <1>13. ASSUME NEW s \in Sellers, NEW price \in Prices, NEW type \in Types,
                SellerAdd(s, price, type)
         PROVE  TypeOK'
    <2> DEFINE new == NewItem(s, price, type)
    <2>1. new \in Item
      BY UsersAssumption, MoneyAssumption, TypesAssumption, NewItemType
    <2>2. /\ items' = Put(items, lastItem + 1, new) /\ lastItem' = lastItem + 1
          /\ lastItem < MaxItems
      BY <1>13 DEF SellerAdd
    <2> HIDE DEF new
    <2>3. ItemsOK'
      BY <2>1, <2>2, BoundsAssumption DEF ItemsOK, Put
    <2>4. OrdersOK'
      BY <1>13, BoundsAssumption DEF SellerAdd, OrdersOK, ItemsOK, Order
    <2> QED
      BY <1>13, <2>3, <2>4, AnswerRun, SameTables DEF SellerAdd
  <1>14. ASSUME NEW i \in ItemIds, NEW price \in Int, NEW type \in Int,
                NEW stock \in Stocks, SellerEdit(i, price, type, stock)
         PROVE  TypeOK'
    <2>1. CASE items' = items
      BY <1>14, <2>1, <1>crash, <1>answer DEF SellerEdit, db
    <2>2. CASE items' # items
      <3>1. /\ i \in DOMAIN items /\ Answer("success") /\ Ready
            /\ items' = [items EXCEPT ![i].price = price, ![i].type = type]
            /\ UNCHANGED <<balance, orders, carts, lastItem, lastOrder, lastRow>>
        BY <1>14, <2>2 DEF SellerEdit, Readable
      <3>2. [[items[i] EXCEPT !.price = price] EXCEPT !.type = type] \in Item
        BY <3>1 DEF ItemsOK, Item
      <3>3. ItemsOK'
        BY <3>1, <3>2 DEF ItemsOK
      <3> QED
        BY <3>1, <3>3, AnswerRun, SameTables
    <2> QED
      BY <2>1, <2>2
  <1>15. ASSUME NEW i \in ItemIds, SellerEditInvalid(i) PROVE TypeOK'
    BY <1>15, <1>crash, <1>answer DEF SellerEditInvalid
  <1>16. ASSUME NEW i \in ItemIds, SellerRemove(i) PROVE TypeOK'
    <2>1. CASE Readable(items, i)
      <3>1. CartsOK'
        BY <1>16, <2>1, KeepCarts DEF SellerRemove, RowsWithoutItem
      <3>2. ItemsOK'
        BY <1>16, <2>1 DEF SellerRemove, ItemsOK, Keep
      <3> QED
        BY <1>16, <2>1, <3>1, <3>2, AnswerRun, SameTables DEF SellerRemove
    <2>2. CASE ~Readable(items, i)
      BY <1>16, <2>2, <1>crash DEF SellerRemove, db
    <2> QED
      BY <2>1, <2>2
  <1>17. ASSUME NEW s \in Sellers, NEW type \in Types, NEW discount \in Discounts,
                SellerSale(s, type, discount)
         PROVE  TypeOK'
    <2> DEFINE chosen == {i \in ItemsOf(s) : items[i].type = type}
    <2>1. CASE \A i \in chosen : Readable(items, i)
      <3>1. /\ items' = [i \in DOMAIN items |->
                           IF i \in chosen THEN [items[i] EXCEPT !.discount = discount]
                                           ELSE items[i]]
            /\ Ready /\ Answer("success")
            /\ UNCHANGED <<balance, orders, carts, lastItem, lastOrder, lastRow>>
        BY <1>17, <2>1 DEF SellerSale
      <3>2. \A i \in DOMAIN items : [items[i] EXCEPT !.discount = discount] \in Item
        BY MoneyAssumption DEF ItemsOK, Item
      <3>3. ItemsOK'
        BY <3>1, <3>2 DEF ItemsOK
      <3> QED
        BY <3>1, <3>3, AnswerRun, SameTables
    <2>2. CASE ~\A i \in chosen : Readable(items, i)
      BY <1>17, <2>2, <1>crash DEF SellerSale, db
    <2> QED
      BY <2>1, <2>2
  <1>18. CASE Kill
    BY <1>18, <1>crash DEF Kill
  <1>19. CASE Restart
    <2>1. RunOK'
      BY <1>19 DEF Restart, RunOK, db
    <2> QED
      BY <1>19, <2>1, SameTables DEF Restart, db
  <1>20. CASE UNCHANGED vars
    <2>1. RunOK'
      BY <1>20 DEF vars, run, RunOK, db
    <2> QED
      BY <1>20, <2>1, SameTables DEF vars, db
  <1>21. ASSUME NEW u \in Users, CustomerNext(u) PROVE TypeOK'
    BY <1>1, <1>2, <1>3, <1>4, <1>21, <1>read
       DEF CustomerNext, CartRemove, CartShow, OrdersShow
  <1>22. ASSUME NEW s \in Sellers, SellerNext(s) PROVE TypeOK'
    BY <1>13, <1>17, <1>22, <1>read DEF SellerNext, SellerList
  <1>23. ASSUME NEW i \in ItemIds, EditNext(i) PROVE TypeOK'
    <2>1. PICK stock \in Stocks,
               price \in Prices \cup {items[j].price : j \in DOMAIN items \cap {i}},
               type \in Types \cup {items[j].type : j \in DOMAIN items \cap {i}} :
                 SellerEdit(i, price, type, stock)
      BY <1>23 DEF EditNext
    <2>2. price \in Int /\ type \in Int
      BY MoneyAssumption, TypesAssumption DEF ItemsOK, Item
    <2> QED
      BY <2>1, <2>2, <1>14
  <1>24. CASE WalletShow \/ Search \/ InvalidInput
    BY <1>24, <1>read, <1>answer DEF WalletShow, Search, InvalidInput
  <1> QED
    BY <1>7, <1>8, <1>10, <1>12, <1>15, <1>16, <1>18, <1>19, <1>20, <1>21, <1>22,
       <1>23, <1>24
       DEF Next

\* The tables, the counters and the request in progress keep their types.
THEOREM TypeCorrect == Spec => []TypeOK
  <1>1. Init => TypeOK
    BY InitTypeOK
  <1>2. TypeOK /\ [Next]_vars => TypeOK'
    BY TypeStep
  <1> QED
    BY <1>1, <1>2, PTL DEF Spec

(* One unit per item, held by at most one order.  The invariant is inductive
   together with the types: an order names an item that was added before, so
   that no old order points at a new item, and its id is within the counter,
   so that a new id is no old one. *)

\* No items and no orders: nothing to disagree about.
LEMMA InitReserved == Init => OneUnitReserved
  BY DEF Init, Empty, OneUnitReserved

\* A step that keeps the orders, and the stock of the items that stay.
LEMMA SameStock ==
  ASSUME OneUnitReserved, UNCHANGED orders,
         DOMAIN items' \subseteq DOMAIN items,
         \A i \in DOMAIN items' : /\ items'[i].stock = items[i].stock
                                  /\ items'[i].frozen = items[i].frozen
  PROVE  OneUnitReserved'
  BY DEF OneUnitReserved, HoldsUnit

\* order::create takes the unit if it is free.
LEMMA CreateReserves ==
  ASSUME TypeOK, OneUnitReserved, NEW r \in pending, CreateOrder(r),
         Readable(items, carts[r].item)
  PROVE  OneUnitReserved'
  <1> DEFINE i == carts[r].item
             q == carts[r].quantity
             it == items[i]
             new == lastOrder + 1
  <1>1. /\ i \in DOMAIN items /\ i \in 1 .. MaxItems /\ it \in Item /\ q \in Size
    BY DEF Readable, TypeOK, ItemsOK, CartsOK, RunOK, Row
  <1>2. /\ it.stock \in {0, 1} /\ it.frozen <= it.stock
        /\ it.stock \in Size /\ it.frozen \in Size
    BY <1>1 DEF OneUnitReserved, Item
  <1>3. Available(it) >= q
    BY DEF CreateOrder
  <1>4. q \in {0, 1} /\ (q = 1 => it.stock = 1 /\ it.frozen = 0)
    BY <1>1, <1>2, <1>3, SizeAssumption DEF Available, SizeSub, Size
  <1>5. SizeAdd(it.frozen, q) = it.frozen + q
    BY <1>2, <1>4, SizeAssumption DEF SizeAdd, Size
  <1>6. /\ DOMAIN items' = DOMAIN items
        /\ \A j \in DOMAIN items : items'[j].stock = items[j].stock
        /\ \A j \in DOMAIN items : j # i => items'[j].frozen = items[j].frozen
        /\ items'[i].frozen = it.frozen + q
    BY <1>1, <1>5 DEF CreateOrder, Froze, TypeOK, ItemsOK, Item
  <1>7. new \notin DOMAIN orders
    BY BoundsAssumption DEF TypeOK, OrdersOK
  <1>8. /\ DOMAIN orders' = DOMAIN orders \cup {new}
        /\ \A o \in DOMAIN orders : orders'[o] = orders[o]
        /\ orders'[new].item = i /\ orders'[new].quantity = q
    BY <1>7 DEF CreateOrder, Put, NewOrder
  <1> HIDE DEF i, q, it, new
  <1>9. \A j \in DOMAIN items : /\ items[j].stock \in {0, 1}
                                /\ items[j].frozen <= items[j].stock
                                /\ items[j].frozen \in Int
    BY SizeAssumption DEF OneUnitReserved, TypeOK, ItemsOK, Item, Size
  <1>10. ASSUME NEW j \in DOMAIN items'
         PROVE  /\ items'[j].stock \in {0, 1}
                /\ items'[j].frozen <= items'[j].stock
                /\ items'[j].frozen = 1 <=> \E o \in DOMAIN orders' : HoldsUnit(o, j)'
    <2>1. CASE j # i
      BY <1>6, <1>7, <1>8, <1>9, <1>10, <2>1 DEF OneUnitReserved, HoldsUnit
    <2>2. CASE j = i /\ q = 0
      BY <1>1, <1>2, <1>6, <1>7, <1>8, <2>2, SizeAssumption
         DEF OneUnitReserved, HoldsUnit, it, Size
    <2>3. CASE j = i /\ q = 1
      BY <1>1, <1>2, <1>4, <1>6, <1>7, <1>8, <2>3 DEF OneUnitReserved, HoldsUnit, it
    <2> QED
      BY <1>4, <2>1, <2>2, <2>3
  <1>11. \A o \in DOMAIN orders' : orders'[o].quantity \in {0, 1}
    BY <1>4, <1>8 DEF OneUnitReserved
  <1>12. q = 1 => \A o \in DOMAIN orders : ~HoldsUnit(o, i)
    BY <1>1, <1>4 DEF OneUnitReserved, it
  <1>13. ASSUME NEW o \in DOMAIN orders', NEW p \in DOMAIN orders',
                orders'[p].quantity # 0, HoldsUnit(o, orders[p].item)'
         PROVE  o = p
    BY <1>4, <1>7, <1>8, <1>12, <1>13 DEF OneUnitReserved, HoldsUnit
  <1> QED
    BY <1>10, <1>11, <1>13 DEF OneUnitReserved

\* order::cancel gives the unit back, or, after it was sold, forgets it.
LEMMA CloseReleases ==
  ASSUME TypeOK, OneUnitReserved, NEW o \in DOMAIN orders,
         orders[o].item \in DOMAIN items,
         NEW it \in {items[orders[o].item],
                     Sold(items[orders[o].item], orders[o].quantity)},
         CloseOrder(o, it)
  PROVE  OneUnitReserved'
  <1> DEFINE i == orders[o].item
             q == orders[o].quantity
             was == items[i]
  <1>1. was \in Item /\ q \in Size /\ was.stock \in Size /\ was.frozen \in Size
    BY DEF TypeOK, ItemsOK, OrdersOK, Item, Order
  <1>2. /\ was.stock \in {0, 1} /\ was.frozen <= was.stock /\ q \in {0, 1}
        /\ q = 1 => was.frozen = 1
    BY DEF OneUnitReserved, HoldsUnit
  <1>3. /\ SizeSub(was.frozen, q) = was.frozen - q
        /\ SizeSub(was.stock, q) = was.stock - q
    BY <1>1, <1>2, SizeAssumption DEF SizeSub, Size
  <1>4. /\ it.frozen = was.frozen
        /\ it.stock \in {was.stock, was.stock - q}
        /\ Unfroze(it, q).frozen = was.frozen - q
        /\ Unfroze(it, q).stock = it.stock
    BY <1>1, <1>3 DEF Sold, Unfroze, Item
  <1>5. /\ DOMAIN items' = DOMAIN items
        /\ \A j \in DOMAIN items : j # i => items'[j] = items[j]
        /\ items'[i].frozen = was.frozen - q /\ items'[i].stock = it.stock
    BY <1>4 DEF CloseOrder, TypeOK, ItemsOK
  <1>6. /\ DOMAIN orders' = DOMAIN orders \ {o}
        /\ \A p \in DOMAIN orders' : orders'[p] = orders[p]
    BY DEF CloseOrder, Keep
  <1>7. \A p \in DOMAIN orders : q = 1 /\ HoldsUnit(p, i) => p = o
    BY DEF OneUnitReserved, HoldsUnit
  <1> HIDE DEF q, was
  <1>8. ASSUME NEW j \in DOMAIN items'
        PROVE  /\ items'[j].stock \in {0, 1}
               /\ items'[j].frozen <= items'[j].stock
               /\ items'[j].frozen = 1 <=> \E p \in DOMAIN orders' : HoldsUnit(p, j)'
    <2>1. CASE j # i
      BY <1>5, <1>6, <1>8, <2>1 DEF OneUnitReserved, HoldsUnit
    <2>2. CASE j = i /\ q = 0
      BY <1>1, <1>2, <1>4, <1>5, <1>6, <2>2, SizeAssumption
         DEF OneUnitReserved, HoldsUnit, was, q, Size
    <2>3. CASE j = i /\ q = 1
      <3>1. \A p \in DOMAIN orders' : orders'[p].item = i => orders'[p].quantity = 0
        BY <1>6, <1>7, <2>3 DEF HoldsUnit
      <3>2. items'[i].frozen = 0 /\ items'[i].stock \in {0, 1}
        BY <1>2, <1>4, <1>5, <2>3
      <3> QED
        BY <2>3, <3>1, <3>2 DEF HoldsUnit
    <2> QED
      BY <1>2, <2>1, <2>2, <2>3
  <1>9. \A p \in DOMAIN orders' : orders'[p].quantity \in {0, 1}
    BY <1>6 DEF OneUnitReserved
  <1>10. ASSUME NEW p \in DOMAIN orders', NEW s \in DOMAIN orders',
                orders'[s].quantity # 0, HoldsUnit(p, orders[s].item)'
         PROVE  p = s
    BY <1>6, <1>10 DEF OneUnitReserved, HoldsUnit
  <1> QED
    BY <1>8, <1>9, <1>10 DEF OneUnitReserved

\* seller_add: no order points at an item that was never there.
LEMMA AddReserves ==
  ASSUME TypeOK, OneUnitReserved, NEW s, NEW price, NEW type,
         SellerAdd(s, price, type)
  PROVE  OneUnitReserved'
  <1> DEFINE new == lastItem + 1
  <1>1. \A o \in DOMAIN orders : orders[o].item # new
    BY BoundsAssumption DEF TypeOK, OrdersOK, ItemsOK, Order
  <1>2. /\ DOMAIN items' = DOMAIN items \cup {new}
        /\ \A j \in DOMAIN items : j # new => items'[j] = items[j]
        /\ items'[new].stock = 1 /\ items'[new].frozen = 0
        /\ orders' = orders
    BY DEF SellerAdd, Put, NewItem
  <1> HIDE DEF new
  <1> QED
    BY <1>1, <1>2 DEF OneUnitReserved, HoldsUnit

\* Every request and every step of a checkout keep stock and orders in agreement.
LEMMA ReservedStep == TypeOK /\ OneUnitReserved /\ [Next]_vars => OneUnitReserved'
  <1> SUFFICES ASSUME TypeOK, OneUnitReserved, [Next]_vars PROVE OneUnitReserved'
    OBVIOUS
  <1>same. ASSUME UNCHANGED <<items, orders>> PROVE OneUnitReserved'
    BY <1>same, SameStock
  <1>read. ASSUME NEW is, ReadItems(is) PROVE OneUnitReserved'
    BY <1>read, <1>same DEF ReadItems, db
  <1>1. ASSUME NEW u \in Users, CustomerNext(u) PROVE OneUnitReserved'
    BY <1>1, <1>same, <1>read
       DEF CustomerNext, WalletTopup, AddToCart, CartRemove, CartEdit, CartShow,
           CheckoutStart, OrdersShow, db
  <1>2. ASSUME NEW s \in Sellers, NEW type \in Types, NEW discount \in Discounts,
               SellerSale(s, type, discount)
        PROVE  OneUnitReserved'
    <2>1. /\ DOMAIN items' = DOMAIN items
          /\ \A i \in DOMAIN items : /\ items'[i].stock = items[i].stock
                                     /\ items'[i].frozen = items[i].frozen
          /\ UNCHANGED orders
      BY <1>2 DEF SellerSale, TypeOK, ItemsOK, Item
    <2> QED
      BY <2>1, SameStock
  <1>3. ASSUME NEW s \in Sellers, SellerNext(s) PROVE OneUnitReserved'
    BY <1>2, <1>3, <1>read, AddReserves DEF SellerNext, SellerList
  <1>4. ASSUME NEW i, NEW price, NEW type, NEW stock, SellerEdit(i, price, type, stock)
        PROVE  OneUnitReserved'
    <2>1. /\ DOMAIN items' = DOMAIN items
          /\ \A j \in DOMAIN items : /\ items'[j].stock = items[j].stock
                                     /\ items'[j].frozen = items[j].frozen
          /\ UNCHANGED orders
      BY <1>4 DEF SellerEdit, TypeOK, ItemsOK, Item
    <2> QED
      BY <2>1, SameStock
  <1>5. ASSUME NEW i, SellerRemove(i) PROVE OneUnitReserved'
    <2>1. /\ DOMAIN items' \subseteq DOMAIN items
          /\ \A j \in DOMAIN items' : items'[j] = items[j]
          /\ UNCHANGED orders
      BY <1>5 DEF SellerRemove, Keep
    <2> QED
      BY <2>1, SameStock
  <1>6. ASSUME NEW i \in ItemIds, EditNext(i) \/ SellerEditInvalid(i) \/ SellerRemove(i)
        PROVE  OneUnitReserved'
    BY <1>4, <1>5, <1>6, <1>same DEF EditNext, SellerEditInvalid, db
  <1>7. ASSUME NEW o \in OrderIds, OrdersPay(o) PROVE OneUnitReserved'
    <2>1. CASE PayMissing(o) \/ PayRefused(o)
      BY <2>1, <1>same DEF PayMissing, PayRefused, db
    <2>2. CASE PayAccepted(o) /\ Readable(items, orders[o].item)
      BY <2>2, CloseReleases DEF PayAccepted, Readable
    <2>3. CASE PayAccepted(o) /\ ~Readable(items, orders[o].item)
      BY <2>3, <1>same DEF PayAccepted
    <2> QED
      BY <1>7, <2>1, <2>2, <2>3 DEF OrdersPay
  <1>8. ASSUME NEW o \in OrderIds, OrdersCancel(o) PROVE OneUnitReserved'
    <2>1. CASE CancelMissing(o)
      BY <2>1, <1>same DEF CancelMissing, db
    <2>2. CASE CancelFound(o) /\ Readable(items, orders[o].item)
      BY <2>2, CloseReleases DEF CancelFound, Readable
    <2>3. CASE CancelFound(o) /\ ~Readable(items, orders[o].item)
      BY <2>3, <1>same DEF CancelFound
    <2> QED
      BY <1>8, <2>1, <2>2, <2>3 DEF OrdersCancel
  <1>9. CASE CheckoutRow
    BY <1>9, <1>same, CreateReserves
       DEF CheckoutRow, RowOrdered, RowShort, RowUnreadable, db
  <1>10. CASE CheckoutDone \/ WalletShow \/ Search \/ InvalidInput
    BY <1>10, <1>same, <1>read DEF CheckoutDone, WalletShow, Search, InvalidInput, db
  <1>11. CASE Kill \/ Restart \/ UNCHANGED vars
    BY <1>11, <1>same DEF Kill, Restart, vars, db
  <1> QED
    BY <1>1, <1>3, <1>6, <1>7, <1>8, <1>9, <1>10, <1>11 DEF Next

\* For every number of items, orders and accounts: the one unit of an item is
\* frozen exactly while one open order holds it, and no second one does.
THEOREM StockCorrect == Spec => []OneUnitReserved
  <1>1. Init => TypeOK /\ OneUnitReserved
    BY InitTypeOK, InitReserved
  <1>2. TypeOK /\ OneUnitReserved /\ [Next]_vars => (TypeOK /\ OneUnitReserved)'
    BY TypeStep, ReservedStep
  <1> QED
    BY <1>1, <1>2, PTL DEF Spec

-----------------------------------------------------------------------------
(* The tables implement the ledger of units.  Types and OneUnitReserved say  *)
(* which order, if any, holds the unit of an item, so that the holder is a   *)
(* function of the tables and every request moves at most one unit.          *)

\* The ledger's view of the tables.
Units == [i \in ItemIds |-> UnitOf(i)]
Holders == [i \in ItemIds |-> HolderOf(i)]

\* The holder is the one order that holds the unit, before and after a step.
LEMMA HolderIs ==
  OneUnitReserved =>
    \A i : /\ \A o \in DOMAIN orders : HoldsUnit(o, i) => HolderOf(i) = o
           /\ (\A o \in DOMAIN orders : ~HoldsUnit(o, i)) => HolderOf(i) = 0
  <1> SUFFICES ASSUME OneUnitReserved, NEW i
               PROVE  /\ \A o \in DOMAIN orders : HoldsUnit(o, i) => HolderOf(i) = o
                      /\ (\A o \in DOMAIN orders : ~HoldsUnit(o, i)) => HolderOf(i) = 0
    OBVIOUS
  <1>1. \A o, p \in DOMAIN orders : HoldsUnit(o, i) /\ HoldsUnit(p, i) => o = p
    BY DEF OneUnitReserved, HoldsUnit
  <1> QED
    BY <1>1 DEF HolderOf

\* The same after a step.
LEMMA HolderIsNext ==
  OneUnitReserved' =>
    \A i : /\ \A o \in DOMAIN orders' : HoldsUnit(o, i)' => HolderOf(i)' = o
           /\ (\A o \in DOMAIN orders' : ~HoldsUnit(o, i)') => HolderOf(i)' = 0
  <1> SUFFICES ASSUME OneUnitReserved', NEW i
               PROVE  /\ \A o \in DOMAIN orders' : HoldsUnit(o, i)' => HolderOf(i)' = o
                      /\ (\A o \in DOMAIN orders' : ~HoldsUnit(o, i)') => HolderOf(i)' = 0
    OBVIOUS
  <1>1. \A o, p \in DOMAIN orders' : HoldsUnit(o, i)' /\ HoldsUnit(p, i)' => o = p
    BY DEF OneUnitReserved, HoldsUnit
  <1> QED
    BY <1>1 DEF HolderOf

\* An item whose holders stay has the holder it had.
LEMMA SameHolder ==
  ASSUME OneUnitReserved, OneUnitReserved', NEW i,
         \A o \in DOMAIN orders : HoldsUnit(o, i) => o \in DOMAIN orders' /\ HoldsUnit(o, i)',
         \A o \in DOMAIN orders' : HoldsUnit(o, i)' => o \in DOMAIN orders /\ HoldsUnit(o, i)
  PROVE  HolderOf(i)' = HolderOf(i)
  <1>1. CASE \E o \in DOMAIN orders : HoldsUnit(o, i)
    BY <1>1, HolderIs, HolderIsNext
  <1>2. CASE \A o \in DOMAIN orders : ~HoldsUnit(o, i)
    BY <1>2, HolderIs, HolderIsNext
  <1> QED
    BY <1>1, <1>2

\* A step that moves no unit.
LEMMA NoUnitMoves ==
  ASSUME TypeOK, UNCHANGED <<orders, lastItem, lastOrder>>,
         DOMAIN items' = DOMAIN items,
         \A i \in DOMAIN items : /\ items'[i].stock = items[i].stock
                                 /\ items'[i].frozen = items[i].frozen
  PROVE  UNCHANGED <<Units, Holders, lastOrder>>
  <1>1. \A i : UnitOf(i)' = UnitOf(i)
    BY DEF UnitOf
  <1>2. \A i : HolderOf(i)' = HolderOf(i)
    BY DEF HolderOf, HoldsUnit
  <1> QED
    BY <1>1, <1>2 DEF Units, Holders

\* The unit of one item changes its place.
LEMMA OneUnitMoves ==
  ASSUME NEW i \in ItemIds, NEW place, UnitOf(i)' = place,
         \A j \in ItemIds : j # i => UnitOf(j)' = UnitOf(j)
  PROVE  Units' = [Units EXCEPT ![i] = place]
  BY DEF Units

\* The holder of one item changes.
LEMMA OneHolderChanges ==
  ASSUME NEW i \in ItemIds, NEW o, HolderOf(i)' = o,
         \A j \in ItemIds : j # i => HolderOf(j)' = HolderOf(j)
  PROVE  Holders' = [Holders EXCEPT ![i] = o]
  BY DEF Holders

\* order::create for a quantity takes the unit, for none it burns an id.
LEMMA CreateMoves ==
  ASSUME TypeOK, OneUnitReserved, OneUnitReserved', NEW r \in pending, CreateOrder(r),
         Readable(items, carts[r].item), UNCHANGED lastItem
  PROVE  Ledger!Next
  <1>i. PICK i, q : i = carts[r].item /\ q = carts[r].quantity
    OBVIOUS
  <1> DEFINE it == items[i]
             new == lastOrder + 1
  <1>1. /\ i \in DOMAIN items /\ i \in ItemIds /\ i <= lastItem
        /\ it \in Item /\ q \in Size
    BY <1>i DEF Readable, TypeOK, ItemsOK, CartsOK, RunOK, Row, ItemIds
  <1>2. /\ it.stock \in {0, 1} /\ it.frozen <= it.stock
        /\ it.stock \in Size /\ it.frozen \in Size
    BY <1>1 DEF OneUnitReserved, Item
  <1>3. Available(it) >= q
    BY <1>i DEF CreateOrder
  <1>4. q \in {0, 1} /\ (q = 1 => it.stock = 1 /\ it.frozen = 0)
    BY <1>1, <1>2, <1>3, SizeAssumption DEF Available, SizeSub, Size
  <1>5. SizeAdd(it.frozen, q) = it.frozen + q
    BY <1>2, <1>4, SizeAssumption DEF SizeAdd, Size
  <1>6. /\ DOMAIN items' = DOMAIN items
        /\ \A j \in DOMAIN items : items'[j].stock = items[j].stock
        /\ \A j \in DOMAIN items : j # i => items'[j].frozen = items[j].frozen
        /\ items'[i].frozen = it.frozen + q
    BY <1>i, <1>1, <1>5 DEF CreateOrder, Froze, TypeOK, ItemsOK, Item
  <1>7. new \notin DOMAIN orders
    BY BoundsAssumption DEF TypeOK, OrdersOK
  <1>8. /\ DOMAIN orders' = DOMAIN orders \cup {new}
        /\ \A o \in DOMAIN orders : orders'[o] = orders[o]
        /\ orders'[new].item = i /\ orders'[new].quantity = q
    BY <1>i, <1>7 DEF CreateOrder, Put, NewOrder
  <1>9. lastOrder' = new
    BY DEF CreateOrder
  <1> HIDE DEF it, new
  <1>10. \A j \in ItemIds : j # i => UnitOf(j)' = UnitOf(j)
    BY <1>6 DEF UnitOf
  <1>11. \A j \in ItemIds : j # i => HolderOf(j)' = HolderOf(j)
    BY <1>7, <1>8, SameHolder DEF HoldsUnit
  <1>12. CASE q = 0
    <2>1. items'[i].frozen = items[i].frozen /\ UnitOf(i)' = UnitOf(i)
      BY <1>1, <1>2, <1>6, <1>12, SizeAssumption DEF UnitOf, it, Size
    <2>2. HolderOf(i)' = HolderOf(i)
      BY <1>7, <1>8, <1>12, SameHolder DEF HoldsUnit
    <2>3. UNCHANGED <<Units, Holders>>
      BY <1>10, <1>11, <2>1, <2>2 DEF Units, Holders
    <2> QED
      BY <1>9, <2>3 DEF Ledger!Next, Ledger!Burn, Units, Holders, new
  <1>13. CASE q = 1
    <2>1. UnitOf(i) = "free"
      BY <1>1, <1>4, <1>13, BoundsAssumption DEF UnitOf, it, ItemIds, TypeOK, ItemsOK
    <2>2. UnitOf(i)' = "held"
      BY <1>1, <1>2, <1>4, <1>6, <1>13, BoundsAssumption
         DEF UnitOf, it, ItemIds, TypeOK, ItemsOK
    <2>3. HolderOf(i)' = new
      BY <1>8, <1>13, HolderIsNext DEF HoldsUnit
    <2>4. /\ Units[i] = "free"
          /\ Units' = [Units EXCEPT ![i] = "held"]
          /\ Holders' = [Holders EXCEPT ![i] = lastOrder']
      BY <1>1, <1>9, <1>10, <1>11, <2>1, <2>2, <2>3, OneUnitMoves, OneHolderChanges
         DEF Units
    <2>5. Ledger!Hold(i)
      BY <1>9, <2>4 DEF Ledger!Hold, Ledger!Move, Units, Holders, new
    <2> QED
      BY <1>1, <2>5 DEF Ledger!Next, Ledger!ItemIds, ItemIds
  <1> QED
    BY <1>4, <1>12, <1>13

\* order::cancel gives the unit back, after sold it is gone; for a quantity of
\* none nothing moves.
LEMMA CloseMoves ==
  ASSUME TypeOK, OneUnitReserved, OneUnitReserved', NEW o \in DOMAIN orders,
         orders[o].item \in DOMAIN items,
         NEW it \in {items[orders[o].item],
                     Sold(items[orders[o].item], orders[o].quantity)},
         CloseOrder(o, it), UNCHANGED <<lastItem, lastOrder>>
  PROVE  Ledger!Next \/ UNCHANGED <<Units, Holders, lastOrder>>
  <1>i. PICK i, q : i = orders[o].item /\ q = orders[o].quantity
    OBVIOUS
  <1> DEFINE was == items[i]
  <1>1. was \in Item /\ q \in Size /\ was.stock \in Size /\ was.frozen \in Size
    BY <1>i DEF TypeOK, ItemsOK, OrdersOK, Item, Order
  <1>2. /\ was.stock \in {0, 1} /\ was.frozen <= was.stock /\ q \in {0, 1}
        /\ q = 1 => was.frozen = 1
    BY <1>i DEF OneUnitReserved, HoldsUnit
  <1>3. /\ SizeSub(was.frozen, q) = was.frozen - q
        /\ SizeSub(was.stock, q) = was.stock - q
    BY <1>1, <1>2, SizeAssumption DEF SizeSub, Size
  <1>4. /\ it.frozen = was.frozen
        /\ it.stock \in {was.stock, was.stock - q}
        /\ Unfroze(it, q).frozen = was.frozen - q
        /\ Unfroze(it, q).stock = it.stock
    BY <1>i, <1>1, <1>3 DEF Sold, Unfroze, Item
  <1>5. /\ DOMAIN items' = DOMAIN items
        /\ \A j \in DOMAIN items : j # i => items'[j] = items[j]
        /\ items'[i].frozen = was.frozen - q /\ items'[i].stock = it.stock
    BY <1>i, <1>4 DEF CloseOrder, TypeOK, ItemsOK
  <1>6. /\ DOMAIN orders' = DOMAIN orders \ {o}
        /\ \A p \in DOMAIN orders' : orders'[p] = orders[p]
    BY DEF CloseOrder, Keep
  <1>7. i \in ItemIds /\ i \in DOMAIN items /\ i <= lastItem
    BY <1>i DEF TypeOK, OrdersOK, Order, ItemIds
  <1>8. \A p \in DOMAIN orders : q = 1 /\ HoldsUnit(p, i) => p = o
    BY <1>i DEF OneUnitReserved, HoldsUnit
  <1> HIDE DEF was
  <1>9. \A j \in ItemIds : j # i => UnitOf(j)' = UnitOf(j)
    BY <1>5 DEF UnitOf
  <1>10. \A j \in ItemIds : j # i => HolderOf(j)' = HolderOf(j)
    BY <1>6, <1>i, SameHolder DEF HoldsUnit
  <1>11. CASE q = 0
    <2>1. UnitOf(i)' = UnitOf(i)
      BY <1>1, <1>4, <1>5, <1>11, SizeAssumption DEF UnitOf, was, Size
    <2>2. HolderOf(i)' = HolderOf(i)
      BY <1>6, <1>i, <1>11, SameHolder DEF HoldsUnit
    <2> QED
      BY <1>9, <1>10, <2>1, <2>2 DEF Units, Holders
  <1>12. CASE q = 1
    <2>1. HolderOf(i)' = 0
      BY <1>6, <1>8, <1>12, HolderIsNext DEF HoldsUnit
    <2>2. Holders' = [Holders EXCEPT ![i] = 0]
      BY <1>7, <1>10, <2>1, OneHolderChanges
    <2>3. i \in Int /\ lastItem \in Int /\ ~(i > lastItem)
      BY <1>7, BoundsAssumption DEF ItemIds, TypeOK, ItemsOK
    <2>4. was.stock = 1 /\ was.frozen = 1
      BY <1>1, <1>2, <1>12, SizeAssumption DEF Size
    <2>5. UnitOf(i) = "held"
      BY <1>7, <2>3, <2>4 DEF UnitOf, was
    <2>6. CASE it.stock = 1
      <3>1. UnitOf(i)' = "free"
        BY <1>5, <1>7, <1>12, <2>3, <2>4, <2>6 DEF UnitOf
      <3>2. Units[i] = "held" /\ Units' = [Units EXCEPT ![i] = "free"]
        BY <1>7, <1>9, <2>5, <3>1, OneUnitMoves DEF Units
      <3>3. Ledger!Release(i)
        BY <2>2, <3>2 DEF Ledger!Release, Ledger!Move, Units, Holders
      <3> QED
        BY <1>7, <3>3 DEF Ledger!Next, Ledger!ItemIds, ItemIds
    <2>7. CASE it.stock = 0
      <3>1. UnitOf(i)' = "sold"
        BY <1>5, <1>7, <2>3, <2>7 DEF UnitOf
      <3>2. Units[i] = "held" /\ Units' = [Units EXCEPT ![i] = "sold"]
        BY <1>7, <1>9, <2>5, <3>1, OneUnitMoves DEF Units
      <3>3. Ledger!Sell(i)
        BY <2>2, <3>2 DEF Ledger!Sell, Ledger!Move, Units, Holders
      <3> QED
        BY <1>7, <3>3 DEF Ledger!Next, Ledger!ItemIds, ItemIds
    <2> QED
      BY <1>4, <1>12, <2>4, <2>6, <2>7
  <1> QED
    BY <1>2, <1>11, <1>12

\* seller_add lists the unit of a new item, which nobody holds.
LEMMA AddMoves ==
  ASSUME TypeOK, OneUnitReserved, OneUnitReserved', NEW s, NEW price, NEW type,
         SellerAdd(s, price, type)
  PROVE  Ledger!Next
  <1>i. PICK i : i = lastItem + 1
    OBVIOUS
  <1>1. /\ i \in ItemIds /\ i \notin DOMAIN items /\ lastItem \in Int
        /\ lastItem' = i /\ UNCHANGED <<orders, lastOrder>>
    BY <1>i, BoundsAssumption DEF SellerAdd, TypeOK, ItemsOK, ItemIds
  <1>2. /\ DOMAIN items' = DOMAIN items \cup {i}
        /\ \A j \in DOMAIN items : items'[j] = items[j]
        /\ items'[i].stock = 1 /\ items'[i].frozen = 0
    BY <1>i, <1>1 DEF SellerAdd, Put, NewItem
  <1>3. UnitOf(i) = "unlisted" /\ UnitOf(i)' = "free"
    BY <1>i, <1>1, <1>2 DEF UnitOf
  <1>4. ASSUME NEW j \in ItemIds, j # i PROVE UnitOf(j)' = UnitOf(j)
    <2>1. j \in Int /\ (j > i <=> j > lastItem)
      BY <1>i, <1>1, <1>4 DEF ItemIds
    <2> QED
      BY <1>1, <1>2, <1>4, <2>1 DEF UnitOf
  <1>5. UNCHANGED Holders
    BY <1>1 DEF Holders, HolderOf, HoldsUnit
  <1>6. Units[i] = "unlisted" /\ Units' = [Units EXCEPT ![i] = "free"]
    BY <1>1, <1>3, <1>4, OneUnitMoves DEF Units
  <1>7. Ledger!List(i)
    BY <1>1, <1>5, <1>6 DEF Ledger!List, Ledger!Move, Units, Holders
  <1> QED
    BY <1>1, <1>7 DEF Ledger!Next, Ledger!ItemIds, ItemIds

\* base_item::remove takes the unit away and leaves its order.
LEMMA RemoveMoves ==
  ASSUME TypeOK, NEW i \in ItemIds, SellerRemove(i), Readable(items, i)
  PROVE  Ledger!Next
  <1>1. /\ i \in DOMAIN items /\ DOMAIN items' = DOMAIN items \ {i}
        /\ \A j \in DOMAIN items' : items'[j] = items[j]
        /\ UNCHANGED <<orders, lastItem, lastOrder>>
    BY DEF SellerRemove, Keep, Readable
  <1>2. lastItem \in Int /\ i \in Int /\ ~(i > lastItem)
    BY <1>1, BoundsAssumption DEF TypeOK, ItemsOK
  <1>3. UnitOf(i) \in {"free", "held", "sold"} /\ UnitOf(i)' = "withdrawn"
    BY <1>1, <1>2 DEF UnitOf
  <1>4. \A j \in ItemIds : j # i => UnitOf(j)' = UnitOf(j)
    BY <1>1 DEF UnitOf
  <1>5. UNCHANGED Holders
    BY <1>1 DEF Holders, HolderOf, HoldsUnit
  <1>6. Units[i] \in {"free", "held", "sold"}
        /\ Units' = [Units EXCEPT ![i] = "withdrawn"]
    BY <1>3, <1>4, OneUnitMoves DEF Units
  <1>7. Ledger!Withdraw(i)
    BY <1>1, <1>5, <1>6 DEF Ledger!Withdraw, Units, Holders
  <1> QED
    BY <1>7 DEF Ledger!Next, Ledger!ItemIds, ItemIds

\* Every step of the market moves at most one unit, the way the ledger allows.
LEMMA LedgerStep ==
  TypeOK /\ OneUnitReserved /\ OneUnitReserved' /\ [Next]_vars
    => [Ledger!Next]_(Ledger!ledger)
  <1> DEFINE Goal == Ledger!Next \/ UNCHANGED <<Units, Holders, lastOrder>>
  <1> SUFFICES ASSUME TypeOK, OneUnitReserved, OneUnitReserved', [Next]_vars PROVE Goal
    BY DEF Ledger!ledger, Units, Holders
  <1>edit. ASSUME UNCHANGED <<orders, lastItem, lastOrder>>,
                  DOMAIN items' = DOMAIN items,
                  \A i \in DOMAIN items : /\ items'[i].stock = items[i].stock
                                          /\ items'[i].frozen = items[i].frozen
           PROVE  Goal
    BY <1>edit, NoUnitMoves
  <1> HIDE DEF Goal
  <1>same. ASSUME UNCHANGED <<items, orders, lastItem, lastOrder>> PROVE Goal
    BY <1>same, <1>edit
  <1>read. ASSUME NEW is, ReadItems(is) PROVE Goal
    BY <1>read, <1>same DEF ReadItems, db
  <1>1. ASSUME NEW u \in Users, CustomerNext(u) PROVE Goal
    BY <1>1, <1>same, <1>read
       DEF CustomerNext, WalletTopup, AddToCart, CartRemove, CartEdit, CartShow,
           CheckoutStart, OrdersShow, db
  <1>2. ASSUME NEW s \in Sellers, NEW type \in Types, NEW discount \in Discounts,
               SellerSale(s, type, discount)
        PROVE  Goal
    <2>1. /\ DOMAIN items' = DOMAIN items
          /\ \A i \in DOMAIN items : /\ items'[i].stock = items[i].stock
                                     /\ items'[i].frozen = items[i].frozen
          /\ UNCHANGED <<orders, lastItem, lastOrder>>
      BY <1>2 DEF SellerSale, TypeOK, ItemsOK, Item
    <2> QED
      BY <2>1, <1>edit
  <1>3. ASSUME NEW s \in Sellers, SellerNext(s) PROVE Goal
    BY <1>2, <1>3, <1>read, AddMoves DEF SellerNext, SellerList, Goal
  <1>4. ASSUME NEW i, NEW price, NEW type, NEW stock, SellerEdit(i, price, type, stock)
        PROVE  Goal
    <2>1. /\ DOMAIN items' = DOMAIN items
          /\ \A j \in DOMAIN items : /\ items'[j].stock = items[j].stock
                                     /\ items'[j].frozen = items[j].frozen
          /\ UNCHANGED <<orders, lastItem, lastOrder>>
      BY <1>4 DEF SellerEdit, TypeOK, ItemsOK, Item
    <2> QED
      BY <2>1, <1>edit
  <1>5. ASSUME NEW i \in ItemIds, SellerRemove(i) PROVE Goal
    <2>1. CASE Readable(items, i)
      BY <1>5, <2>1, RemoveMoves DEF Goal
    <2>2. CASE ~Readable(items, i)
      BY <1>5, <2>2, <1>same DEF SellerRemove
    <2> QED
      BY <2>1, <2>2
  <1>6. ASSUME NEW i \in ItemIds, EditNext(i) \/ SellerEditInvalid(i) \/ SellerRemove(i)
        PROVE  Goal
    BY <1>4, <1>5, <1>6, <1>same DEF EditNext, SellerEditInvalid, db
  <1>7. ASSUME NEW o \in OrderIds, OrdersPay(o) PROVE Goal
    <2>1. CASE PayMissing(o) \/ PayRefused(o)
      BY <2>1, <1>same DEF PayMissing, PayRefused, db
    <2>2. CASE PayAccepted(o) /\ Readable(items, orders[o].item)
      BY <2>2, CloseMoves DEF PayAccepted, Readable, Goal
    <2>3. CASE PayAccepted(o) /\ ~Readable(items, orders[o].item)
      BY <2>3, <1>same DEF PayAccepted
    <2> QED
      BY <1>7, <2>1, <2>2, <2>3 DEF OrdersPay
  <1>8. ASSUME NEW o \in OrderIds, OrdersCancel(o) PROVE Goal
    <2>1. CASE CancelMissing(o)
      BY <2>1, <1>same DEF CancelMissing, db
    <2>2. CASE CancelFound(o) /\ Readable(items, orders[o].item)
      BY <2>2, CloseMoves DEF CancelFound, Readable, Goal
    <2>3. CASE CancelFound(o) /\ ~Readable(items, orders[o].item)
      BY <2>3, <1>same DEF CancelFound
    <2> QED
      BY <1>8, <2>1, <2>2, <2>3 DEF OrdersCancel
  <1>9. CASE CheckoutRow
    BY <1>9, <1>same, CreateMoves
       DEF CheckoutRow, RowOrdered, RowShort, RowUnreadable, db, Goal
  <1>10. CASE CheckoutDone \/ WalletShow \/ Search \/ InvalidInput
    BY <1>10, <1>same, <1>read DEF CheckoutDone, WalletShow, Search, InvalidInput, db
  <1>11. CASE Kill \/ Restart \/ UNCHANGED vars
    BY <1>11, <1>same DEF Kill, Restart, vars, db
  <1> QED
    BY <1>1, <1>3, <1>6, <1>7, <1>8, <1>9, <1>10, <1>11 DEF Next

\* For every number of accounts, items and orders, every price and any width of
\* size_t: each request moves at most one unit, and the way the ledger says, so
\* that no unit is promised twice, sold twice, or sold and given back.
THEOREM LedgerCorrect == Spec => ImplementsLedger
  <1>1. Init => Ledger!Init
    BY DEF Init, Ledger!Init, Ledger!ItemIds, ItemIds, UnitOf, HolderOf, Empty
  <1>2. Spec => [](TypeOK /\ OneUnitReserved)
    BY TypeCorrect, StockCorrect, PTL
  <1>3. TypeOK /\ OneUnitReserved /\ OneUnitReserved' /\ [Next]_vars
          => [Ledger!Next]_(Ledger!ledger)
    BY LedgerStep
  <1> QED
    BY <1>1, <1>2, <1>3, PTL DEF Spec, ImplementsLedger, Ledger!Spec

-----------------------------------------------------------------------------
(* Carts: a user never has two rows for one item, and an item that is       *)
(* removed is in no cart afterwards.  Orders: each leaves the table paid or *)
(* given back, never half of each.  Money: it leaves a wallet only for an   *)
(* order, which it closes.                                                  *)

\* Rows that stay as they were, but for their quantities, stay one per item.
LEMMA FewerRows ==
  ASSUME OneRowPerItem, DOMAIN carts' \subseteq DOMAIN carts,
         \A r \in DOMAIN carts' : /\ carts'[r].user = carts[r].user
                                  /\ carts'[r].item = carts[r].item
  PROVE  OneRowPerItem'
  BY DEF OneRowPerItem

\* cart::add inserts a row only if it found none for that item.
LEMMA AddRowKeepsOne ==
  ASSUME TypeOK, OneRowPerItem, NEW u, NEW i, NEW q, AddRow(u, i, q)
  PROVE  OneRowPerItem'
  <1>1. CASE RowsFor(u, i) = {} /\ carts' = Put(carts, lastRow + 1, CartRow(u, i, q))
    <2>1. lastRow + 1 \notin DOMAIN carts
      BY BoundsAssumption DEF TypeOK, CartsOK
    <2>2. /\ DOMAIN carts' = DOMAIN carts \cup {lastRow + 1}
          /\ \A r \in DOMAIN carts : carts'[r] = carts[r]
          /\ carts'[lastRow + 1].user = u /\ carts'[lastRow + 1].item = i
      BY <1>1, <2>1 DEF Put, CartRow
    <2> QED
      BY <1>1, <2>1, <2>2 DEF OneRowPerItem, RowsFor, RowsOf
  <1>2. ASSUME NEW r \in RowsFor(u, i),
               carts' = [carts EXCEPT ![r].quantity = SizeAdd(@, q)]
        PROVE  OneRowPerItem'
    <2>1. /\ DOMAIN carts' = DOMAIN carts
          /\ \A s \in DOMAIN carts : /\ carts'[s].user = carts[s].user
                                     /\ carts'[s].item = carts[s].item
      BY <1>2 DEF TypeOK, CartsOK, Row, RowsFor, RowsOf
    <2> QED
      BY <2>1, FewerRows
  <1> QED
    BY <1>1, <1>2 DEF AddRow

\* Every request and every step of a checkout keep one row per item.
LEMMA OneRowStep == TypeOK /\ OneRowPerItem /\ [Next]_vars => OneRowPerItem'
  <1> SUFFICES ASSUME TypeOK, OneRowPerItem, [Next]_vars PROVE OneRowPerItem'
    OBVIOUS
  <1>same. ASSUME UNCHANGED carts PROVE OneRowPerItem'
    BY <1>same, FewerRows
  <1>keep. ASSUME NEW S, carts' = Keep(carts, S) PROVE OneRowPerItem'
    BY <1>keep, FewerRows DEF Keep
  <1>read. ASSUME NEW is, ReadItems(is) PROVE OneRowPerItem'
    BY <1>read, <1>same DEF ReadItems, db
  <1>1. ASSUME NEW u \in Users, NEW r, NEW q, CartEdit(u, r, q) PROVE OneRowPerItem'
    <2>1. CASE carts' = [carts EXCEPT ![r].quantity = q]
      <3>1. /\ DOMAIN carts' = DOMAIN carts
            /\ \A s \in DOMAIN carts : /\ carts'[s].user = carts[s].user
                                       /\ carts'[s].item = carts[s].item
        BY <2>1 DEF TypeOK, CartsOK, Row
      <3> QED
        BY <3>1, FewerRows
    <2> QED
      BY <1>1, <2>1, <1>same, <1>keep DEF CartEdit
  <1>2. ASSUME NEW u \in Users, CustomerNext(u) PROVE OneRowPerItem'
    BY <1>1, <1>2, <1>same, <1>read, AddRowKeepsOne
       DEF CustomerNext, WalletTopup, AddToCart, CartRemove, CartShow,
           CheckoutStart, OrdersShow, db
  <1>3. ASSUME NEW s \in Sellers, SellerNext(s) PROVE OneRowPerItem'
    BY <1>3, <1>same, <1>read DEF SellerNext, SellerAdd, SellerSale, SellerList
  <1>4. ASSUME NEW i \in ItemIds, EditNext(i) \/ SellerEditInvalid(i) \/ SellerRemove(i)
        PROVE  OneRowPerItem'
    BY <1>4, <1>same, <1>keep
       DEF EditNext, SellerEdit, SellerEditInvalid, SellerRemove, RowsWithoutItem, db
  <1>5. ASSUME NEW o \in OrderIds, OrdersPay(o) \/ OrdersCancel(o) PROVE OneRowPerItem'
    BY <1>5, <1>same
       DEF OrdersPay, PayMissing, PayRefused, PayAccepted, OrdersCancel,
           CancelMissing, CancelFound, db
  <1>6. CASE CheckoutRow
    BY <1>6, <1>same, <1>keep
       DEF CheckoutRow, RowOrdered, RowShort, RowUnreadable, ClearRow, db
  <1>7. CASE CheckoutDone \/ WalletShow \/ Search \/ InvalidInput
    BY <1>7, <1>same, <1>read DEF CheckoutDone, WalletShow, Search, InvalidInput, db
  <1>8. CASE Kill \/ Restart \/ UNCHANGED vars
    BY <1>8, <1>same DEF Kill, Restart, vars, db
  <1> QED
    BY <1>2, <1>3, <1>4, <1>5, <1>6, <1>7, <1>8 DEF Next

\* For any number of users and rows: cart::add always finds the row an earlier
\* one made, and nothing else makes rows.
THEOREM CartsCorrect == Spec => []OneRowPerItem
  <1>1. Init => OneRowPerItem
    BY DEF Init, Empty, OneRowPerItem
  <1>2. TypeOK /\ OneRowPerItem /\ [Next]_vars => OneRowPerItem'
    BY OneRowStep
  <1> QED
    BY <1>1, <1>2, TypeCorrect, PTL DEF Spec

-----------------------------------------------------------------------------
\* What a step that takes an item or an order out of its table can be.
LEMMA WhatRemoves ==
  ASSUME TypeOK, [Next]_vars
  PROVE  /\ \A i \in DOMAIN items \ DOMAIN items' : SellerRemove(i) /\ Readable(items, i)
         /\ \A o \in DOMAIN orders \ DOMAIN orders' :
              /\ Readable(items, orders[o].item)
              /\ PayAccepted(o) \/ CancelFound(o)
  <1> DEFINE Goal ==
        /\ \A i \in DOMAIN items \ DOMAIN items' : SellerRemove(i) /\ Readable(items, i)
        /\ \A o \in DOMAIN orders \ DOMAIN orders' :
             /\ Readable(items, orders[o].item)
             /\ PayAccepted(o) \/ CancelFound(o)
  <1> SUFFICES Goal
    OBVIOUS
  <1>keep. ASSUME DOMAIN items \subseteq DOMAIN items', DOMAIN orders \subseteq DOMAIN orders'
           PROVE  Goal
    BY <1>keep
  <1>close. ASSUME NEW o, PayAccepted(o) \/ CancelFound(o) PROVE Goal
    <2>1. DOMAIN items' = DOMAIN items
      BY <1>close DEF PayAccepted, CancelFound, CloseOrder, TypeOK, ItemsOK
    <2>2. DOMAIN orders' \in {DOMAIN orders, DOMAIN orders \ {o}}
          /\ (~Readable(items, orders[o].item) => orders' = orders)
      BY <1>close DEF PayAccepted, CancelFound, CloseOrder, Keep
    <2> QED
      BY <1>close, <2>1, <2>2
  <1>remove. ASSUME NEW i, SellerRemove(i) PROVE Goal
    <2>1. orders' = orders
      BY <1>remove DEF SellerRemove
    <2>2. DOMAIN items \ DOMAIN items' \subseteq {i}
          /\ (~Readable(items, i) => items' = items)
      BY <1>remove DEF SellerRemove, Keep
    <2> QED
      BY <1>remove, <2>1, <2>2
  <1> HIDE DEF Goal
  <1>same. ASSUME UNCHANGED <<items, orders>> PROVE Goal
    BY <1>same, <1>keep
  <1>read. ASSUME NEW is, ReadItems(is) PROVE Goal
    BY <1>read, <1>same DEF ReadItems, db
  <1>1. ASSUME NEW u \in Users, CustomerNext(u) PROVE Goal
    BY <1>1, <1>same, <1>read
       DEF CustomerNext, WalletTopup, AddToCart, CartRemove, CartEdit, CartShow,
           CheckoutStart, OrdersShow, db
  <1>2. ASSUME NEW s \in Sellers, SellerNext(s) PROVE Goal
    <2>1. ASSUME NEW price, NEW type, SellerAdd(s, price, type) PROVE Goal
      BY <2>1, <1>keep DEF SellerAdd, Put
    <2>2. ASSUME NEW type, NEW discount, SellerSale(s, type, discount) PROVE Goal
      BY <2>2, <1>keep DEF SellerSale
    <2> QED
      BY <1>2, <2>1, <2>2, <1>read DEF SellerNext, SellerList
  <1>3. ASSUME NEW i, NEW price, NEW type, NEW stock, SellerEdit(i, price, type, stock)
        PROVE  Goal
    BY <1>3, <1>keep DEF SellerEdit, TypeOK, ItemsOK
  <1>4. ASSUME NEW i \in ItemIds, EditNext(i) \/ SellerEditInvalid(i) \/ SellerRemove(i)
        PROVE  Goal
    BY <1>3, <1>4, <1>same, <1>remove DEF EditNext, SellerEditInvalid, db
  <1>5. ASSUME NEW o \in OrderIds, OrdersPay(o) \/ OrdersCancel(o) PROVE Goal
    BY <1>5, <1>same, <1>close
       DEF OrdersPay, PayMissing, PayRefused, OrdersCancel, CancelMissing, db
  <1>6. CASE CheckoutRow
    <2>1. ASSUME NEW r, CreateOrder(r) PROVE Goal
      BY <2>1, <1>keep DEF CreateOrder, Put, TypeOK, ItemsOK
    <2> QED
      BY <1>6, <2>1, <1>same DEF CheckoutRow, RowOrdered, RowShort, RowUnreadable, db
  <1>7. CASE CheckoutDone \/ WalletShow \/ Search \/ InvalidInput
    BY <1>7, <1>same, <1>read DEF CheckoutDone, WalletShow, Search, InvalidInput, db
  <1>8. CASE Kill \/ Restart \/ UNCHANGED vars
    BY <1>8, <1>same DEF Kill, Restart, vars, db
  <1> QED
    BY <1>1, <1>2, <1>4, <1>5, <1>6, <1>7, <1>8 DEF Next

\* For any number of carts: whoever had a removed item in a cart has it no more.
THEOREM RemovalCorrect == Spec => RemovalLeavesNoRow
  <1>1. TypeOK /\ [Next]_vars =>
          [\A i \in DOMAIN items \ DOMAIN items' :
             \A r \in DOMAIN carts' : carts'[r].item # i]_vars
    <2> SUFFICES ASSUME TypeOK, [Next]_vars, NEW i \in DOMAIN items \ DOMAIN items',
                        NEW r \in DOMAIN carts'
                 PROVE  carts'[r].item # i
      OBVIOUS
    <2>1. SellerRemove(i) /\ Readable(items, i)
      BY WhatRemoves
    <2> QED
      BY <2>1 DEF SellerRemove, RowsWithoutItem, Keep
  <1> QED
    BY <1>1, TypeCorrect, PTL DEF Spec, RemovalLeavesNoRow

\* What order::cancel, with or without sold before it, does to the numbers of
\* the item: the subtractions never wrap.
LEMMA CloseNumbers ==
  ASSUME TypeOK, OneUnitReserved, NEW o \in DOMAIN orders,
         orders[o].item \in DOMAIN items,
         NEW it \in {items[orders[o].item],
                     Sold(items[orders[o].item], orders[o].quantity)},
         CloseOrder(o, it)
  PROVE  LET was == items[orders[o].item]
             is == items'[orders[o].item]
             q == orders[o].quantity
         IN /\ is.stock = it.stock
            /\ Available(was) = was.stock - was.frozen
            /\ Available(is) = is.stock - (was.frozen - q)
            /\ Sold(was, q).stock = was.stock - q
  <1> DEFINE i == orders[o].item
             q == orders[o].quantity
             was == items[i]
  <1>1. was \in Item /\ q \in Size /\ was.stock \in Size /\ was.frozen \in Size
    BY DEF TypeOK, ItemsOK, OrdersOK, Item, Order
  <1>2. /\ was.stock \in {0, 1} /\ was.frozen <= was.stock /\ q \in {0, 1}
        /\ q = 1 => was.frozen = 1
    BY DEF OneUnitReserved, HoldsUnit
  <1>3. /\ SizeSub(was.frozen, q) = was.frozen - q
        /\ SizeSub(was.stock, q) = was.stock - q
    BY <1>1, <1>2, SizeAssumption DEF SizeSub, Size
  <1>4. /\ it.frozen = was.frozen
        /\ it.stock \in {was.stock, was.stock - q}
        /\ Unfroze(it, q).frozen = was.frozen - q
        /\ Unfroze(it, q).stock = it.stock
        /\ Sold(was, q).stock = was.stock - q
    BY <1>1, <1>3 DEF Sold, Unfroze, Item
  <1>5. items'[i].frozen = was.frozen - q /\ items'[i].stock = it.stock
    BY <1>4 DEF CloseOrder, TypeOK, ItemsOK
  <1> HIDE DEF q, was
  <1>6. Available(was) = was.stock - was.frozen
    BY <1>1, <1>2, SizeAssumption DEF Available, SizeSub, Size
  <1>7. Available(items'[i]) = items'[i].stock - (was.frozen - q)
    BY <1>1, <1>2, <1>4, <1>5, SizeAssumption DEF Available, SizeSub, Size
  <1> QED
    BY <1>4, <1>5, <1>6, <1>7 DEF q, was

\* For every price and any width of size_t: an order is given back whole or
\* paid whole.
THEOREM OrdersLeaveWhole == Spec => OrderLeavesOneWay
  <1> DEFINE Whole(o) ==
        LET ord == orders[o]
            was == items[ord.item]
            is == items'[ord.item]
        IN \/ /\ balance' = balance
              /\ is.stock = was.stock
              /\ Available(is) = Available(was) + ord.quantity
           \/ /\ balance' = Transfer(balance, ord.customer, ord.seller, Signed(ord.price))
              /\ is.stock = was.stock - ord.quantity
              /\ Available(is) = Available(was)
  <1>1. ASSUME TypeOK, OneUnitReserved, [Next]_vars, NEW o \in DOMAIN orders \ DOMAIN orders'
        PROVE  Whole(o)
    <2> DEFINE was == items[orders[o].item]
               q == orders[o].quantity
    <2>1. Readable(items, orders[o].item) /\ (PayAccepted(o) \/ CancelFound(o))
      BY <1>1, WhatRemoves
    <2>2. was.stock \in Int /\ was.frozen \in Int /\ q \in Int
      BY <1>1, <2>1, SizeAssumption DEF Readable, TypeOK, ItemsOK, OrdersOK, Item, Order, Size
    <2>3. CASE CancelFound(o)
      <3>1. CloseOrder(o, was) /\ balance' = balance
        BY <2>1, <2>3 DEF CancelFound
      <3> QED
        BY <1>1, <2>1, <2>2, <3>1, CloseNumbers DEF Readable
    <2>4. CASE PayAccepted(o)
      <3>1. /\ CloseOrder(o, Sold(was, q))
            /\ balance' = Transfer(balance, orders[o].customer, orders[o].seller,
                                   Signed(orders[o].price))
        BY <2>1, <2>4 DEF PayAccepted
      <3> QED
        BY <1>1, <2>1, <2>2, <3>1, CloseNumbers DEF Readable
    <2> QED
      BY <2>1, <2>3, <2>4
  <1>2. TypeOK /\ OneUnitReserved /\ [Next]_vars =>
          [\A o \in DOMAIN orders \ DOMAIN orders' : Whole(o)]_vars
    BY <1>1
  <1> QED
    BY <1>2, TypeCorrect, StockCorrect, PTL DEF Spec, OrderLeavesOneWay

-----------------------------------------------------------------------------
\* What a step that takes money from a wallet can be, if top-ups bring money.
LEMMA WhatTakesMoney ==
  ASSUME Topups \subseteq Nat, TypeOK, [Next]_vars, NEW u \in Users,
         balance'[u] < balance[u]
  PROVE  \E o \in DOMAIN orders : PayAccepted(o)
  <1> DEFINE Goal == \E o \in DOMAIN orders : PayAccepted(o)
  <1> SUFFICES Goal
    OBVIOUS
  <1>same. ASSUME UNCHANGED balance PROVE Goal
    BY <1>same DEF TypeOK, WalletsOK
  <1> HIDE DEF Goal
  <1>read. ASSUME NEW is, ReadItems(is) PROVE Goal
    BY <1>read, <1>same DEF ReadItems, db
  <1>topup. ASSUME NEW v \in Users, NEW amount \in Topups, WalletTopup(v, amount)
            PROVE  Goal
    BY <1>topup DEF WalletTopup, TypeOK, WalletsOK
  <1>1. ASSUME NEW v \in Users, CustomerNext(v) PROVE Goal
    BY <1>1, <1>same, <1>read, <1>topup
       DEF CustomerNext, AddToCart, CartRemove, CartEdit, CartShow, CheckoutStart,
           OrdersShow, db
  <1>2. ASSUME NEW s \in Sellers, SellerNext(s) PROVE Goal
    BY <1>2, <1>same, <1>read DEF SellerNext, SellerAdd, SellerSale, SellerList
  <1>3. ASSUME NEW i \in ItemIds, EditNext(i) \/ SellerEditInvalid(i) \/ SellerRemove(i)
        PROVE  Goal
    BY <1>3, <1>same DEF EditNext, SellerEdit, SellerEditInvalid, SellerRemove, db
  <1>4. ASSUME NEW o \in OrderIds, OrdersPay(o) \/ OrdersCancel(o) PROVE Goal
    BY <1>4, <1>same
       DEF OrdersPay, PayMissing, PayRefused, PayAccepted, OrdersCancel,
           CancelMissing, CancelFound, db, Goal
  <1>5. CASE CheckoutRow
    BY <1>5, <1>same DEF CheckoutRow, RowOrdered, RowShort, RowUnreadable, db
  <1>6. CASE CheckoutDone \/ WalletShow \/ Search \/ InvalidInput
    BY <1>6, <1>same, <1>read DEF CheckoutDone, WalletShow, Search, InvalidInput, db
  <1>7. CASE Kill \/ Restart \/ UNCHANGED vars
    BY <1>7, <1>same DEF Kill, Restart, vars, db
  <1> QED
    BY <1>1, <1>2, <1>3, <1>4, <1>5, <1>6, <1>7 DEF Next

\* The price of an order, as order::pay converts it, is a number.
LEMMA PriceIsInt ==
  ASSUME TypeOK, NEW o \in DOMAIN orders
  PROVE  /\ Signed(orders[o].price) \in Int
         /\ orders[o].customer \in Users /\ orders[o].seller \in Users
  <1>1. orders[o] \in Order /\ orders[o].price \in Int
    BY DEF TypeOK, OrdersOK, Order
  <1> QED
    BY <1>1, MoneyAssumption DEF Signed, Order

\* If top-ups bring money: for every price, what leaves a wallet is the price of
\* an order, and that order is gone with it unless its item cannot be read.
THEOREM MoneyCorrect ==
  ASSUME Topups \subseteq Nat
  PROVE  Spec => MoneyTakenClosesOrder
  <1> DEFINE Pays(u, o) ==
        /\ u \in {orders[o].customer, orders[o].seller}
        /\ balance[u] - balance'[u] \in {Signed(orders[o].price), -Signed(orders[o].price)}
        /\ o \notin DOMAIN orders' \/ ~Readable(items, orders[o].item)
  <1>1. ASSUME TypeOK, [Next]_vars, NEW u \in Users, balance'[u] < balance[u]
        PROVE  \E o \in DOMAIN orders : Pays(u, o)
    <2>1. PICK o \in DOMAIN orders : PayAccepted(o)
      BY <1>1, WhatTakesMoney
    <2>2. /\ Signed(orders[o].price) \in Int
          /\ balance \in [Users -> Int]
          /\ balance' = Transfer(balance, orders[o].customer, orders[o].seller,
                                 Signed(orders[o].price))
      BY <1>1, <2>1, PriceIsInt DEF PayAccepted, TypeOK, WalletsOK
    <2>3. /\ u \in {orders[o].customer, orders[o].seller}
          /\ balance[u] - balance'[u] \in {Signed(orders[o].price), -Signed(orders[o].price)}
      BY <1>1, <2>2, PriceIsInt DEF Transfer
    <2>4. o \notin DOMAIN orders' \/ ~Readable(items, orders[o].item)
      BY <2>1 DEF PayAccepted, CloseOrder, Keep
    <2> QED
      BY <2>3, <2>4
  <1>2. TypeOK /\ [Next]_vars =>
          [\A u \in Users : balance'[u] < balance[u] =>
             \E o \in DOMAIN orders : Pays(u, o)]_vars
    BY <1>1
  <1> QED
    BY <1>2, TypeCorrect, PTL DEF Spec, MoneyTakenClosesOrder

\* If top-ups bring money: for every price, paying never takes a wallet below
\* zero, except that of the seller of an order with a negative price.
THEOREM WalletsCovered ==
  ASSUME Topups \subseteq Nat
  PROVE  Spec => NoOverdraft
  <1>1. ASSUME TypeOK, [Next]_vars, NEW u \in Users,
               balance'[u] < balance[u], balance'[u] < 0
        PROVE  \E o \in DOMAIN orders : Signed(orders[o].price) < 0 /\ orders[o].seller = u
    <2>1. PICK o \in DOMAIN orders : PayAccepted(o)
      BY <1>1, WhatTakesMoney
    <2>2. /\ Signed(orders[o].price) \in Int
          /\ balance \in [Users -> Int]
          /\ balance[orders[o].customer] >= Signed(orders[o].price)
          /\ balance' = Transfer(balance, orders[o].customer, orders[o].seller,
                                 Signed(orders[o].price))
      BY <1>1, <2>1, PriceIsInt DEF PayAccepted, CanPay, TypeOK, WalletsOK
    <2>3. Signed(orders[o].price) < 0 /\ orders[o].seller = u
      BY <1>1, <2>2, PriceIsInt DEF Transfer
    <2> QED
      BY <2>3
  <1>2. TypeOK /\ [Next]_vars =>
          [\A u \in Users : balance'[u] < balance[u] /\ balance'[u] < 0 =>
             \E o \in DOMAIN orders :
               Signed(orders[o].price) < 0 /\ orders[o].seller = u]_vars
    BY <1>1
  <1> QED
    BY <1>2, TypeCorrect, PTL DEF Spec, NoOverdraft

-----------------------------------------------------------------------------
(* The loop of a checkout *)

\* The rows of a running checkout that it has left behind.
Visited == RowsOf(busy) \ pending

\* Each of them is short of stock, and all_success knows whether there are any.
LoopInv ==
  busy # Nobody =>
    /\ \A r \in Visited : /\ Readable(items, carts[r].item)
                          /\ Available(items[carts[r].item]) < carts[r].quantity
    /\ allOk <=> Visited = {}

\* While a checkout runs nothing else does.
LEMMA WhatRuns ==
  ASSUME busy # Nobody, [Next]_vars
  PROVE  \/ \E r \in pending : RowOrdered(r) \/ RowShort(r)
         \/ Crash \/ CheckoutDone \/ Restart \/ UNCHANGED vars
  <1>1. ~Ready
    BY DEF Ready
  <1>2. ASSUME NEW u \in Users, CustomerNext(u) PROVE FALSE
    BY <1>1, <1>2 DEF CustomerNext, WalletTopup, AddToCart, CartEdit, CartRemove, CartShow,
         CheckoutStart, OrdersShow, ReadItems
  <1>3. ASSUME NEW s \in Sellers, SellerNext(s) PROVE FALSE
    BY <1>1, <1>3 DEF SellerNext, SellerAdd, SellerSale, SellerList, ReadItems
  <1>4. ASSUME NEW i \in ItemIds, EditNext(i) \/ SellerEditInvalid(i) \/ SellerRemove(i)
        PROVE  FALSE
    BY <1>1, <1>4 DEF EditNext, SellerEdit, SellerEditInvalid, SellerRemove
  <1>5. ASSUME NEW o \in OrderIds, OrdersPay(o) \/ OrdersCancel(o) PROVE FALSE
    BY <1>1, <1>5 DEF OrdersPay, PayMissing, PayRefused, PayAccepted, OrdersCancel,
         CancelMissing, CancelFound
  <1>6. CASE WalletShow \/ Search \/ InvalidInput
    BY <1>1, <1>6 DEF WalletShow, Search, InvalidInput, ReadItems
  <1>7. CASE CheckoutRow \/ CheckoutDone \/ Kill \/ Restart
    BY <1>7 DEF CheckoutRow, RowUnreadable, Kill
  <1> QED
    BY <1>2, <1>3, <1>4, <1>5, <1>6, <1>7 DEF Next

\* An order takes a row away, and changes the item of no other row of its user.
LEMMA OrderedKeepsLoop ==
  ASSUME TypeOK, OneRowPerItem, LoopInv, busy # Nobody, NEW r \in pending, RowOrdered(r)
  PROVE  LoopInv'
  <1>1. /\ r \in RowsOf(busy)
        /\ busy' = busy /\ allOk' = allOk /\ pending' = pending \ {r}
    BY DEF TypeOK, RunOK, RowsOf, RowOrdered
  <1>2. /\ DOMAIN carts' = DOMAIN carts \ {r}
        /\ \A s \in DOMAIN carts' : carts'[s] = carts[s]
    BY DEF RowOrdered, ClearRow, Keep
  <1>3. RowsOf(busy)' = RowsOf(busy) \ {r}
    BY <1>1, <1>2 DEF RowsOf
  <1>4. Visited' = Visited
    BY <1>1, <1>3 DEF Visited
  <1>5. ASSUME NEW s \in Visited
        PROVE  /\ carts'[s] = carts[s] /\ carts[s].item # carts[r].item
               /\ Readable(items', carts[s].item)
               /\ items'[carts[s].item] = items[carts[s].item]
    <2>1. s \in RowsOf(busy) /\ s # r
      BY DEF Visited
    <2>2. carts'[s] = carts[s] /\ carts[s].item # carts[r].item
      BY <1>1, <1>2, <2>1 DEF RowsOf, OneRowPerItem
    <2>3. items' = [items EXCEPT ![carts[r].item] =
                      Froze(items[carts[r].item], carts[r].quantity)]
      BY DEF RowOrdered, CreateOrder
    <2>4. Readable(items, carts[s].item)
      BY DEF LoopInv
    <2> QED
      BY <2>2, <2>3, <2>4 DEF Readable
  <1>6. \A s \in Visited : /\ Readable(items, carts[s].item)
                           /\ Available(items[carts[s].item]) < carts[s].quantity
    BY DEF LoopInv
  <1>7. \A s \in Visited' : /\ Readable(items', carts'[s].item)
                            /\ Available(items'[carts'[s].item]) < carts'[s].quantity
    BY <1>4, <1>5, <1>6
  <1> QED
    BY <1>1, <1>4, <1>7 DEF LoopInv

LEMMA ShortKeepsLoop ==
  ASSUME TypeOK, LoopInv, busy # Nobody, NEW r \in pending, RowShort(r)
  PROVE  LoopInv'
  <1>1. /\ r \in RowsOf(busy) /\ UNCHANGED <<carts, items, busy>>
        /\ allOk' = FALSE /\ pending' = pending \ {r}
    BY DEF TypeOK, RunOK, RowsOf, RowShort, db
  <1>2. Visited' = Visited \cup {r}
    BY <1>1 DEF Visited, RowsOf
  <1> QED
    BY <1>1, <1>2 DEF LoopInv, RowShort

LEMMA LoopStep ==
  ASSUME TypeOK, OneRowPerItem, LoopInv, [Next]_vars
  PROVE  LoopInv'
  <1>1. CASE busy' = Nobody
    BY <1>1 DEF LoopInv
  <1>2. CASE busy # Nobody /\ busy' # Nobody
    <2>1. ~Crash /\ ~CheckoutDone /\ ~Restart
      BY <1>2 DEF Crash, CheckoutDone, Restart, TypeOK, RunOK
    <2>2. CASE UNCHANGED vars
      BY <2>2 DEF LoopInv, Visited, RowsOf, vars, run, db
    <2> QED
      BY <1>2, <2>1, <2>2, WhatRuns, OrderedKeepsLoop, ShortKeepsLoop
  <1>3. CASE busy = Nobody /\ busy' # Nobody
    <2>1. PICK u \in Users : CheckoutStart(u)
      <3>1. ASSUME NEW r, Answer(r) PROVE FALSE
        BY <1>3, <3>1 DEF Answer, run
      <3>2. ~Crash /\ ~CheckoutDone /\ ~Restart /\ pending = {}
        BY <1>3 DEF Crash, CheckoutDone, Restart, TypeOK, RunOK
      <3>3. ASSUME NEW is, ReadItems(is) PROVE FALSE
        BY <3>1, <3>2, <3>3 DEF ReadItems
      <3>4. ASSUME NEW v \in Users, CustomerNext(v) PROVE CheckoutStart(v)
        BY <3>1, <3>3, <3>4 DEF CustomerNext, WalletTopup, AddToCart, CartEdit, CartRemove,
             CartShow, OrdersShow
      <3>5. ASSUME NEW s \in Sellers, SellerNext(s) PROVE FALSE
        BY <3>1, <3>2, <3>3, <3>5 DEF SellerNext, SellerAdd, SellerSale, SellerList
      <3>6. ASSUME NEW i \in ItemIds, EditNext(i) \/ SellerEditInvalid(i) \/ SellerRemove(i)
            PROVE  FALSE
        BY <3>1, <3>2, <3>6 DEF EditNext, SellerEdit, SellerEditInvalid, SellerRemove
      <3>7. ASSUME NEW o \in OrderIds, OrdersPay(o) \/ OrdersCancel(o) PROVE FALSE
        BY <3>1, <3>2, <3>7 DEF OrdersPay, PayMissing, PayRefused, PayAccepted, OrdersCancel,
             CancelMissing, CancelFound
      <3>8. ~WalletShow /\ ~Search /\ ~InvalidInput
        BY <3>1, <3>3 DEF WalletShow, Search, InvalidInput
      <3>9. ~CheckoutRow /\ ~Kill /\ ~UNCHANGED vars
        BY <1>3, <3>2 DEF CheckoutRow, Kill, vars, run
      <3> QED
        BY <3>2, <3>4, <3>5, <3>6, <3>7, <3>8, <3>9 DEF Next
    <2>2. Visited' = {} /\ allOk'
      BY <2>1 DEF CheckoutStart, Visited, RowsOf, db
    <2> QED
      BY <2>2 DEF LoopInv
  <1> QED
    BY <1>1, <1>2, <1>3

\* For any cart: what a checkout leaves in it asks for more than is available
\* when it answers, and all_success says whether anything is left.
THEOREM CheckoutCorrect == Spec => CheckoutOutcome
  <1>1. Init => OneRowPerItem /\ LoopInv
    BY DEF Init, Empty, OneRowPerItem, LoopInv
  <1>2. TypeOK /\ OneRowPerItem /\ LoopInv /\ [Next]_vars => OneRowPerItem' /\ LoopInv'
    BY OneRowStep, LoopStep
  <1>3. TypeOK /\ OneRowPerItem /\ LoopInv /\ [Next]_vars =>
          [busy # Nobody /\ busy' = Nobody /\ up' =>
             /\ \A r \in RowsOf(busy) :
                  /\ Readable(items, carts[r].item)
                  /\ Available(items[carts[r].item]) < carts[r].quantity
             /\ allOk <=> RowsOf(busy) = {}]_vars
    <2> SUFFICES ASSUME TypeOK, LoopInv, [Next]_vars,
                        busy # Nobody, busy' = Nobody, up'
                 PROVE  /\ \A r \in RowsOf(busy) :
                             /\ Readable(items, carts[r].item)
                             /\ Available(items[carts[r].item]) < carts[r].quantity
                        /\ allOk <=> RowsOf(busy) = {}
      OBVIOUS
    <2>1. CheckoutDone
      BY WhatRuns DEF RowOrdered, RowShort, Crash, Restart, TypeOK, RunOK, vars, run
    <2>2. Visited = RowsOf(busy)
      BY <2>1 DEF CheckoutDone, Visited
    <2> QED
      BY <2>2 DEF LoopInv
  <1> QED
    BY <1>1, <1>2, <1>3, TypeCorrect, PTL DEF Spec, CheckoutOutcome
=============================================================================
