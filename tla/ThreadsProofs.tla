--------------------------- MODULE ThreadsProofs ----------------------------
(***************************************************************************)
(* What holds of the threaded server under every interleaving of storage   *)
(* calls, for any number of threads, users, items and orders.              *)
(*                                                                         *)
(* For wallets the tables alone do not show it: a thread that subtracts a  *)
(* price writes the difference of two copies it took earlier.  So that     *)
(* part of the invariant (Sound) is about the copies: what a thread must   *)
(* know of them at each call.                                              *)
(***************************************************************************)
EXTENDS MarketThreads, FiniteSetTheorems, WellFoundedInduction, TLAPS

-----------------------------------------------------------------------------
(* Ids *)

\* Rows have ids that AUTOINCREMENT gave.
Ids ==
  /\ lastItem \in Nat /\ DOMAIN items \subseteq 1 .. lastItem
  /\ lastOrder \in Nat /\ DOMAIN orders \subseteq 1 .. lastOrder
  /\ lastRow \in Nat /\ DOMAIN carts \subseteq 1 .. lastRow

\* A step adds rows only under new ids, and leaves orders as they are.
RowsStay ==
  /\ lastOrder' >= lastOrder
  /\ \A i \in 1 .. lastItem : i \in DOMAIN items' => i \in DOMAIN items
  /\ \A r \in 1 .. lastRow : r \in DOMAIN carts' => r \in DOMAIN carts
  /\ \A o \in 1 .. lastOrder :
       o \in DOMAIN orders' => o \in DOMAIN orders /\ orders'[o] = orders[o]

LEMMA WriteDomain ==
  ASSUME NEW f, NEW k, NEW row
  PROVE  DOMAIN Write(f, k, row) = DOMAIN f
  BY DEF Write

LEMMA WithoutDomain ==
  ASSUME NEW f, NEW k
  PROVE  /\ DOMAIN Without(f, k) \subseteq DOMAIN f
         /\ \A x \in DOMAIN Without(f, k) : Without(f, k)[x] = f[x]
  BY DEF Without, Keep

LEMMA IdsStill ==
  ASSUME Ids, UNCHANGED db
  PROVE  Ids' /\ RowsStay
  BY DEF Ids, RowsStay, db

\* The steps of handlers that write.
Writing(t) ==
  \/ TopupStore(t) \/ AddStore(t) \/ CartEditStore(t) \/ Freeze(t) \/ Insert(t) \/ Unrow(t)
  \/ Debit(t) \/ Credit(t) \/ MarkSold(t) \/ Unfreeze(t) \/ Close(t)
  \/ (\E s \in Sellers, price \in Prices, type \in Types : SellerAdd(t, s, price, type))
  \/ EditStore(t) \/ Uncart(t) \/ Drop(t) \/ SaleStore(t)

LEMMA WhatWrites ==
  ASSUME NEW t \in Threads, Step(t)
  PROVE  UNCHANGED db \/ Writing(t)
  <1>1. CASE Continue(t)
    BY <1>1 DEF Continue, Writing, ShowNext, ShowDone, CheckoutRow, Create, CheckoutDone,
         PayCustomer, PaySeller, PayItem, Reload, SaleDone, Fails
  <1>2. ASSUME CustomerStart(t)
        PROVE  UNCHANGED db
    BY <1>2 DEF CustomerStart, TopupLoad, AddLoad, CartEditLoad, CartShow, OrdersShow,
         ShowLoad, CheckoutLoad
  <1>3. ASSUME SellerStart(t)
        PROVE  UNCHANGED db \/ Writing(t)
    BY <1>3 DEF SellerStart, Writing, SellerSaleLoad, ListItems
  <1>4. ASSUME AnyoneStart(t)
        PROVE  UNCHANGED db
    BY <1>4 DEF AnyoneStart, PayLoad, CancelLoad, SellerEditInvalid, SellerRemoveLoad,
         SellerEditLoad, ListItems, WalletShow, InvalidInput
  <1> QED
    BY <1>1, <1>2, <1>3, <1>4 DEF Step, Start

LEMMA IdsStep ==
  ASSUME Ids, [Next]_vars
  PROVE  Ids' /\ RowsStay
  <1>1. CASE UNCHANGED db
    BY <1>1, IdsStill
  <1>2. ASSUME NEW t \in Threads, Writing(t)
        PROVE  Ids' /\ RowsStay
    <2>1. CASE TopupStore(t) \/ Debit(t) \/ Credit(t)
      BY <2>1 DEF TopupStore, Debit, Credit, OnlyBalance, Ids, RowsStay
    <2>2. ASSUME OnlyItems, NEW k, NEW row, items' = Write(items, k, row) \/ items' = Without(items, k)
          PROVE  Ids' /\ RowsStay
      BY <2>2, WriteDomain, WithoutDomain DEF OnlyItems, Ids, RowsStay
    <2>3. CASE Freeze(t) \/ MarkSold(t) \/ Unfreeze(t) \/ EditStore(t) \/ Drop(t) \/ SaleStore(t)
      BY <2>2, <2>3, <1>1 DEF Freeze, MarkSold, Fails, Unfreeze, EditStore, Drop, SaleStore
    <2>4. ASSUME OnlyCarts, UNCHANGED lastRow, DOMAIN carts' \subseteq DOMAIN carts
          PROVE  Ids' /\ RowsStay
      BY <2>4 DEF OnlyCarts, Ids, RowsStay
    <2>5. CASE CartEditStore(t) \/ Unrow(t) \/ Uncart(t)
      BY <2>4, <2>5, WriteDomain, WithoutDomain DEF CartEditStore, Unrow, Uncart, Keep
    <2>6. CASE AddStore(t)
      <3>1. CASE UNCHANGED lastRow /\ DOMAIN carts' \subseteq DOMAIN carts
        BY <2>4, <2>6, <3>1 DEF AddStore
      <3>2. ASSUME NEW row, carts' = Put(carts, lastRow + 1, row), lastRow' = lastRow + 1
            PROVE  Ids' /\ RowsStay
        <4>1. OnlyCarts
          BY <2>6 DEF AddStore
        <4> QED
          BY <3>2, <4>1 DEF OnlyCarts, Ids, RowsStay, Put
      <3> QED
        BY <2>6, <3>1, <3>2, WriteDomain DEF AddStore
    <2>7. CASE Insert(t)
      BY <2>7 DEF Insert, FreshOrderId, OnlyOrders, Ids, RowsStay, Put
    <2>8. CASE Close(t)
      BY <2>8, WithoutDomain DEF Close, OnlyOrders, Ids, RowsStay
    <2>9. CASE \E s \in Sellers, price \in Prices, type \in Types : SellerAdd(t, s, price, type)
      BY <2>9 DEF SellerAdd, Ids, RowsStay, Put
    <2> QED
      BY <1>2, <2>1, <2>3, <2>5, <2>6, <2>7, <2>8, <2>9 DEF Writing
  <1>3. CASE Kill \/ Restart \/ UNCHANGED vars
    BY <1>1, <1>3 DEF Kill, Restart, vars
  <1> QED
    BY <1>1, <1>2, <1>3, WhatWrites DEF Next

\* Nothing that was removed comes back (UPDATE does nothing to a row that is
\* gone, AUTOINCREMENT gives no id twice), however the handlers interleave.
THEOREM RemovedForGood == Spec => NothingRevives
  <1>1. Init => Ids
    BY DEF Init, Ids, Empty
  <1>2. Ids /\ [Next]_vars => Ids'
    BY IdsStep
  <1>3. Ids /\ [Next]_vars =>
          [/\ \A i \in 1 .. lastItem : i \in DOMAIN items' => i \in DOMAIN items
           /\ \A r \in 1 .. lastRow : r \in DOMAIN carts' => r \in DOMAIN carts
           /\ \A o \in 1 .. lastOrder : o \in DOMAIN orders' => o \in DOMAIN orders]_vars
    BY IdsStep DEF RowsStay
  <1> QED
    BY <1>1, <1>2, <1>3, PTL DEF Spec, NothingRevives

-----------------------------------------------------------------------------
(* Copies of orders *)

Fields == {"pc", "does", "user", "id", "n", "type", "cust", "sell", "item", "order",
           "batch", "todo", "ok", "dirty"}
CheckoutCalls == {"row", "create", "freeze", "insert", "unrow"}

\* What thread state l must be for its order to be that of its id: only a
\* checkout replaces the order it holds, and it holds one that has no id yet.
Holds(l) ==
  /\ DOMAIN l = Fields
  /\ l.pc \in CheckoutCalls => l.does = "checkout"
  /\ l.does \in {"pay", "cancel"} =>
       l.id \in 1 .. lastOrder /\ Copy(orders, l.id) \subseteq l.order

ThreadsHold == DOMAIN th = Threads /\ \A t \in Threads : Holds(th[t])

LEMMA IdleHolds ==
  Holds(Idle)
  BY DEF Holds, Idle, Fields, CheckoutCalls

\* A thread that has just loaded for a request other than pay and cancel.
LEMMA Loaded ==
  ASSUME NEW l, DOMAIN l = Fields, l.does \notin {"pay", "cancel"},
         l.pc \in CheckoutCalls => l.does = "checkout"
  PROVE  Holds(l)
  BY DEF Holds

\* A thread that goes on with the same order, or in a checkout.
LEMMA GoesOn ==
  ASSUME NEW k, Holds(k), NEW l, DOMAIN l = Fields, l.does = k.does,
         \/ k.does = "checkout"
         \/ l.pc \notin CheckoutCalls /\ l.id = k.id /\ l.order = k.order
  PROVE  Holds(l)
  BY DEF Holds

\* The thread of a step is left in a state that holds its order, or all end.
LEMMA StepHolds ==
  ASSUME ThreadsHold, Ids, NEW t \in Threads, Step(t)
  PROVE  \/ \E l : Holds(l) /\ th' = [th EXCEPT ![t] = l]
         \/ th' = [s \in Threads |-> Idle]
  <1> DEFINE Done == \/ \E l : Holds(l) /\ th' = [th EXCEPT ![t] = l]
                     \/ th' = [s \in Threads |-> Idle]
  <1> DEFINE k == th[t]
  <1>1. Holds(k)
    BY DEF ThreadsHold
  <1>2. ASSUME NEW r, Answers(t, r)
        PROVE  Done
    BY <1>2, IdleHolds DEF Answers
  <1>3. ASSUME Down
        PROVE  Done
    BY <1>3 DEF Down
  <1>4. ASSUME NEW l, Holds(l), Goes(t, l)
        PROVE  Done
    BY <1>4 DEF Goes
  <1>5. ASSUME CustomerStart(t)
        PROVE  Done
    <2>1. ASSUME NEW u, NEW a, TopupLoad(t, u, a)
          PROVE  Done
      <3> DEFINE l == [Idle EXCEPT !.pc = "topup", !.does = "topup", !.user = u,
                                   !.n = a, !.cust = balance[u]]
      <3>1. Holds(l)
        BY Loaded DEF Fields, Idle, CheckoutCalls
      <3> QED
        BY <2>1, <3>1, <1>4 DEF TopupLoad
    <2>2. ASSUME NEW u, NEW i, NEW q, AddLoad(t, u, i, q)
          PROVE  Done
      <3> DEFINE l == [Idle EXCEPT !.pc = "add", !.does = "cart", !.user = u, !.id = i,
                                   !.n = q, !.batch = RowsOf(u)]
      <3>1. Holds(l)
        BY Loaded DEF Fields, Idle, CheckoutCalls
      <3> QED
        BY <2>2, <3>1, <1>4 DEF AddLoad
    <2>3. ASSUME NEW u, NEW r, NEW q, CartEditLoad(t, u, r, q)
          PROVE  Done
      <3> DEFINE l == [Idle EXCEPT !.pc = "cart_edit", !.does = "cart", !.user = u,
                                   !.id = r, !.n = q, !.batch = RowsOf(u)]
      <3>1. Holds(l)
        BY Loaded DEF Fields, Idle, CheckoutCalls
      <3> QED
        BY <2>3, <3>1, <1>2, <1>4 DEF CartEditLoad
    <2>4. ASSUME NEW sought, ShowLoad(t, sought)
          PROVE  Done
      <3> DEFINE l == [Idle EXCEPT !.pc = "show", !.does = "show", !.todo = sought]
      <3>1. Holds(l)
        BY Loaded DEF Fields, Idle, CheckoutCalls
      <3> QED
        BY <2>4, <3>1, <1>4 DEF ShowLoad
    <2>5. ASSUME NEW u, CheckoutLoad(t, u)
          PROVE  Done
      <3> DEFINE l == [Idle EXCEPT !.pc = "row", !.does = "checkout", !.user = u,
                                   !.batch = RowsOf(u)]
      <3>1. Holds(l)
        BY Loaded DEF Fields, Idle, CheckoutCalls
      <3> QED
        BY <2>5, <3>1, <1>4 DEF CheckoutLoad
    <2> HIDE DEF Done
    <2> QED
      BY <1>5, <2>1, <2>2, <2>3, <2>4, <2>5 DEF CustomerStart, CartShow, OrdersShow
  <1>6. ASSUME NEW is, ListItems(t, is)
        PROVE  Done
    BY <1>2, <1>3, <1>6 DEF ListItems
  <1>7. ASSUME SellerStart(t)
        PROVE  Done
    <2>1. ASSUME NEW s, NEW type, NEW d, SellerSaleLoad(t, s, type, d)
          PROVE  Done
      <3> DEFINE chosen == Keep(items, {i \in DOMAIN items :
                                   items[i].seller = s /\ items[i].type = type})
                 l == [Idle EXCEPT !.pc = "sale", !.does = "sale", !.n = d,
                                   !.batch = chosen]
      <3>1. Holds(l)
        BY Loaded DEF Fields, Idle, CheckoutCalls
      <3> QED
        BY <2>1, <3>1, <1>3, <1>4 DEF SellerSaleLoad
    <2>2. ASSUME NEW s, NEW type, NEW price, SellerAdd(t, s, price, type)
          PROVE  Done
      BY <2>2, <1>2 DEF SellerAdd
    <2> HIDE DEF Done
    <2> QED
      BY <1>6, <1>7, <2>1, <2>2 DEF SellerStart
  <1>8. ASSUME AnyoneStart(t)
        PROVE  Done
    <2>1. ASSUME NEW o, PayLoad(t, o) \/ CancelLoad(t, o)
          PROVE  Done
      <3> DEFINE ord == Copy(orders, o)
                 p == [Idle EXCEPT !.pc = "customer", !.does = "pay", !.id = o,
                                   !.order = ord]
                 c == [Idle EXCEPT !.pc = "reload", !.does = "cancel", !.id = o,
                                   !.order = ord]
      <3>1. CASE ord = {}
        BY <2>1, <3>1, <1>2, <1>3 DEF PayLoad, CancelLoad
      <3>2. CASE ord # {}
        <4>1. o \in 1 .. lastOrder
          BY <3>2 DEF Copy, Ids
        <4>2. /\ DOMAIN p = Fields /\ p.pc = "customer" /\ p.id = o /\ p.order = ord
              /\ DOMAIN c = Fields /\ c.pc = "reload" /\ c.id = o /\ c.order = ord
          BY DEF Fields, Idle
        <4> HIDE DEF p, c
        <4>3. Holds(p) /\ Holds(c)
          BY <4>1, <4>2 DEF Holds, CheckoutCalls
        <4>4. Goes(t, p) \/ Goes(t, c)
          BY <2>1, <3>2 DEF PayLoad, CancelLoad, p, c
        <4> QED
          BY <1>4, <4>3, <4>4
      <3> QED
        BY <3>1, <3>2
    <2>2. ASSUME NEW i, NEW price, NEW type, NEW stock,
                 SellerEditLoad(t, i, price, type, stock)
          PROVE  Done
      <3> DEFINE l == [Idle EXCEPT !.pc = "edit", !.does = "edit", !.id = i,
                                   !.n = price, !.type = type, !.item = CopyItem(i)]
      <3>1. Holds(l)
        BY Loaded DEF Fields, Idle, CheckoutCalls
      <3> QED
        BY <2>2, <3>1, <1>2, <1>3, <1>4 DEF SellerEditLoad
    <2>3. ASSUME NEW i, SellerRemoveLoad(t, i)
          PROVE  Done
      <3> DEFINE l == [Idle EXCEPT !.pc = "uncart", !.does = "remove", !.id = i]
      <3>1. Holds(l)
        BY Loaded DEF Fields, Idle, CheckoutCalls
      <3> QED
        BY <2>3, <3>1, <1>3, <1>4 DEF SellerRemoveLoad
    <2>4. ASSUME NEW i, SellerEditInvalid(t, i) \/ WalletShow(t) \/ InvalidInput(t)
          PROVE  Done
      BY <2>4, <1>2, <1>3 DEF SellerEditInvalid, WalletShow, InvalidInput
    <2> HIDE DEF Done
    <2> QED
      BY <1>6, <1>8, <2>1, <2>2, <2>3, <2>4 DEF AnyoneStart
  <1>9. ASSUME Continue(t)
        PROVE  Done
    <2>1. ASSUME NEW l, Goes(t, l), DOMAIN l = Fields, l.does = k.does,
                 \/ k.does = "checkout"
                 \/ l.pc \notin CheckoutCalls /\ l.id = k.id /\ l.order = k.order
          PROVE  Done
      BY <2>1, <1>1, <1>4, GoesOn
    <2>2. DOMAIN k = Fields /\ (k.pc \in CheckoutCalls => k.does = "checkout")
      BY <1>1 DEF Holds
    <2> HIDE DEF Done, k
    <2> USE DEF Fields, CheckoutCalls, At
    <2>3. CASE TopupStore(t) \/ AddStore(t) \/ CartEditStore(t) \/ ShowDone(t)
               \/ CheckoutDone(t) \/ Close(t) \/ EditStore(t) \/ Drop(t) \/ SaleDone(t)
      BY <1>2, <2>3 DEF TopupStore, AddStore, CartEditStore, ShowDone, CheckoutDone, Close,
           EditStore, Drop, SaleDone
    <2>4. CASE ShowNext(t)
      BY <1>3, <2>1, <2>2, <2>4 DEF ShowNext, Fails, k
    <2>5. CASE CheckoutRow(t)
      BY <1>3, <2>1, <2>2, <2>5 DEF CheckoutRow, Fails, k
    <2>6. CASE Create(t)
      BY <1>3, <2>1, <2>2, <2>6 DEF Create, Fails, k
    <2>7. CASE Freeze(t) \/ Insert(t) \/ Unrow(t)
      BY <2>1, <2>2, <2>7 DEF Freeze, Insert, Unrow, k
    <2>8. CASE PayCustomer(t) \/ PaySeller(t) \/ PayItem(t)
      BY <1>2, <2>1, <2>2, <2>8 DEF PayCustomer, PaySeller, PayItem, k
    <2>9. CASE Debit(t) \/ Credit(t) \/ MarkSold(t)
      BY <1>3, <2>1, <2>2, <2>9 DEF Debit, Credit, MarkSold, Fails, k
    <2>10. CASE Reload(t) \/ Unfreeze(t)
      BY <1>3, <2>1, <2>2, <2>10 DEF Reload, Unfreeze, Fails, k
    <2>11. CASE Uncart(t) \/ SaleStore(t)
      BY <2>1, <2>2, <2>11 DEF Uncart, SaleStore, k
    <2> QED
      BY <1>9, <2>3, <2>4, <2>5, <2>6, <2>7, <2>8, <2>9, <2>10, <2>11 DEF Continue
  <1> HIDE DEF Done
  <1>10. Done
    BY <1>5, <1>7, <1>8, <1>9 DEF Step, Start
  <1> QED
    BY <1>10 DEF Done

\* What holds its order still does when the rows have changed.
LEMMA HoldsStays ==
  ASSUME Ids, RowsStay, NEW l, Holds(l), lastOrder' \in Nat
  PROVE  Holds(l)'
  BY DEF Holds, Ids, RowsStay, Copy

LEMMA ThreadsHoldStep ==
  ASSUME ThreadsHold, Ids, [Next]_vars
  PROVE  ThreadsHold'
  <1>1. RowsStay /\ lastOrder' \in Nat
    BY IdsStep DEF Ids
  <1>2. Holds(Idle)'
    BY <1>1, IdleHolds, HoldsStays
  <1>3. CASE th' = [s \in Threads |-> Idle]
    BY <1>2, <1>3 DEF ThreadsHold
  <1>4. ASSUME NEW t \in Threads, NEW l, Holds(l), th' = [th EXCEPT ![t] = l]
        PROVE  ThreadsHold'
    BY <1>1, <1>4, HoldsStays DEF ThreadsHold
  <1>5. CASE UNCHANGED th
    BY <1>1, <1>5, HoldsStays DEF ThreadsHold
  <1>6. CASE Kill \/ Restart \/ UNCHANGED vars
    BY <1>3, <1>5, <1>6 DEF Kill, Restart, Down, vars
  <1>7. ASSUME NEW t \in Threads, Step(t)
        PROVE  ThreadsHold'
    BY <1>3, <1>4, <1>7, StepHolds
  <1> QED
    BY <1>6, <1>7 DEF Next

\* No late pay or cancel hits an order it did not load, for any number of
\* threads: the order it holds is the one of its id, or that one is gone.
THEOREM OrderCopyCorrect == Spec => []OrderCopyIsThatOrder
  <1>1. Init => Ids /\ ThreadsHold
    BY IdleHolds DEF Init, Ids, ThreadsHold, Empty
  <1>2. Ids /\ ThreadsHold /\ [Next]_vars => Ids' /\ ThreadsHold'
    BY IdsStep, ThreadsHoldStep
  <1>3. ThreadsHold => OrderCopyIsThatOrder
    BY DEF ThreadsHold, Holds, OrderCopyIsThatOrder
  <1> QED
    BY <1>1, <1>2, <1>3, PTL DEF Spec

-----------------------------------------------------------------------------
(* Rows *)

\* Items as sellers list them, and orders that bring their customer no money.
Ware == [seller : Users, price : Prices, type : Int,
         discount : Discounts \cup {NoDiscount}, stock : Size, frozen : Size]
Bill == {ord \in Order : Signed(ord.price) >= 0}

\* No order is at a price that long long makes negative.
OrdersAsk == \A o \in DOMAIN orders : Signed(orders[o].price) >= 0

LEMMA SizeClosed ==
  ASSUME NEW a \in Size, NEW b \in Size
  PROVE  SizeAdd(a, b) \in Size /\ SizeSub(a, b) \in Size
  BY SizeAssumption DEF Size, SizeAdd, SizeSub

LEMMA WareChanges ==
  ASSUME NEW it \in Ware
  PROVE  /\ \A q \in Size : /\ Froze(it, q) \in Ware
                            /\ Unfroze(it, q) \in Ware
                            /\ Sold(it, q) \in Ware
         /\ \A d \in Discounts : [it EXCEPT !.discount = d] \in Ware
         /\ \A p \in Prices, y \in Int : [it EXCEPT !.price = p, !.type = y] \in Ware
  <1>1. it.frozen \in Size /\ it.stock \in Size
    BY DEF Ware
  <1>2. \A q \in Size : /\ SizeAdd(it.frozen, q) \in Size
                        /\ SizeSub(it.frozen, q) \in Size
                        /\ SizeSub(it.stock, q) \in Size
    BY <1>1, SizeClosed
  <1>3. ASSUME NEW q \in Size
        PROVE  Froze(it, q) \in Ware /\ Unfroze(it, q) \in Ware /\ Sold(it, q) \in Ware
    BY <1>2 DEF Ware, Froze, Unfroze, Sold
  <1>4. ASSUME NEW d \in Discounts
        PROVE  [it EXCEPT !.discount = d] \in Ware
    BY DEF Ware
  <1>5. ASSUME NEW p \in Prices, NEW y \in Int
        PROVE  [it EXCEPT !.price = p, !.type = y] \in Ware
    BY DEF Ware
  <1> QED
    BY <1>3, <1>4, <1>5

LEMMA NewWare ==
  ASSUME NEW s \in Users, NEW price \in Prices, NEW type \in Int
  PROVE  NewItem(s, price, type) \in Ware
  BY SizeAssumption DEF NewItem, Ware, Size

LEMMA NewOrderType ==
  ASSUME NEW u \in Users, NEW row \in Row, NEW it \in Ware
  PROVE  NewOrder(u, row, it) \in Order
  <1>1. it.price \in Int /\ it.discount \in Int /\ it.seller \in Users
    <2>1. it.price \in Prices /\ it.seller \in Users
          /\ it.discount \in Discounts \cup {NoDiscount}
      BY DEF Ware
    <2>2. /\ \A p \in Prices : p \in Int
          /\ \A d \in Discounts \cup {NoDiscount} : d \in Int
      BY MoneyAssumption DEF NoDiscount
    <2> QED
      BY <2>1, <2>2
  <1>2. row.quantity \in Size /\ row.quantity \in Int /\ row.item \in 1 .. MaxItems
    BY SizeAssumption DEF Row, Size
  <1>3. Discounted(it) \in Int
    BY <1>1 DEF Discounted
  <1>4. OrderPrice(it, row.quantity) \in Int
    BY <1>2, <1>3, MoneyAssumption DEF OrderPrice
  <1> QED
    BY <1>1, <1>2, <1>4 DEF NewOrder, Order

\* Two cases.  Wallets and amounts are any numbers and orders any orders; or, if
\* no top-up and no order asks for a negative amount, wallets and amounts are
\* natural numbers and orders are bills.
Money(N, B) ==
  \/ N = Int /\ B = Order
  \/ N = Nat /\ B = Bill /\ Topups \subseteq Nat /\ OrdersAsk

\* In both, what is computed from the amounts is an amount again.
LEMMA MoneyClosed ==
  ASSUME NEW N, NEW B, Money(N, B)
  PROVE  /\ N \subseteq Int /\ Topups \subseteq N /\ B \subseteq Order
         /\ \A a, b \in N : a + b \in N /\ (a >= b => a - b \in N)
  BY MoneyAssumption DEF Money, Bill

LEMMA OrderAsks ==
  ASSUME NEW N, NEW B, Money(N, B), NEW ord \in B
  PROVE  /\ Signed(ord.price) \in N /\ ord.quantity \in Size
         /\ ord.customer \in Users /\ ord.seller \in Users
  <1>1. ord \in Order /\ ord.price \in Int
    BY MoneyClosed DEF Order
  <1>2. Signed(ord.price) \in Int
    BY <1>1, MoneyAssumption DEF Signed
  <1>3. CASE N = Nat /\ B = Bill
    BY <1>1, <1>2, <1>3 DEF Bill, Order
  <1>4. CASE N = Int /\ B = Order
    BY <1>2, <1>4 DEF Order
  <1> QED
    BY <1>3, <1>4 DEF Money

LEMMA LeastNatural ==
  ASSUME NEW S, S \subseteq Nat, S # {}
  PROVE  \E k \in S : \A j \in S : k <= j
  <1>1. \E R : R = {p \in Nat \X Nat : p[1] < p[2]} /\ IsWellFoundedOn(R, Nat)
    BY NatLessThanWellFounded DEF OpToRel
  <1>2. ASSUME NEW R, R = {p \in Nat \X Nat : p[1] < p[2]}, IsWellFoundedOn(R, Nat)
        PROVE  \E k \in S : \A j \in S : ~(j < k)
    <2>1. \E k \in S : \A j \in S : ~(<<j, k>> \in R)
      BY <1>2, WFMin
    <2> QED
      BY <1>2, <2>1
  <1>3. \E k \in S : \A j \in S : ~(j < k)
    BY <1>1, <1>2
  <1>4. QED
    BY <1>3

\* The next row of a loop is one of the rows that are left.
LEMMA FirstLeft ==
  ASSUME NEW f, DOMAIN f \subseteq Nat, f # Empty, f = [x \in DOMAIN f |-> f[x]]
  PROVE  FirstOf(f) \in DOMAIN f
  <1>1. DOMAIN f # {}
    <2>1. ASSUME DOMAIN f = {}
          PROVE  f = [x \in {} |-> 0]
      BY <2>1
    <2> QED
      BY <2>1 DEF Empty
  <1>2. \E k \in DOMAIN f : \A j \in DOMAIN f : k <= j
    BY <1>1, LeastNatural
  <1> QED
    BY <1>2 DEF FirstOf

LEMMA TheIn ==
  ASSUME NEW S, S # {}
  PROVE  The(S) \in S
  BY DEF The

-----------------------------------------------------------------------------
(* The invariant *)

\* What thread state l has to say of its copies at the call it makes next.
PayCalls == {"customer", "seller", "item", "debit", "credit", "sold", "reload",
             "unfreeze", "close"}

CopiesSound(l) ==
  /\ DOMAIN l = Fields
  /\ l.item \subseteq Ware /\ l.order \subseteq Order
  /\ l.batch = [x \in DOMAIN l.batch |-> l.batch[x]] /\ DOMAIN l.batch \subseteq Nat
RequestSound(B, l) ==
  /\ l.pc \in {"add", "cart_edit"} \cup CheckoutCalls =>
       l.user \in Users /\ l.batch \in [DOMAIN l.batch -> Row]
  /\ l.pc = "add" => l.id \in ItemIds
  /\ l.pc \in {"add", "cart_edit"} => l.n \in Size
  /\ l.pc = "cart_edit" => l.id \in DOMAIN l.batch
  /\ l.pc = "edit" => l.n \in Prices /\ l.type \in Int
  /\ l.pc = "sale" => l.n \in Discounts /\ l.batch \in [DOMAIN l.batch -> Ware]
  /\ l.pc \in {"freeze", "unfreeze", "edit"} => l.item # {}
  /\ l.pc \in {"create", "freeze", "insert"} \cup PayCalls => l.order # {}
  /\ l.pc \in PayCalls => l.order \subseteq B
PaymentSound(N, l) ==
  /\ l.pc = "topup" => l.cust \in N /\ l.n \in Topups
  /\ l.pc \in {"seller", "item", "debit"} => l.cust \in N
  /\ l.pc \in {"item", "debit", "credit"} => l.sell \in N
  /\ l.pc = "debit" => l.cust >= Price(l)
Sound(N, B, l) == CopiesSound(l) /\ RequestSound(B, l) /\ PaymentSound(N, l)

ThreadsSound(N, B) == DOMAIN th = Threads /\ \A t \in Threads : Sound(N, B, th[t])

TablesSound(N) ==
  /\ balance \in [Users -> N]
  /\ items \in [DOMAIN items -> Ware]
  /\ orders \in [DOMAIN orders -> Order]
  /\ carts \in [DOMAIN carts -> Row]

LEMMA IdleSound ==
  ASSUME NEW N, NEW B
  PROVE  Sound(N, B, Idle)
  BY DEF Sound, CopiesSound, RequestSound, PaymentSound, Idle, Fields, CheckoutCalls,
     PayCalls, Empty

\* What is loaded from sound tables is sound.
LEMMA Copies ==
  ASSUME NEW N, NEW B, Money(N, B), TablesSound(N), NEW k
  PROVE  /\ Copy(items, k) \subseteq Ware /\ CopyItem(k) \subseteq Ware
         /\ Copy(orders, k) \subseteq Order /\ Copy(orders, k) \subseteq B
  BY DEF TablesSound, Copy, CopyItem, OrdersAsk, Bill, Money

LEMMA Rows ==
  ASSUME NEW N, TablesSound(N), Ids, NEW u
  PROVE  /\ RowsOf(u) = [x \in DOMAIN RowsOf(u) |-> RowsOf(u)[x]]
         /\ DOMAIN RowsOf(u) \subseteq Nat
         /\ RowsOf(u) \in [DOMAIN RowsOf(u) -> Row]
  BY DEF TablesSound, Ids, RowsOf, Keep

\* Writing a row of the table's type, or removing rows, leaves a table of rows.
LEMMA TableChanges ==
  ASSUME NEW T, NEW f, f \in [DOMAIN f -> T]
  PROVE  /\ \A k : \A row \in T : /\ Write(f, k, row) \in [DOMAIN Write(f, k, row) -> T]
                                  /\ Put(f, k, row) \in [DOMAIN Put(f, k, row) -> T]
         /\ \A S : Keep(f, S) \in [DOMAIN Keep(f, S) -> T]
         /\ \A k : Without(f, k) \in [DOMAIN Without(f, k) -> T]
  <1>1. ASSUME NEW k, NEW row \in T
        PROVE  /\ Write(f, k, row) \in [DOMAIN Write(f, k, row) -> T]
               /\ Put(f, k, row) \in [DOMAIN Put(f, k, row) -> T]
    BY <1>1 DEF Write, Put
  <1>2. ASSUME NEW S
        PROVE  Keep(f, S) \in [DOMAIN Keep(f, S) -> T]
    BY DEF Keep
  <1> QED
    BY <1>1, <1>2 DEF Without

-----------------------------------------------------------------------------
(* Requests start *)

LEMMA ThreadGoes ==
  ASSUME NEW N, NEW B, ThreadsSound(N, B), NEW t \in Threads, NEW l, Sound(N, B, l), Goes(t, l)
  PROVE  ThreadsSound(N, B)'
  BY DEF ThreadsSound, Goes

LEMMA ThreadEnds ==
  ASSUME NEW N, NEW B, ThreadsSound(N, B), NEW t \in Threads, Down \/ \E r : Answers(t, r)
  PROVE  ThreadsSound(N, B)'
  BY IdleSound DEF ThreadsSound, Down, Answers

LEMMA TablesStill ==
  ASSUME NEW N, TablesSound(N), UNCHANGED db
  PROVE  TablesSound(N)'
  BY DEF TablesSound, db

LEMMA CustomerSound ==
  ASSUME NEW N, NEW B, Money(N, B), TablesSound(N), ThreadsSound(N, B), Ids, NEW t \in Threads, CustomerStart(t)
  PROVE  ThreadsSound(N, B)'
  <1>0. /\ Idle.item = {} /\ Idle.order = {} /\ DOMAIN Idle = Fields
        /\ Idle.batch = [x \in DOMAIN Idle.batch |-> Idle.batch[x]]
        /\ DOMAIN Idle.batch = {}
    BY DEF Idle, Fields, Empty
  <1> USE DEF Sound, CopiesSound, RequestSound, PaymentSound, CheckoutCalls, PayCalls
  <1>1. ASSUME NEW u \in Users, NEW a \in Topups, TopupLoad(t, u, a)
        PROVE  ThreadsSound(N, B)'
    <2> DEFINE l == [Idle EXCEPT !.pc = "topup", !.does = "topup", !.user = u,
                                 !.n = a, !.cust = balance[u]]
    <2>1. /\ DOMAIN l = Fields /\ l.pc = "topup" /\ l.n = a /\ l.cust = balance[u]
          /\ l.item = Idle.item /\ l.order = Idle.order /\ l.batch = Idle.batch
      BY DEF Idle, Fields
    <2>2. Goes(t, l)
      BY <1>1 DEF TopupLoad
    <2>3. balance[u] \in N
      BY DEF TablesSound
    <2> HIDE DEF l
    <2>4. Sound(N, B, l)
      BY <1>0, <2>1, <2>3
    <2> QED
      BY <2>2, <2>4, ThreadGoes
  <1>2. ASSUME NEW u \in Users, NEW i \in ItemIds, NEW q \in Quantities, AddLoad(t, u, i, q)
        PROVE  ThreadsSound(N, B)'
    <2> DEFINE l == [Idle EXCEPT !.pc = "add", !.does = "cart", !.user = u, !.id = i,
                                 !.n = q, !.batch = RowsOf(u)]
    <2>1. /\ DOMAIN l = Fields /\ l.pc = "add" /\ l.user = u /\ l.id = i /\ l.n = q
          /\ l.item = Idle.item /\ l.order = Idle.order /\ l.batch = RowsOf(u)
      BY DEF Idle, Fields
    <2>2. Goes(t, l)
      BY <1>2 DEF AddLoad
    <2>3. q \in Size
      BY SizeAssumption DEF Size
    <2> HIDE DEF l
    <2>4. Sound(N, B, l)
      BY <1>0, <2>1, <2>3, Rows
    <2> QED
      BY <2>2, <2>4, ThreadGoes
  <1>3. ASSUME NEW u \in Users, NEW r \in RowIds, NEW q \in Quantities \cup {0},
               CartEditLoad(t, u, r, q)
        PROVE  ThreadsSound(N, B)'
    <2> DEFINE l == [Idle EXCEPT !.pc = "cart_edit", !.does = "cart", !.user = u,
                                 !.id = r, !.n = q, !.batch = RowsOf(u)]
    <2>1. /\ DOMAIN l = Fields /\ l.pc = "cart_edit" /\ l.user = u /\ l.id = r /\ l.n = q
          /\ l.item = Idle.item /\ l.order = Idle.order /\ l.batch = RowsOf(u)
      BY DEF Idle, Fields
    <2>2. Answers(t, "failure") \/ (Goes(t, l) /\ r \in DOMAIN RowsOf(u))
      BY <1>3 DEF CartEditLoad
    <2>3. q \in Size
      BY SizeAssumption DEF Size
    <2> HIDE DEF l
    <2>4. ASSUME r \in DOMAIN RowsOf(u)
          PROVE  Sound(N, B, l)
      BY <1>0, <2>1, <2>3, <2>4, Rows
    <2> QED
      BY <2>2, <2>4, ThreadGoes, ThreadEnds
  <1>4. ASSUME NEW sought, ShowLoad(t, sought)
        PROVE  ThreadsSound(N, B)'
    <2> DEFINE l == [Idle EXCEPT !.pc = "show", !.does = "show", !.todo = sought]
    <2>1. /\ DOMAIN l = Fields /\ l.pc = "show"
          /\ l.item = Idle.item /\ l.order = Idle.order /\ l.batch = Idle.batch
      BY DEF Idle, Fields
    <2>2. Goes(t, l)
      BY <1>4 DEF ShowLoad
    <2> HIDE DEF l
    <2>3. Sound(N, B, l)
      BY <1>0, <2>1
    <2> QED
      BY <2>2, <2>3, ThreadGoes
  <1>5. ASSUME NEW u \in Users, CheckoutLoad(t, u)
        PROVE  ThreadsSound(N, B)'
    <2> DEFINE l == [Idle EXCEPT !.pc = "row", !.does = "checkout", !.user = u,
                                 !.batch = RowsOf(u)]
    <2>1. /\ DOMAIN l = Fields /\ l.pc = "row" /\ l.user = u
          /\ l.item = Idle.item /\ l.order = Idle.order /\ l.batch = RowsOf(u)
      BY DEF Idle, Fields
    <2>2. Goes(t, l)
      BY <1>5 DEF CheckoutLoad
    <2> HIDE DEF l
    <2>3. Sound(N, B, l)
      BY <1>0, <2>1, Rows
    <2> QED
      BY <2>2, <2>3, ThreadGoes
  <1> QED
    BY <1>1, <1>2, <1>3, <1>4, <1>5 DEF CustomerStart, CartShow, OrdersShow

LEMMA SellerSound ==
  ASSUME NEW N, NEW B, Money(N, B), TablesSound(N), ThreadsSound(N, B), Ids, NEW t \in Threads, SellerStart(t)
  PROVE  TablesSound(N)' /\ ThreadsSound(N, B)'
  <1>0. /\ Idle.item = {} /\ Idle.order = {} /\ DOMAIN Idle = Fields
    BY DEF Idle, Fields
  <1>1. ASSUME NEW s \in Sellers, NEW type \in Types, NEW price \in Prices,
               SellerAdd(t, s, price, type)
        PROVE  TablesSound(N)' /\ ThreadsSound(N, B)'
    <2>1. NewItem(s, price, type) \in Ware
      BY NewWare, UsersAssumption, TypesAssumption
    <2>2. items' = Put(items, lastItem + 1, NewItem(s, price, type))
      BY <1>1 DEF SellerAdd
    <2>3. items' \in [DOMAIN items' -> Ware]
      BY <2>1, <2>2, TableChanges DEF TablesSound
    <2> QED
      BY <1>1, <2>3, ThreadEnds DEF SellerAdd, TablesSound
  <1>2. ASSUME NEW s \in Sellers, NEW type \in Types, NEW d \in Discounts,
               SellerSaleLoad(t, s, type, d)
        PROVE  TablesSound(N)' /\ ThreadsSound(N, B)'
    <2> DEFINE chosen == Keep(items, {i \in DOMAIN items :
                                 items[i].seller = s /\ items[i].type = type})
               l == [Idle EXCEPT !.pc = "sale", !.does = "sale", !.n = d,
                                 !.batch = chosen]
    <2>1. /\ DOMAIN l = Fields /\ l.pc = "sale" /\ l.n = d
          /\ l.item = Idle.item /\ l.order = Idle.order /\ l.batch = chosen
      BY DEF Idle, Fields
    <2>2. (Down \/ Goes(t, l)) /\ UNCHANGED db
      BY <1>2 DEF SellerSaleLoad
    <2>3. /\ chosen = [x \in DOMAIN chosen |-> chosen[x]]
          /\ DOMAIN chosen \subseteq Nat
          /\ chosen \in [DOMAIN chosen -> Ware]
      BY DEF Keep, TablesSound, Ids
    <2> HIDE DEF l, chosen
    <2>4. Sound(N, B, l)
      BY <1>0, <2>1, <2>3
         DEF Sound, CopiesSound, RequestSound, PaymentSound, CheckoutCalls, PayCalls
    <2> QED
      BY <2>2, <2>4, ThreadGoes, ThreadEnds, TablesStill
  <1>3. ASSUME NEW is, ListItems(t, is)
        PROVE  TablesSound(N)' /\ ThreadsSound(N, B)'
    BY <1>3, ThreadEnds, TablesStill DEF ListItems
  <1> QED
    BY <1>1, <1>2, <1>3 DEF SellerStart

LEMMA AnyoneSound ==
  ASSUME NEW N, NEW B, Money(N, B), TablesSound(N), ThreadsSound(N, B), Ids, NEW t \in Threads, AnyoneStart(t)
  PROVE  ThreadsSound(N, B)'
  <1>0. /\ Idle.item = {} /\ Idle.order = {} /\ DOMAIN Idle = Fields
        /\ Idle.batch = [x \in DOMAIN Idle.batch |-> Idle.batch[x]]
        /\ DOMAIN Idle.batch = {}
    BY DEF Idle, Fields, Empty
  <1> USE DEF Sound, CopiesSound, RequestSound, PaymentSound, CheckoutCalls, PayCalls
  <1>1. ASSUME NEW o, PayLoad(t, o) \/ CancelLoad(t, o)
        PROVE  ThreadsSound(N, B)'
    <2> DEFINE ord == Copy(orders, o)
               p == [Idle EXCEPT !.pc = "customer", !.does = "pay", !.id = o,
                                 !.order = ord]
               c == [Idle EXCEPT !.pc = "reload", !.does = "cancel", !.id = o,
                                 !.order = ord]
    <2>1. /\ DOMAIN p = Fields /\ p.pc = "customer" /\ p.order = ord
          /\ p.item = Idle.item /\ p.batch = Idle.batch
          /\ DOMAIN c = Fields /\ c.pc = "reload" /\ c.order = ord
          /\ c.item = Idle.item /\ c.batch = Idle.batch
      BY DEF Idle, Fields
    <2>2. \/ Down \/ \E r : Answers(t, r)
          \/ ord # {} /\ (Goes(t, p) \/ Goes(t, c))
      BY <1>1 DEF PayLoad, CancelLoad
    <2>3. ord \subseteq B /\ ord \subseteq Order
      BY Copies
    <2> HIDE DEF p, c, ord
    <2>4. ASSUME ord # {}
          PROVE  Sound(N, B, p) /\ Sound(N, B, c)
      BY <1>0, <2>1, <2>3, <2>4
    <2> QED
      BY <2>2, <2>4, ThreadGoes, ThreadEnds
  <1>2. ASSUME NEW i, NEW stock,
               NEW price \in Prices \cup {it.price : it \in Copy(items, i)},
               NEW type \in Types \cup {it.type : it \in Copy(items, i)},
               SellerEditLoad(t, i, price, type, stock)
        PROVE  ThreadsSound(N, B)'
    <2> DEFINE l == [Idle EXCEPT !.pc = "edit", !.does = "edit", !.id = i,
                                 !.n = price, !.type = type, !.item = CopyItem(i)]
    <2>1. /\ DOMAIN l = Fields /\ l.pc = "edit" /\ l.n = price /\ l.type = type
          /\ l.item = CopyItem(i) /\ l.order = Idle.order /\ l.batch = Idle.batch
      BY DEF Idle, Fields
    <2>2. \/ Down \/ Answers(t, "failure")
          \/ Goes(t, l) /\ CopyItem(i) # {}
      BY <1>2 DEF SellerEditLoad
    <2>3. \A it \in Copy(items, i) : it.price \in Prices /\ it.type \in Int
      BY Copies DEF Ware
    <2>4. price \in Prices /\ type \in Int
      BY <2>3, TypesAssumption
    <2> HIDE DEF l
    <2>5. ASSUME CopyItem(i) # {}
          PROVE  Sound(N, B, l)
      BY <1>0, <2>1, <2>4, <2>5, Copies
    <2> QED
      BY <2>2, <2>5, ThreadGoes, ThreadEnds
  <1>3. ASSUME NEW i, SellerRemoveLoad(t, i)
        PROVE  ThreadsSound(N, B)'
    <2> DEFINE l == [Idle EXCEPT !.pc = "uncart", !.does = "remove", !.id = i]
    <2>1. /\ DOMAIN l = Fields /\ l.pc = "uncart"
          /\ l.item = Idle.item /\ l.order = Idle.order /\ l.batch = Idle.batch
      BY DEF Idle, Fields
    <2>2. Down \/ Goes(t, l)
      BY <1>3 DEF SellerRemoveLoad
    <2> HIDE DEF l
    <2>3. Sound(N, B, l)
      BY <1>0, <2>1
    <2> QED
      BY <2>2, <2>3, ThreadGoes, ThreadEnds
  <1>4. ASSUME NEW x, \/ SellerEditInvalid(t, x) \/ ListItems(t, x)
                      \/ WalletShow(t) \/ InvalidInput(t)
        PROVE  ThreadsSound(N, B)'
    BY <1>4, ThreadEnds DEF SellerEditInvalid, ListItems, WalletShow, InvalidInput
  <1>5. ASSUME NEW i \in ItemIds, NEW stock \in Stocks,
               \E price \in Prices \cup {it.price : it \in Copy(items, i)},
                  type \in Types \cup {it.type : it \in Copy(items, i)} :
                 SellerEditLoad(t, i, price, type, stock)
        PROVE  ThreadsSound(N, B)'
    BY <1>2, <1>5
  <1> QED
    BY <1>1, <1>3, <1>4, <1>5 DEF AnyoneStart

LEMMA StartSound ==
  ASSUME NEW N, NEW B, Money(N, B), TablesSound(N), ThreadsSound(N, B), Ids, NEW t \in Threads, Start(t)
  PROVE  TablesSound(N)' /\ ThreadsSound(N, B)'
  <1>1. CASE CustomerStart(t)
    BY <1>1, CustomerSound, TablesStill
       DEF CustomerStart, TopupLoad, AddLoad, CartEditLoad, CartShow, OrdersShow,
           ShowLoad, CheckoutLoad
  <1>2. CASE AnyoneStart(t)
    BY <1>2, AnyoneSound, TablesStill
       DEF AnyoneStart, PayLoad, CancelLoad, SellerEditInvalid, SellerRemoveLoad,
           SellerEditLoad, ListItems, WalletShow, InvalidInput
  <1> QED
    BY <1>1, <1>2, SellerSound DEF Start

-----------------------------------------------------------------------------
(* Requests go on *)

LEMMA BatchShrinks ==
  ASSUME NEW f, NEW k
  PROVE  /\ Without(f, k) = [x \in DOMAIN Without(f, k) |-> Without(f, k)[x]]
         /\ DOMAIN Without(f, k) \subseteq DOMAIN f
  BY DEF Without, Keep

\* Handlers of the cart.
LEMMA CartSound ==
  ASSUME NEW N, NEW B, Money(N, B), TablesSound(N), ThreadsSound(N, B), NEW t \in Threads,
         AddStore(t) \/ CartEditStore(t) \/ ShowNext(t) \/ ShowDone(t)
  PROVE  TablesSound(N)' /\ ThreadsSound(N, B)'
  <1> DEFINE k == th[t]
  <1>1. Sound(N, B, k)
    BY DEF ThreadsSound
  <1>2. CASE AddStore(t)
    <2> DEFINE same == Keep(k.batch, {r \in DOMAIN k.batch : k.batch[r].item = k.id})
               r == FirstOf(same)
               row == [same[r] EXCEPT !.quantity = SizeAdd(@, k.n)]
    <2>1. /\ k.user \in Users /\ k.batch \in [DOMAIN k.batch -> Row] /\ k.id \in ItemIds
          /\ k.n \in Size /\ DOMAIN k.batch \subseteq Nat
      BY <1>1, <1>2 DEF AddStore, At, Sound, CopiesSound, RequestSound
    <2>2. CartRow(k.user, k.id, k.n) \in Row
      BY <2>1 DEF CartRow, Row, ItemIds
    <2>3. ASSUME same # Empty
          PROVE  row \in Row
      <3>1. DOMAIN same \subseteq DOMAIN k.batch /\ same = [x \in DOMAIN same |-> same[x]]
            /\ \A x \in DOMAIN same : same[x] = k.batch[x]
        BY DEF Keep
      <3> HIDE DEF same
      <3>2. r \in DOMAIN same
        BY <2>1, <2>3, <3>1, FirstLeft
      <3>3. same[r] \in Row
        BY <2>1, <3>1, <3>2
      <3>4. SizeAdd(same[r].quantity, k.n) \in Size
        BY <2>1, <3>3, SizeClosed DEF Row
      <3> QED
        BY <3>3, <3>4 DEF Row
    <2>4. \/ carts' = Put(carts, lastRow + 1, CartRow(k.user, k.id, k.n))
          \/ same # Empty /\ carts' = Write(carts, r, row)
      BY <1>2 DEF AddStore
    <2> HIDE DEF same, r, row
    <2>5. carts' \in [DOMAIN carts' -> Row]
      <3>1. carts \in [DOMAIN carts -> Row]
        BY DEF TablesSound
      <3>2. CASE carts' = Put(carts, lastRow + 1, CartRow(k.user, k.id, k.n))
        BY <2>2, <3>1, <3>2, TableChanges
      <3>3. CASE same # Empty /\ carts' = Write(carts, r, row)
        BY <2>3, <3>1, <3>3, TableChanges
      <3> QED
        BY <2>4, <3>2, <3>3
    <2> QED
      BY <1>2, <2>5, ThreadEnds DEF AddStore, OnlyCarts, TablesSound
  <1>3. CASE CartEditStore(t)
    <2> DEFINE row == [k.batch[k.id] EXCEPT !.quantity = k.n]
    <2>1. /\ k.batch \in [DOMAIN k.batch -> Row] /\ k.id \in DOMAIN k.batch /\ k.n \in Size
      BY <1>1, <1>3 DEF CartEditStore, At, Sound, CopiesSound, RequestSound
    <2>2. row \in Row
      BY <2>1 DEF Row
    <2>3. carts' = Without(carts, k.id) \/ carts' = Write(carts, k.id, row)
      BY <1>3 DEF CartEditStore
    <2> HIDE DEF row
    <2>4. carts' \in [DOMAIN carts' -> Row]
      <3>1. carts \in [DOMAIN carts -> Row]
        BY DEF TablesSound
      <3>2. CASE carts' = Without(carts, k.id)
        BY <3>1, <3>2, TableChanges
      <3>3. CASE carts' = Write(carts, k.id, row)
        BY <2>2, <3>1, <3>3, TableChanges
      <3> QED
        BY <2>3, <3>2, <3>3
    <2> QED
      BY <1>3, <2>4, ThreadEnds DEF CartEditStore, OnlyCarts, TablesSound
  <1>4. CASE ShowNext(t)
    <2> DEFINE l == [k EXCEPT !.todo = Tail(@)]
    <2>1. DOMAIN k = Fields /\ k.pc = "show"
      BY <1>1, <1>4 DEF Sound, CopiesSound, ShowNext, At
    <2>2. /\ DOMAIN l = Fields /\ l.pc = "show"
          /\ l.item = k.item /\ l.order = k.order /\ l.batch = k.batch
      BY <2>1 DEF Fields
    <2>3. (Down \/ Goes(t, l)) /\ UNCHANGED db
      BY <1>4 DEF ShowNext, Fails
    <2> HIDE DEF l
    <2>4. Sound(N, B, l)
      BY <1>1, <2>2
         DEF Sound, CopiesSound, RequestSound, PaymentSound, CheckoutCalls, PayCalls
    <2> QED
      BY <2>3, <2>4, ThreadGoes, ThreadEnds, TablesStill
  <1>5. CASE ShowDone(t)
    BY <1>5, ThreadEnds, TablesStill DEF ShowDone
  <1> QED
    BY <1>2, <1>3, <1>4, <1>5

\* The loop of cart_checkout.
LEMMA CheckoutSound ==
  ASSUME NEW N, NEW B, Money(N, B), TablesSound(N), ThreadsSound(N, B), NEW t \in Threads,
         \/ CheckoutRow(t) \/ Create(t) \/ Freeze(t) \/ Insert(t) \/ Unrow(t)
         \/ CheckoutDone(t)
  PROVE  TablesSound(N)' /\ ThreadsSound(N, B)'
  <1> DEFINE k == th[t]
  <1>1. Sound(N, B, k) /\ DOMAIN k = Fields
    BY DEF ThreadsSound, Sound, CopiesSound
  <1> DEFINE left == Without(k.batch, k.id)
  <1>2. ASSUME k.pc \in CheckoutCalls
        PROVE  /\ left = [x \in DOMAIN left |-> left[x]] /\ DOMAIN left \subseteq Nat
               /\ left \in [DOMAIN left -> Row]
    BY <1>1, <1>2, BatchShrinks, TableChanges DEF Sound, CopiesSound, RequestSound
  <1> HIDE DEF k, left
  <1>3. ASSUME NEW l, Sound(N, B, l), (Down \/ Goes(t, l)) /\ UNCHANGED db
        PROVE  TablesSound(N)' /\ ThreadsSound(N, B)'
    BY <1>3, ThreadGoes, ThreadEnds, TablesStill
  <1> USE DEF Sound, CopiesSound, RequestSound, PaymentSound, CheckoutCalls, PayCalls
  <1>4. CASE CheckoutRow(t)
    <2> DEFINE r == FirstOf(k.batch)
               it == CopyItem(k.batch[r].item)
               new == NewOrder(k.user, k.batch[r], The(it))
               l == [k EXCEPT !.pc = "create", !.id = r, !.order = {new}]
    <2>1. k.pc = "row" /\ k.batch # Empty
      BY <1>4 DEF CheckoutRow, At, k
    <2>2. (Down \/ (it # {} /\ Goes(t, l))) /\ UNCHANGED db
      BY <1>4 DEF CheckoutRow, Fails, k
    <2>3. /\ k.user \in Users /\ k.batch \in [DOMAIN k.batch -> Row]
          /\ k.batch = [x \in DOMAIN k.batch |-> k.batch[x]] /\ DOMAIN k.batch \subseteq Nat
      BY <1>1, <2>1
    <2>4. r \in DOMAIN k.batch
      BY <2>1, <2>3, FirstLeft
    <2>5. k.batch[r] \in Row
      BY <2>3, <2>4
    <2>6. it \subseteq Ware
      BY Copies
    <2> HIDE DEF r, it
    <2>7. ASSUME it # {}
          PROVE  new \in Order
      BY <2>3, <2>5, <2>6, <2>7, NewOrderType, TheIn
    <2> HIDE DEF new
    <2>8. /\ DOMAIN l = Fields /\ l.pc = "create" /\ l.order = {new}
          /\ l.item = k.item /\ l.batch = k.batch /\ l.user = k.user
      BY <1>1 DEF Fields
    <2> HIDE DEF l
    <2>9. ASSUME it # {}
          PROVE  Sound(N, B, l)
      BY <1>1, <2>3, <2>7, <2>8, <2>9
    <2> QED
      BY <2>2, <2>9, ThreadGoes, ThreadEnds, TablesStill
  <1>5. CASE Create(t)
    <2> DEFINE it == CopyItem(The(k.order).item)
               f == [k EXCEPT !.pc = "freeze", !.item = it]
               n == [k EXCEPT !.pc = "row", !.id = 0, !.order = {}, !.ok = FALSE,
                              !.batch = left]
    <2>1. k.pc = "create"
      BY <1>5 DEF Create, At, k
    <2>2. (Down \/ (it # {} /\ Goes(t, f)) \/ Goes(t, n)) /\ UNCHANGED db
      <3>1. [k EXCEPT !.pc = "row", !.id = 0, !.order = {}, !.ok = FALSE,
                      !.batch = Without(@, k.id)] = n
        BY <1>1 DEF Fields, left
      <3> QED
        BY <1>5, <3>1 DEF Create, Fails, k
    <2>3. /\ DOMAIN f = Fields /\ f.pc = "freeze" /\ f.order = k.order
          /\ f.item = it /\ f.batch = k.batch /\ f.user = k.user
          /\ DOMAIN n = Fields /\ n.pc = "row" /\ n.order = {}
          /\ n.item = k.item /\ n.batch = left /\ n.user = k.user
      BY <1>1 DEF Fields
    <2>4. it \subseteq Ware
      BY Copies
    <2> HIDE DEF f, n, it
    <2>5. ASSUME it # {}
          PROVE  Sound(N, B, f)
      BY <1>1, <2>1, <2>3, <2>4, <2>5
    <2>6. Sound(N, B, n)
      BY <1>1, <1>2, <2>1, <2>3
    <2> QED
      BY <2>2, <2>5, <2>6, ThreadGoes, ThreadEnds, TablesStill
  <1>6. CASE Freeze(t)
    <2> DEFINE new == The(k.order)
               l == [k EXCEPT !.pc = "insert", !.item = {}, !.dirty = TRUE]
    <2>1. k.pc = "freeze" /\ Goes(t, l)
          /\ items' = Write(items, new.item, Froze(The(k.item), new.quantity))
      BY <1>6 DEF Freeze, At, k
    <2>2. new \in Order /\ The(k.item) \in Ware
      BY <1>1, <2>1, TheIn
    <2>3. Froze(The(k.item), new.quantity) \in Ware
      BY <2>2, WareChanges DEF Order
    <2>4. items' \in [DOMAIN items' -> Ware]
      BY <2>1, <2>3, TableChanges DEF TablesSound
    <2>5. /\ DOMAIN l = Fields /\ l.pc = "insert" /\ l.order = k.order
          /\ l.item = {} /\ l.batch = k.batch /\ l.user = k.user
      BY <1>1 DEF Fields
    <2> HIDE DEF l
    <2>6. Sound(N, B, l)
      BY <1>1, <2>1, <2>5
    <2> QED
      BY <1>6, <2>1, <2>4, <2>6, ThreadGoes DEF Freeze, OnlyItems, TablesSound
  <1>7. CASE Insert(t)
    <2> DEFINE l == [k EXCEPT !.pc = "unrow", !.order = {}]
    <2>1. k.pc = "insert" /\ Goes(t, l) /\ orders' = Put(orders, FreshOrderId, The(k.order))
      BY <1>7 DEF Insert, At, k
    <2>2. The(k.order) \in Order
      BY <1>1, <2>1, TheIn
    <2>3. orders' \in [DOMAIN orders' -> Order]
      BY <2>1, <2>2, TableChanges DEF TablesSound
    <2>4. /\ DOMAIN l = Fields /\ l.pc = "unrow" /\ l.order = {}
          /\ l.item = k.item /\ l.batch = k.batch /\ l.user = k.user
      BY <1>1 DEF Fields
    <2> HIDE DEF l
    <2>5. Sound(N, B, l)
      BY <1>1, <2>1, <2>4
    <2> QED
      BY <1>7, <2>1, <2>3, <2>5, ThreadGoes DEF Insert, OnlyOrders, TablesSound
  <1>8. CASE Unrow(t)
    <2> DEFINE l == [k EXCEPT !.pc = "row", !.id = 0, !.dirty = FALSE, !.batch = left]
    <2>1. k.pc = "unrow" /\ carts' = Without(carts, k.id)
      BY <1>8 DEF Unrow, At, k
    <2>2. Goes(t, l)
      <3>1. [k EXCEPT !.pc = "row", !.id = 0, !.dirty = FALSE,
                      !.batch = Without(@, k.id)] = l
        BY <1>1 DEF Fields, left
      <3> QED
        BY <1>8, <3>1 DEF Unrow, k
    <2>3. carts' \in [DOMAIN carts' -> Row]
      BY <2>1, TableChanges DEF TablesSound
    <2>4. /\ DOMAIN l = Fields /\ l.pc = "row" /\ l.order = k.order
          /\ l.item = k.item /\ l.batch = left /\ l.user = k.user
      BY <1>1 DEF Fields
    <2> HIDE DEF l
    <2>5. Sound(N, B, l)
      BY <1>1, <1>2, <2>1, <2>4
    <2> QED
      BY <1>8, <2>2, <2>3, <2>5, ThreadGoes DEF Unrow, OnlyCarts, TablesSound
  <1>9. CASE CheckoutDone(t)
    BY <1>9, ThreadEnds, TablesStill DEF CheckoutDone
  <1> QED
    BY <1>4, <1>5, <1>6, <1>7, <1>8, <1>9

\* orders_pay and orders_cancel.
LEMMA OrderSound ==
  ASSUME NEW N, NEW B, Money(N, B), TablesSound(N), ThreadsSound(N, B), NEW t \in Threads,
         \/ PayCustomer(t) \/ PaySeller(t) \/ PayItem(t) \/ Debit(t) \/ Credit(t)
         \/ MarkSold(t) \/ Reload(t) \/ Unfreeze(t) \/ Close(t)
  PROVE  TablesSound(N)' /\ ThreadsSound(N, B)'
  <1> DEFINE k == th[t]
             ord == The(k.order)
  <1>1. Sound(N, B, k) /\ DOMAIN k = Fields
    BY DEF ThreadsSound, Sound, CopiesSound
  <1>2. k.pc \in PayCalls /\ k.order # {} /\ k.order \subseteq B
    BY <1>1 DEF PayCustomer, PaySeller, PayItem, Debit, Credit, MarkSold, Reload, Unfreeze,
         Close, At, PayCalls, Sound, RequestSound, CopiesSound
  <1>3. ord \in B
    BY <1>2, TheIn
  <1>4. /\ Price(k) \in N /\ ord.quantity \in Size
        /\ ord.customer \in Users /\ ord.seller \in Users
    BY <1>3, OrderAsks DEF Price
  <1>5. ASSUME NEW l, l.order = k.order
        PROVE  Price(l) = Price(k)
    BY <1>5 DEF Price
  <1>6. balance[ord.customer] \in N /\ balance[ord.seller] \in N
    BY <1>4 DEF TablesSound
  <1> HIDE DEF k
  <1> USE DEF Sound, CopiesSound, RequestSound, PaymentSound, CheckoutCalls, PayCalls
  <1>7. CASE PayCustomer(t)
    <2> DEFINE l == [k EXCEPT !.pc = "seller", !.cust = balance[ord.customer]]
    <2>1. k.pc = "customer" /\ Goes(t, l) /\ UNCHANGED db
      BY <1>7 DEF PayCustomer, At, k
    <2>2. /\ DOMAIN l = Fields /\ l.pc = "seller" /\ l.cust = balance[ord.customer]
          /\ l.order = k.order /\ l.item = k.item /\ l.batch = k.batch
      BY <1>1 DEF Fields
    <2> HIDE DEF l
    <2>3. Sound(N, B, l)
      BY <1>1, <1>2, <1>6, <2>2
    <2> QED
      BY <2>1, <2>3, ThreadGoes, TablesStill
  <1>8. CASE PaySeller(t)
    <2> DEFINE l == [k EXCEPT !.pc = "item", !.sell = balance[ord.seller]]
    <2>1. k.pc = "seller" /\ Goes(t, l) /\ UNCHANGED db
      BY <1>8 DEF PaySeller, At, k
    <2>2. /\ DOMAIN l = Fields /\ l.pc = "item" /\ l.sell = balance[ord.seller]
          /\ l.cust = k.cust
          /\ l.order = k.order /\ l.item = k.item /\ l.batch = k.batch
      BY <1>1 DEF Fields
    <2> HIDE DEF l
    <2>3. Sound(N, B, l)
      BY <1>1, <1>2, <1>6, <2>1, <2>2
    <2> QED
      BY <2>1, <2>3, ThreadGoes, TablesStill
  <1>9. CASE PayItem(t)
    <2> DEFINE l == [k EXCEPT !.pc = "debit", !.item = CopyItem(ord.item)]
    <2>1. /\ k.pc = "item" /\ UNCHANGED db
          /\ Answers(t, "failure") \/ (~(k.cust < Price(k)) /\ Goes(t, l))
      BY <1>9 DEF PayItem, At, k
    <2>2. /\ DOMAIN l = Fields /\ l.pc = "debit" /\ l.item = CopyItem(ord.item)
          /\ l.cust = k.cust /\ l.sell = k.sell
          /\ l.order = k.order /\ l.batch = k.batch
      BY <1>1 DEF Fields
    <2> HIDE DEF l
    <2>3. Price(l) = Price(k) /\ k.cust \in N /\ k.sell \in N
      BY <1>1, <1>5, <2>1, <2>2
    <2>4. ASSUME ~(k.cust < Price(k))
          PROVE  Sound(N, B, l)
      <3>1. k.cust >= Price(k)
        <4>1. k.cust \in Int /\ Price(k) \in Int
          BY <1>4, <2>3, MoneyClosed
        <4> QED
          BY <2>4, <4>1
      <3>2. PaymentSound(N, l)
        BY <1>4, <2>2, <2>3, <3>1
      <3> QED
        BY <1>1, <1>2, <2>2, <3>2, Copies
    <2> QED
      BY <2>1, <2>4, ThreadGoes, ThreadEnds, TablesStill
  <1>10. CASE Debit(t)
    <2> DEFINE l == [k EXCEPT !.pc = "credit", !.dirty = TRUE]
    <2>1. /\ k.pc = "debit" /\ Goes(t, l)
          /\ balance' = [balance EXCEPT ![ord.customer] = k.cust - Price(k)]
      BY <1>10 DEF Debit, At, k
    <2>2. k.cust - Price(k) \in N
      BY <1>1, <1>4, <2>1, MoneyClosed
    <2>3. balance' \in [Users -> N]
      BY <2>1, <2>2 DEF TablesSound
    <2>4. /\ DOMAIN l = Fields /\ l.pc = "credit" /\ l.sell = k.sell
          /\ l.order = k.order /\ l.item = k.item /\ l.batch = k.batch
      BY <1>1 DEF Fields
    <2> HIDE DEF l
    <2>5. Sound(N, B, l)
      BY <1>1, <1>2, <2>1, <2>4
    <2> QED
      BY <1>10, <2>1, <2>3, <2>5, ThreadGoes DEF Debit, OnlyBalance, TablesSound
  <1>11. CASE Credit(t)
    <2> DEFINE l == [k EXCEPT !.pc = "sold"]
    <2>1. /\ k.pc = "credit" /\ Goes(t, l)
          /\ balance' = [balance EXCEPT ![ord.seller] = k.sell + Price(k)]
      BY <1>11 DEF Credit, At, k
    <2>2. k.sell + Price(k) \in N
      BY <1>1, <1>4, <2>1, MoneyClosed
    <2>3. balance' \in [Users -> N]
      BY <2>1, <2>2 DEF TablesSound
    <2>4. /\ DOMAIN l = Fields /\ l.pc = "sold"
          /\ l.order = k.order /\ l.item = k.item /\ l.batch = k.batch
      BY <1>1 DEF Fields
    <2> HIDE DEF l
    <2>5. Sound(N, B, l)
      BY <1>1, <1>2, <2>1, <2>4
    <2> QED
      BY <1>11, <2>1, <2>3, <2>5, ThreadGoes DEF Credit, OnlyBalance, TablesSound
  <1>12. CASE MarkSold(t)
    <2> DEFINE l == [k EXCEPT !.pc = "reload", !.item = {}]
               row == Sold(The(k.item), ord.quantity)
    <2>1. \/ Down /\ UNCHANGED db
          \/ /\ k.item # {} /\ Goes(t, l) /\ OnlyItems
             /\ items' = Write(items, ord.item, row)
      BY <1>12 DEF MarkSold, Fails, k
    <2>2. ASSUME k.item # {}
          PROVE  row \in Ware
      BY <1>1, <1>4, <2>2, TheIn, WareChanges
    <2>3. /\ DOMAIN l = Fields /\ l.pc = "reload" /\ l.item = {}
          /\ l.order = k.order /\ l.batch = k.batch
      BY <1>1 DEF Fields
    <2> HIDE DEF l, row
    <2>4. Sound(N, B, l)
      BY <1>1, <1>2, <2>3
    <2>5. CASE k.item # {} /\ Goes(t, l) /\ OnlyItems /\ items' = Write(items, ord.item, row)
      <3>1. items' \in [DOMAIN items' -> Ware]
        BY <2>2, <2>5, TableChanges DEF TablesSound
      <3> QED
        BY <2>4, <2>5, <3>1, ThreadGoes DEF OnlyItems, TablesSound
    <2> QED
      BY <2>1, <2>5, ThreadEnds, TablesStill
  <1>13. CASE Reload(t)
    <2> DEFINE it == CopyItem(ord.item)
               l == [k EXCEPT !.pc = "unfreeze", !.item = it]
    <2>1. (Down \/ (it # {} /\ Goes(t, l))) /\ UNCHANGED db
      BY <1>13 DEF Reload, Fails, k
    <2>2. it \subseteq Ware
      BY Copies
    <2> HIDE DEF it
    <2>3. /\ DOMAIN l = Fields /\ l.pc = "unfreeze" /\ l.item = it
          /\ l.order = k.order /\ l.batch = k.batch
      BY <1>1 DEF Fields
    <2> HIDE DEF l
    <2>4. ASSUME it # {}
          PROVE  Sound(N, B, l)
      BY <1>1, <1>2, <2>2, <2>3, <2>4
    <2> QED
      BY <2>1, <2>4, ThreadGoes, ThreadEnds, TablesStill
  <1>14. CASE Unfreeze(t)
    <2> DEFINE l == [k EXCEPT !.pc = "close", !.item = {}, !.dirty = TRUE]
               row == Unfroze(The(k.item), ord.quantity)
    <2>1. /\ k.pc = "unfreeze" /\ Goes(t, l) /\ OnlyItems
          /\ items' = Write(items, ord.item, row)
      BY <1>14 DEF Unfreeze, At, k
    <2>2. row \in Ware
      BY <1>1, <1>4, <2>1, TheIn, WareChanges
    <2>3. /\ DOMAIN l = Fields /\ l.pc = "close" /\ l.item = {}
          /\ l.order = k.order /\ l.batch = k.batch
      BY <1>1 DEF Fields
    <2> HIDE DEF l, row
    <2>4. Sound(N, B, l)
      BY <1>1, <1>2, <2>3
    <2>5. items' \in [DOMAIN items' -> Ware]
      BY <2>1, <2>2, TableChanges DEF TablesSound
    <2> QED
      BY <2>1, <2>4, <2>5, ThreadGoes DEF OnlyItems, TablesSound
  <1>15. CASE Close(t)
    <2>1. orders' \in [DOMAIN orders' -> Order]
      BY <1>15, TableChanges DEF Close, TablesSound
    <2> QED
      BY <1>15, <2>1, ThreadEnds DEF Close, OnlyOrders, TablesSound
  <1> QED
    BY <1>7, <1>8, <1>9, <1>10, <1>11, <1>12, <1>13, <1>14, <1>15

\* The last calls of wallet_topup and of the seller's requests.
LEMMA StoresSound ==
  ASSUME NEW N, NEW B, Money(N, B), TablesSound(N), ThreadsSound(N, B), NEW t \in Threads,
         \/ TopupStore(t) \/ EditStore(t) \/ Uncart(t) \/ Drop(t) \/ SaleStore(t)
         \/ SaleDone(t)
  PROVE  TablesSound(N)' /\ ThreadsSound(N, B)'
  <1> DEFINE k == th[t]
  <1>1. Sound(N, B, k) /\ DOMAIN k = Fields
    BY DEF ThreadsSound, Sound, CopiesSound
  <1> HIDE DEF k
  <1> USE DEF Sound, CopiesSound, RequestSound, PaymentSound, CheckoutCalls, PayCalls
  <1>2. CASE TopupStore(t)
    <2>1. /\ k.pc = "topup" /\ Answers(t, "success")
          /\ balance' = [balance EXCEPT ![k.user] = k.cust + k.n]
      BY <1>2 DEF TopupStore, At, k
    <2>2. k.cust + k.n \in N
      <3>1. k.cust \in N /\ k.n \in Topups
        BY <1>1, <2>1
      <3> QED
        BY <3>1, MoneyClosed
    <2>3. balance' \in [Users -> N]
      BY <2>1, <2>2 DEF TablesSound
    <2> QED
      BY <1>2, <2>3, ThreadEnds DEF TopupStore, OnlyBalance, TablesSound
  <1>3. CASE EditStore(t)
    <2> DEFINE row == [The(k.item) EXCEPT !.price = k.n, !.type = k.type]
    <2>1. k.pc = "edit" /\ items' = Write(items, k.id, row)
      BY <1>3 DEF EditStore, At, k
    <2>2. The(k.item) \in Ware
      BY <1>1, <2>1, TheIn
    <2>3. row \in Ware
      BY <1>1, <2>1, <2>2, WareChanges
    <2> HIDE DEF row
    <2>4. items' \in [DOMAIN items' -> Ware]
      BY <2>1, <2>3, TableChanges DEF TablesSound
    <2> QED
      BY <1>3, <2>4, ThreadEnds DEF EditStore, OnlyItems, TablesSound
  <1>4. CASE Uncart(t)
    <2> DEFINE l == [k EXCEPT !.pc = "drop", !.dirty = TRUE]
    <2>1. Goes(t, l) /\ OnlyCarts
      BY <1>4 DEF Uncart, k
    <2>2. carts' \in [DOMAIN carts' -> Row]
      BY <1>4, TableChanges DEF Uncart, TablesSound
    <2>3. /\ DOMAIN l = Fields /\ l.pc = "drop"
          /\ l.item = k.item /\ l.order = k.order /\ l.batch = k.batch
      BY <1>1 DEF Fields
    <2> HIDE DEF l
    <2>4. Sound(N, B, l)
      BY <1>1, <2>3
    <2> QED
      BY <2>1, <2>2, <2>4, ThreadGoes DEF OnlyCarts, TablesSound
  <1>5. CASE Drop(t)
    <2>1. items' \in [DOMAIN items' -> Ware]
      BY <1>5, TableChanges DEF Drop, TablesSound
    <2> QED
      BY <1>5, <2>1, ThreadEnds DEF Drop, OnlyItems, TablesSound
  <1>6. CASE SaleStore(t)
    <2> DEFINE i == FirstOf(k.batch)
               left == Without(k.batch, i)
               row == [k.batch[i] EXCEPT !.discount = k.n]
               l == [k EXCEPT !.batch = left, !.dirty = TRUE]
    <2>1. /\ k.pc = "sale" /\ k.batch # Empty /\ OnlyItems
          /\ items' = Write(items, i, row)
      BY <1>6 DEF SaleStore, At, k
    <2>2. Goes(t, l)
      <3>1. [k EXCEPT !.batch = Without(@, i), !.dirty = TRUE] = l
        BY <1>1 DEF Fields
      <3> QED
        BY <1>6, <3>1 DEF SaleStore, k
    <2>3. /\ k.n \in Discounts /\ k.batch \in [DOMAIN k.batch -> Ware]
          /\ k.batch = [x \in DOMAIN k.batch |-> k.batch[x]] /\ DOMAIN k.batch \subseteq Nat
      BY <1>1, <2>1
    <2>4. i \in DOMAIN k.batch
      BY <2>1, <2>3, FirstLeft
    <2>5. row \in Ware
      BY <2>3, <2>4, WareChanges
    <2> HIDE DEF row, i
    <2>6. items' \in [DOMAIN items' -> Ware]
      BY <2>1, <2>5, TableChanges DEF TablesSound
    <2>7. /\ left = [x \in DOMAIN left |-> left[x]] /\ DOMAIN left \subseteq Nat
          /\ left \in [DOMAIN left -> Ware]
      BY <2>3, BatchShrinks, TableChanges
    <2> HIDE DEF left
    <2>8. /\ DOMAIN l = Fields /\ l.pc = k.pc /\ l.n = k.n
          /\ l.item = k.item /\ l.order = k.order /\ l.batch = left
      BY <1>1 DEF Fields
    <2> HIDE DEF l
    <2>9. Sound(N, B, l)
      BY <1>1, <2>1, <2>7, <2>8
    <2> QED
      BY <2>1, <2>2, <2>6, <2>9, ThreadGoes DEF OnlyItems, TablesSound
  <1>7. CASE SaleDone(t)
    BY <1>7, ThreadEnds, TablesStill DEF SaleDone
  <1> QED
    BY <1>2, <1>3, <1>4, <1>5, <1>6, <1>7

-----------------------------------------------------------------------------
(* No overdraft *)

LEMMA SoundStep ==
  ASSUME NEW N, NEW B, Money(N, B), TablesSound(N), ThreadsSound(N, B), Ids, [Next]_vars
  PROVE  TablesSound(N)' /\ ThreadsSound(N, B)'
  <1>1. ASSUME NEW t \in Threads, Continue(t)
        PROVE  TablesSound(N)' /\ ThreadsSound(N, B)'
    BY <1>1, CartSound, CheckoutSound, OrderSound, StoresSound DEF Continue
  <1>2. CASE Kill \/ Restart \/ UNCHANGED vars
    <2>1. UNCHANGED db /\ (UNCHANGED th \/ th' = [t \in Threads |-> Idle])
      BY <1>2 DEF Kill, Restart, Down, vars
    <2> QED
      BY <2>1, TablesStill, IdleSound DEF ThreadsSound
  <1>3. ASSUME NEW t \in Threads, Step(t)
        PROVE  TablesSound(N)' /\ ThreadsSound(N, B)'
    BY <1>1, <1>3, StartSound DEF Step
  <1> QED
    BY <1>2, <1>3 DEF Next

LEMMA InitSound ==
  ASSUME NEW N, NEW B, 0 \in N, Init
  PROVE  Ids /\ TablesSound(N) /\ ThreadsSound(N, B)
  BY IdleSound DEF Init, Ids, TablesSound, ThreadsSound, Empty

\* If top-ups bring money and no order does, then whatever the threads do
\* between each other's calls, and whenever the process dies, no wallet is
\* ever below zero: each thread writes the difference base_user::pay tested.
THEOREM WalletsCovered ==
  ASSUME Topups \subseteq Nat
  PROVE  Spec /\ []OrdersAsk => []NoOverdraft
  <1>1. Init => Ids /\ TablesSound(Nat) /\ ThreadsSound(Nat, Bill)
    BY InitSound
  <1>2. OrdersAsk /\ (Ids /\ TablesSound(Nat) /\ ThreadsSound(Nat, Bill)) /\ [Next]_vars
          => (Ids /\ TablesSound(Nat) /\ ThreadsSound(Nat, Bill))'
    BY IdsStep, SoundStep DEF Money
  <1>3. TablesSound(Nat) => NoOverdraft
    BY DEF TablesSound, NoOverdraft
  <1> QED
    BY <1>1, <1>2, <1>3, PTL DEF Spec

-----------------------------------------------------------------------------
(* Types *)

\* What thread state l says of what its request has still to do.
Placed(l) ==
  /\ DOMAIN l = Fields
  /\ l.pc = "idle" => l = Idle
  /\ l.does = "checkout" <=> l.pc \in CheckoutCalls
  /\ l.does = "checkout" => DOMAIN l.batch \subseteq RowIds
  /\ l.pc \in CheckoutCalls \ {"row"} => l.id \in DOMAIN l.batch

\* Ids stay within their bounds whatever the requests under way still insert, and
\* no request is under way while the process is down.
Bounded ==
  /\ DOMAIN th = Threads
  /\ \A t \in Threads : Placed(th[t]) /\ (~up => th[t] = Idle)
  /\ lastItem \in 0 .. MaxItems
  /\ lastOrder \in Nat /\ lastOrder + OrdersComing <= MaxOrders
  /\ lastRow \in Nat /\ lastRow + RowsComing <= MaxRows

LEMMA IdlePlaced == Placed(Idle) /\ ToOrder(Idle) = {} /\ Idle.pc # "add"
  BY DEF Placed, Idle, Fields, CheckoutCalls, ToOrder

LEMMA PlacedToOrder ==
  ASSUME NEW l, Placed(l)
  PROVE  ToOrder(l) \subseteq RowIds
  BY DEF Placed, ToOrder

-----------------------------------------------------------------------------
(* How many orders and rows are coming *)

\* The rows to be ordered by threads in the states f.
Pairs(f) == UNION {{t} \X ToOrder(f[t]) : t \in Threads}

LEMMA PairsFinite ==
  ASSUME NEW f, \A t \in Threads : ToOrder(f[t]) \subseteq RowIds
  PROVE  IsFiniteSet(Pairs(f)) /\ Cardinality(Pairs(f)) \in Nat
  <1>1. IsFiniteSet(RowIds)
    BY FS_Interval, BoundsAssumption DEF RowIds
  <1>2. IsFiniteSet(Threads \X RowIds)
    BY <1>1, FS_Product, ThreadsAssumption
  <1>3. Pairs(f) \in SUBSET (Threads \X RowIds)
    BY DEF Pairs
  <1> QED
    BY <1>2, <1>3, FS_Subset, FS_CardinalityType

LEMMA PairsFewer ==
  ASSUME NEW f, DOMAIN f = Threads, \A t \in Threads : ToOrder(f[t]) \subseteq RowIds,
         NEW t \in Threads, NEW l, ToOrder(l) \subseteq ToOrder(f[t])
  PROVE  Cardinality(Pairs([f EXCEPT ![t] = l])) <= Cardinality(Pairs(f))
  <1> DEFINE g == [f EXCEPT ![t] = l]
  <1>1. g[t] = l /\ \A s \in Threads \ {t} : g[s] = f[s]
    OBVIOUS
  <1> HIDE DEF g
  <1>2. Pairs(g) \in SUBSET Pairs(f)
    BY <1>1 DEF Pairs
  <1> QED
    BY <1>2, PairsFinite, FS_Subset DEF g

LEMMA PairsOneLess ==
  ASSUME NEW f, DOMAIN f = Threads, \A t \in Threads : ToOrder(f[t]) \subseteq RowIds,
         NEW t \in Threads, NEW l, NEW r \in ToOrder(f[t]), ToOrder(l) = ToOrder(f[t]) \ {r}
  PROVE  Cardinality(Pairs([f EXCEPT ![t] = l])) = Cardinality(Pairs(f)) - 1
  <1> DEFINE g == [f EXCEPT ![t] = l]
  <1>1. g[t] = l /\ \A s \in Threads \ {t} : g[s] = f[s]
    OBVIOUS
  <1> HIDE DEF g
  <1>2. <<t, r>> \in Pairs(f)
    BY DEF Pairs
  <1>3. \A s \in Threads : {s} \X ToOrder(g[s]) = ({s} \X ToOrder(f[s])) \ {<<t, r>>}
    BY <1>1
  <1>4. Pairs(g) = Pairs(f) \ {<<t, r>>}
    BY <1>3 DEF Pairs
  <1> QED
    BY <1>2, <1>4, PairsFinite, FS_RemoveElement DEF g

LEMMA PairsMore ==
  ASSUME NEW f, DOMAIN f = Threads, \A t \in Threads : ToOrder(f[t]) \subseteq RowIds,
         NEW t \in Threads, NEW l, ToOrder(l) \subseteq RowIds
  PROVE  /\ Cardinality(ToOrder(l)) \in Nat
         /\ Cardinality(Pairs([f EXCEPT ![t] = l]))
              <= Cardinality(Pairs(f)) + Cardinality(ToOrder(l))
  <1> DEFINE g == [f EXCEPT ![t] = l]
             new == {t} \X ToOrder(l)
  <1>1. g[t] = l /\ \A s \in Threads \ {t} : g[s] = f[s]
    OBVIOUS
  <1>2. IsFiniteSet(ToOrder(l)) /\ Cardinality(ToOrder(l)) \in Nat
    <2>1. IsFiniteSet(RowIds)
      BY FS_Interval, BoundsAssumption DEF RowIds
    <2> QED
      BY <2>1, FS_Subset, FS_CardinalityType
  <1>3. IsFiniteSet(new) /\ Cardinality(new) = Cardinality(ToOrder(l))
    <2>1. IsFiniteSet({t}) /\ Cardinality({t}) = 1
      BY FS_Singleton
    <2>2. IsFiniteSet(new) /\ Cardinality(new) = Cardinality({t}) * Cardinality(ToOrder(l))
      BY <1>2, <2>1, FS_Product
    <2> QED
      BY <1>2, <2>1, <2>2
  <1>4. \A s \in Threads : {s} \X ToOrder(g[s]) \subseteq ({s} \X ToOrder(f[s])) \cup new
    BY <1>1
  <1> HIDE DEF g, new
  <1>5. Pairs(g) \in SUBSET (Pairs(f) \cup new)
    BY <1>4 DEF Pairs
  <1>6. /\ IsFiniteSet(Pairs(f) \cup new)
        /\ Cardinality(Pairs(f) \cup new) <= Cardinality(Pairs(f)) + Cardinality(new)
    <2>1. IsFiniteSet(Pairs(f) \cap new) /\ Cardinality(Pairs(f) \cap new) \in Nat
      BY <1>3, FS_Intersection, FS_CardinalityType
    <2>2. /\ IsFiniteSet(Pairs(f) \cup new)
          /\ Cardinality(Pairs(f) \cup new) =
               Cardinality(Pairs(f)) + Cardinality(new) - Cardinality(Pairs(f) \cap new)
      BY <1>3, PairsFinite, FS_Union
    <2>3. Cardinality(Pairs(f)) \in Nat /\ Cardinality(new) \in Nat
      BY <1>2, <1>3, PairsFinite
    <2> QED
      BY <2>1, <2>2, <2>3
  <1>7. Cardinality(Pairs(g)) <= Cardinality(Pairs(f) \cup new)
    BY <1>5, <1>6, FS_Subset
  <1>8. /\ Cardinality(Pairs(g)) \in Nat /\ Cardinality(Pairs(f) \cup new) \in Nat
        /\ Cardinality(Pairs(f)) \in Nat
    <2>1. Cardinality(Pairs(f) \cup new) \in Nat
      BY <1>6, FS_CardinalityType
    <2>2. IsFiniteSet(Pairs(g))
      BY <1>5, <1>6, FS_Subset
    <2> QED
      BY <2>1, <2>2, PairsFinite, FS_CardinalityType
  <1>9. Cardinality(Pairs(g)) <= Cardinality(Pairs(f)) + Cardinality(ToOrder(l))
    BY <1>2, <1>3, <1>6, <1>7, <1>8
  <1> QED
    BY <1>2, <1>9 DEF g

\* The threads that add a row, in the states f.
Adding(f) == {t \in Threads : f[t].pc = "add"}

LEMMA AddingChanges ==
  ASSUME NEW f, DOMAIN f = Threads, NEW t \in Threads, NEW l
  PROVE  LET g == [f EXCEPT ![t] = l]
         IN /\ Cardinality(Adding(f)) \in Nat /\ Cardinality(Adding(g)) \in Nat
            /\ l.pc # "add" => Cardinality(Adding(g)) <= Cardinality(Adding(f))
            /\ l.pc # "add" /\ f[t].pc = "add" =>
                 Cardinality(Adding(g)) = Cardinality(Adding(f)) - 1
            /\ Cardinality(Adding(g)) <= Cardinality(Adding(f)) + 1
  <1> DEFINE g == [f EXCEPT ![t] = l]
  <1>1. g[t] = l /\ \A s \in Threads \ {t} : g[s] = f[s]
    OBVIOUS
  <1> HIDE DEF g
  <1>2. /\ IsFiniteSet(Adding(f)) /\ Cardinality(Adding(f)) \in Nat
        /\ IsFiniteSet(Adding(g)) /\ Cardinality(Adding(g)) \in Nat
    <2>1. Adding(f) \in SUBSET Threads /\ Adding(g) \in SUBSET Threads
      BY DEF Adding
    <2> QED
      BY <2>1, ThreadsAssumption, FS_Subset, FS_CardinalityType
  <1>3. l.pc # "add" => Adding(g) = Adding(f) \ {t}
    BY <1>1 DEF Adding
  <1>4. l.pc = "add" => Adding(g) = Adding(f) \cup {t}
    BY <1>1 DEF Adding
  <1>5. t \in Adding(f) <=> f[t].pc = "add"
    BY DEF Adding
  <1>6. Cardinality(Adding(f) \ {t}) =
          IF t \in Adding(f) THEN Cardinality(Adding(f)) - 1 ELSE Cardinality(Adding(f))
    BY <1>2, FS_RemoveElement
  <1>7. Cardinality(Adding(f) \cup {t}) =
          IF t \in Adding(f) THEN Cardinality(Adding(f)) ELSE Cardinality(Adding(f)) + 1
    BY <1>2, FS_AddElement
  <1> DEFINE m == Cardinality(Adding(f))
             n == Cardinality(Adding(g))
  <1>8. m \in Nat /\ n \in Nat
    BY <1>2
  <1>9. l.pc # "add" => n = IF f[t].pc = "add" THEN m - 1 ELSE m
    BY <1>3, <1>5, <1>6
  <1>10. l.pc = "add" => n = IF f[t].pc = "add" THEN m ELSE m + 1
    BY <1>4, <1>5, <1>7
  <1> HIDE DEF m, n
  <1>11. /\ l.pc # "add" => n <= m
         /\ l.pc # "add" /\ f[t].pc = "add" => n = m - 1
         /\ n <= m + 1
    BY <1>8, <1>9, <1>10
  <1> QED
    BY <1>8, <1>11 DEF g, m, n

-----------------------------------------------------------------------------
(* Every step stays within the bounds *)

\* Thread t goes on as l: what it has still to insert grows only as far as the
\* bounds allow, and what it inserts it has no longer to insert.
Advances(t, l) ==
  /\ up /\ up' /\ th' = [th EXCEPT ![t] = l] /\ Placed(l) /\ lastItem' \in 0 .. MaxItems
  /\ \/ lastOrder' = lastOrder /\ ToOrder(l) \subseteq ToOrder(th[t])
     \/ /\ lastOrder' = lastOrder
        /\ lastOrder + OrdersComing + Cardinality(ToOrder(l)) <= MaxOrders
     \/ /\ lastOrder' = lastOrder + 1
        /\ \E r \in ToOrder(th[t]) : ToOrder(l) = ToOrder(th[t]) \ {r}
  /\ \/ lastRow' = lastRow /\ l.pc # "add"
     \/ lastRow' = lastRow /\ lastRow + RowsComing < MaxRows
     \/ lastRow' = lastRow + 1 /\ th[t].pc = "add" /\ l.pc # "add"

Within(t) == (Down /\ UNCHANGED db) \/ \E l : Advances(t, l)

LEMMA AnswersWithin ==
  ASSUME Bounded, NEW t \in Threads, NEW r, Answers(t, r), up, lastItem' \in 0 .. MaxItems,
         lastOrder' = lastOrder,
         lastRow' = lastRow \/ (lastRow' = lastRow + 1 /\ th[t].pc = "add")
  PROVE  Within(t)
  <1>1. Advances(t, Idle)
    BY IdlePlaced DEF Advances, Answers
  <1> QED
    BY <1>1 DEF Within

\* A request that inserts neither orders nor rows.
LEMMA GoesWithin ==
  ASSUME Bounded, NEW t \in Threads, NEW l, Goes(t, l), up,
         UNCHANGED <<lastItem, lastOrder, lastRow>>,
         DOMAIN l = Fields, l.does # "checkout", l.pc \notin CheckoutCalls \cup {"idle", "add"}
  PROVE  Within(t)
  <1>1. Placed(l) /\ ToOrder(l) = {}
    BY DEF Placed, ToOrder
  <1>2. Advances(t, l)
    BY <1>1 DEF Advances, Goes, Bounded
  <1> QED
    BY <1>2 DEF Within

\* A checkout that goes on.
LEMMA CheckoutWithin ==
  ASSUME Bounded, NEW t \in Threads, NEW l, Goes(t, l), up,
         UNCHANGED <<lastItem, lastOrder, lastRow>>, Placed(l), l.does = "checkout",
         ToOrder(l) \subseteq ToOrder(th[t])
  PROVE  Within(t)
  <1>1. l.pc # "add"
    BY DEF Placed, CheckoutCalls
  <1>2. Advances(t, l)
    BY <1>1 DEF Advances, Goes, Bounded
  <1> QED
    BY <1>2 DEF Within

LEMMA LoadsWithin ==
  ASSUME Bounded, Ids, NEW t \in Threads, up, CustomerStart(t)
  PROVE  Within(t)
  <1> USE DEF Fields, Idle, CheckoutCalls
  <1>1. ASSUME NEW u, NEW a, TopupLoad(t, u, a)
        PROVE  Within(t)
    <2> DEFINE l == [Idle EXCEPT !.pc = "topup", !.does = "topup", !.user = u,
                                 !.n = a, !.cust = balance[u]]
    <2>1. DOMAIN l = Fields /\ l.pc = "topup" /\ l.does = "topup"
      OBVIOUS
    <2>2. Goes(t, l) /\ UNCHANGED db
      BY <1>1 DEF TopupLoad
    <2> HIDE DEF l
    <2> QED
      BY <2>1, <2>2, GoesWithin DEF db
  <1>2. ASSUME NEW u, NEW i, NEW q, AddLoad(t, u, i, q)
        PROVE  Within(t)
    <2> DEFINE l == [Idle EXCEPT !.pc = "add", !.does = "cart", !.user = u, !.id = i,
                                 !.n = q, !.batch = RowsOf(u)]
    <2>1. DOMAIN l = Fields /\ l.pc = "add" /\ l.does = "cart"
      OBVIOUS
    <2>2. Goes(t, l) /\ UNCHANGED db /\ lastRow + RowsComing < MaxRows
      BY <1>2 DEF AddLoad
    <2> HIDE DEF l
    <2>3. Placed(l) /\ ToOrder(l) = {}
      BY <2>1 DEF Placed, ToOrder
    <2>4. Advances(t, l)
      BY <2>2, <2>3 DEF Advances, Goes, Bounded, db
    <2> QED
      BY <2>4 DEF Within
  <1>3. ASSUME NEW u, NEW r, NEW q, CartEditLoad(t, u, r, q)
        PROVE  Within(t)
    <2> DEFINE l == [Idle EXCEPT !.pc = "cart_edit", !.does = "cart", !.user = u,
                                 !.id = r, !.n = q, !.batch = RowsOf(u)]
    <2>1. DOMAIN l = Fields /\ l.pc = "cart_edit" /\ l.does = "cart"
      OBVIOUS
    <2>2. (Goes(t, l) \/ Answers(t, "failure")) /\ UNCHANGED db
      BY <1>3 DEF CartEditLoad
    <2> HIDE DEF l
    <2> QED
      BY <2>1, <2>2, GoesWithin, AnswersWithin DEF db, Bounded
  <1>4. ASSUME NEW sought, ShowLoad(t, sought)
        PROVE  Within(t)
    <2> DEFINE l == [Idle EXCEPT !.pc = "show", !.does = "show", !.todo = sought]
    <2>1. DOMAIN l = Fields /\ l.pc = "show" /\ l.does = "show"
      OBVIOUS
    <2>2. Goes(t, l) /\ UNCHANGED db
      BY <1>4 DEF ShowLoad
    <2> HIDE DEF l
    <2> QED
      BY <2>1, <2>2, GoesWithin DEF db
  <1>5. ASSUME NEW u, CheckoutLoad(t, u)
        PROVE  Within(t)
    <2> DEFINE b == RowsOf(u)
               l == [Idle EXCEPT !.pc = "row", !.does = "checkout", !.user = u, !.batch = b]
    <2>1. DOMAIN l = Fields /\ l.pc = "row" /\ l.does = "checkout" /\ l.batch = b
      OBVIOUS
    <2>2. /\ Goes(t, l) /\ UNCHANGED db
          /\ lastOrder + OrdersComing + Cardinality(DOMAIN b) <= MaxOrders
      BY <1>5 DEF CheckoutLoad
    <2>3. DOMAIN b \subseteq RowIds
      <3>1. DOMAIN b \subseteq DOMAIN carts
        BY DEF RowsOf, Keep
      <3>2. RowsComing \in Nat
        BY AddingChanges DEF Adding, RowsComing, Bounded
      <3>3. lastRow <= MaxRows
        BY <3>2, BoundsAssumption DEF Bounded
      <3> QED
        BY <3>1, <3>3, BoundsAssumption DEF Ids, RowIds
    <2> HIDE DEF l, b
    <2>4. Placed(l) /\ ToOrder(l) = DOMAIN b /\ l.pc # "add"
      BY <2>1, <2>3 DEF Placed, ToOrder
    <2>5. Advances(t, l)
      BY <2>2, <2>4 DEF Advances, Goes, Bounded, db
    <2> QED
      BY <2>5 DEF Within
  <1> QED
    BY <1>1, <1>2, <1>3, <1>4, <1>5 DEF CustomerStart, CartShow, OrdersShow

LEMMA StartsWithin ==
  ASSUME Bounded, Ids, NEW t \in Threads, up, SellerStart(t) \/ AnyoneStart(t)
  PROVE  Within(t)
  <1> USE DEF Fields, Idle, CheckoutCalls
  <1>0. ASSUME UNCHANGED db, Down \/ \E r : Answers(t, r)
        PROVE  Within(t)
    BY <1>0, AnswersWithin DEF Within, db, Bounded
  <1>1. ASSUME NEW s, NEW price, NEW type, SellerAdd(t, s, price, type)
        PROVE  Within(t)
    <2>1. lastItem' \in 0 .. MaxItems
      BY <1>1, BoundsAssumption DEF SellerAdd, Bounded
    <2> QED
      BY <1>1, <2>1, AnswersWithin DEF SellerAdd
  <1>2. ASSUME NEW s, NEW type, NEW d, SellerSaleLoad(t, s, type, d)
        PROVE  Within(t)
    <2> DEFINE chosen == Keep(items, {i \in DOMAIN items :
                                 items[i].seller = s /\ items[i].type = type})
               l == [Idle EXCEPT !.pc = "sale", !.does = "sale", !.n = d, !.batch = chosen]
    <2>1. DOMAIN l = Fields /\ l.pc = "sale" /\ l.does = "sale"
      OBVIOUS
    <2>2. (Down \/ Goes(t, l)) /\ UNCHANGED db
      BY <1>2 DEF SellerSaleLoad
    <2> HIDE DEF l
    <2> QED
      BY <1>0, <2>1, <2>2, GoesWithin DEF db
  <1>3. ASSUME NEW o, PayLoad(t, o) \/ CancelLoad(t, o)
        PROVE  Within(t)
    <2> DEFINE p == [Idle EXCEPT !.pc = "customer", !.does = "pay", !.id = o,
                                 !.order = Copy(orders, o)]
               c == [Idle EXCEPT !.pc = "reload", !.does = "cancel", !.id = o,
                                 !.order = Copy(orders, o)]
    <2>1. /\ DOMAIN p = Fields /\ p.pc = "customer" /\ p.does = "pay"
          /\ DOMAIN c = Fields /\ c.pc = "reload" /\ c.does = "cancel"
      OBVIOUS
    <2>2. (Down \/ Goes(t, p) \/ Goes(t, c) \/ \E r : Answers(t, r)) /\ UNCHANGED db
      BY <1>3 DEF PayLoad, CancelLoad
    <2> HIDE DEF p, c
    <2> QED
      BY <1>0, <2>1, <2>2, GoesWithin DEF db
  <1>4. ASSUME NEW i, NEW price, NEW type, NEW stock, SellerEditLoad(t, i, price, type, stock)
        PROVE  Within(t)
    <2> DEFINE l == [Idle EXCEPT !.pc = "edit", !.does = "edit", !.id = i,
                                 !.n = price, !.type = type, !.item = CopyItem(i)]
    <2>1. DOMAIN l = Fields /\ l.pc = "edit" /\ l.does = "edit"
      OBVIOUS
    <2>2. (Down \/ Goes(t, l) \/ \E r : Answers(t, r)) /\ UNCHANGED db
      BY <1>4 DEF SellerEditLoad
    <2> HIDE DEF l
    <2> QED
      BY <1>0, <2>1, <2>2, GoesWithin DEF db
  <1>5. ASSUME NEW i, SellerRemoveLoad(t, i)
        PROVE  Within(t)
    <2> DEFINE l == [Idle EXCEPT !.pc = "uncart", !.does = "remove", !.id = i]
    <2>1. DOMAIN l = Fields /\ l.pc = "uncart" /\ l.does = "remove"
      OBVIOUS
    <2>2. (Down \/ Goes(t, l)) /\ UNCHANGED db
      BY <1>5 DEF SellerRemoveLoad
    <2> HIDE DEF l
    <2> QED
      BY <1>0, <2>1, <2>2, GoesWithin DEF db
  <1>6. ASSUME NEW x, \/ SellerEditInvalid(t, x) \/ ListItems(t, x)
                      \/ WalletShow(t) \/ InvalidInput(t)
        PROVE  Within(t)
    BY <1>0, <1>6 DEF SellerEditInvalid, ListItems, WalletShow, InvalidInput
  <1> QED
    BY <1>1, <1>2, <1>3, <1>4, <1>5, <1>6 DEF SellerStart, AnyoneStart

LEMMA ContinueWithin ==
  ASSUME Bounded, ThreadsSound(Int, Order), NEW t \in Threads, Continue(t)
  PROVE  Within(t)
  <1> DEFINE k == th[t]
             left == Without(k.batch, k.id)
  <1>1. /\ Placed(k) /\ DOMAIN k = Fields /\ lastItem \in 0 .. MaxItems
        /\ k.batch = [x \in DOMAIN k.batch |-> k.batch[x]] /\ DOMAIN k.batch \subseteq Nat
    BY DEF Bounded, Placed, ThreadsSound, Sound, CopiesSound
  <1>2. DOMAIN left = DOMAIN k.batch \ {k.id}
    BY DEF Without, Keep
  <1> HIDE DEF k, left
  <1>3. ASSUME UNCHANGED db, up, Down \/ \E r : Answers(t, r)
        PROVE  Within(t)
    BY <1>1, <1>3, AnswersWithin DEF Within, db
  <1>4. ASSUME NEW l, Goes(t, l), up, UNCHANGED <<lastItem, lastOrder, lastRow>>,
               DOMAIN l = Fields, l.does = k.does, k.pc \notin CheckoutCalls,
               l.pc \notin CheckoutCalls \cup {"idle", "add"}
        PROVE  Within(t)
    BY <1>1, <1>4, GoesWithin DEF Placed
  <1> USE DEF Fields, CheckoutCalls, At
  <1>5. CASE TopupStore(t) \/ AddStore(t) \/ CartEditStore(t) \/ ShowDone(t)
             \/ CheckoutDone(t) \/ Close(t) \/ EditStore(t) \/ Drop(t) \/ SaleDone(t)
    <2>1. CASE AddStore(t)
      BY <1>1, <2>1, AnswersWithin DEF AddStore, OnlyCarts
    <2>2. CASE TopupStore(t) \/ CartEditStore(t) \/ Close(t) \/ EditStore(t) \/ Drop(t)
      BY <1>1, <2>2, AnswersWithin
         DEF TopupStore, CartEditStore, Close, EditStore, Drop, OnlyBalance, OnlyCarts,
             OnlyOrders, OnlyItems
    <2>3. CASE ShowDone(t) \/ CheckoutDone(t) \/ SaleDone(t)
      BY <1>3, <2>3 DEF ShowDone, CheckoutDone, SaleDone
    <2> QED
      BY <1>5, <2>1, <2>2, <2>3
  <1>6. CASE ShowNext(t)
    BY <1>1, <1>3, <1>4, <1>6 DEF ShowNext, Fails, k, db
  <1>7. CASE PayCustomer(t) \/ PaySeller(t) \/ PayItem(t)
    BY <1>1, <1>3, <1>4, <1>7 DEF PayCustomer, PaySeller, PayItem, k, db
  <1>8. CASE Debit(t) \/ Credit(t) \/ MarkSold(t)
    BY <1>1, <1>3, <1>4, <1>8 DEF Debit, Credit, MarkSold, Fails, OnlyBalance, OnlyItems, k, db
  <1>9. CASE Reload(t) \/ Unfreeze(t)
    BY <1>1, <1>3, <1>4, <1>9 DEF Reload, Unfreeze, Fails, OnlyItems, k, db
  <1>10. CASE Uncart(t) \/ SaleStore(t)
    BY <1>1, <1>3, <1>4, <1>10 DEF Uncart, SaleStore, OnlyItems, OnlyCarts, k, db
  <1>11. CASE CheckoutRow(t)
    <2> DEFINE r == FirstOf(k.batch)
               new == NewOrder(k.user, k.batch[r], The(CopyItem(k.batch[r].item)))
               l == [k EXCEPT !.pc = "create", !.id = r, !.order = {new}]
    <2>1. k.pc = "row" /\ k.batch # Empty /\ up /\ (Down \/ Goes(t, l)) /\ UNCHANGED db
      BY <1>11 DEF CheckoutRow, Fails, k
    <2>2. r \in DOMAIN k.batch
      BY <1>1, <2>1, FirstLeft
    <2>3. /\ DOMAIN l = Fields /\ l.pc = "create" /\ l.id = r /\ l.batch = k.batch
          /\ l.does = k.does
      BY <1>1
    <2> HIDE DEF l, r
    <2>4. Placed(l) /\ l.does = "checkout" /\ ToOrder(l) \subseteq ToOrder(k)
      BY <1>1, <2>1, <2>2, <2>3 DEF Placed, ToOrder
    <2> QED
      BY <1>3, <2>1, <2>4, CheckoutWithin DEF db, k
  <1>12. CASE Create(t)
    <2> DEFINE f == [k EXCEPT !.pc = "freeze", !.item = CopyItem(The(k.order).item)]
               n == [k EXCEPT !.pc = "row", !.id = 0, !.order = {}, !.ok = FALSE, !.batch = left]
    <2>1. k.pc = "create" /\ up /\ (Down \/ Goes(t, f) \/ Goes(t, n)) /\ UNCHANGED db
      <3>1. [k EXCEPT !.pc = "row", !.id = 0, !.order = {}, !.ok = FALSE,
                      !.batch = Without(@, k.id)] = n
        BY <1>1 DEF left
      <3> QED
        BY <1>12, <3>1 DEF Create, Fails, k
    <2>2. /\ DOMAIN f = Fields /\ f.pc = "freeze" /\ f.id = k.id /\ f.batch = k.batch
          /\ f.does = k.does
          /\ DOMAIN n = Fields /\ n.pc = "row" /\ n.batch = left /\ n.does = k.does
      BY <1>1
    <2> HIDE DEF f, n
    <2>3. Placed(f) /\ f.does = "checkout" /\ ToOrder(f) \subseteq ToOrder(k)
      BY <1>1, <2>1, <2>2 DEF Placed, ToOrder
    <2>4. Placed(n) /\ n.does = "checkout" /\ ToOrder(n) \subseteq ToOrder(k)
      BY <1>1, <1>2, <2>1, <2>2 DEF Placed, ToOrder
    <2> QED
      BY <1>3, <2>1, <2>3, <2>4, CheckoutWithin DEF db, k
  <1>13. CASE Freeze(t)
    <2> DEFINE l == [k EXCEPT !.pc = "insert", !.item = {}, !.dirty = TRUE]
    <2>1. k.pc = "freeze" /\ up /\ Goes(t, l) /\ UNCHANGED <<lastItem, lastOrder, lastRow>>
      BY <1>13 DEF Freeze, OnlyItems, k
    <2>2. /\ DOMAIN l = Fields /\ l.pc = "insert" /\ l.id = k.id /\ l.batch = k.batch
          /\ l.does = k.does
      BY <1>1
    <2> HIDE DEF l
    <2>3. Placed(l) /\ l.does = "checkout" /\ ToOrder(l) \subseteq ToOrder(k)
      BY <1>1, <2>1, <2>2 DEF Placed, ToOrder
    <2> QED
      BY <2>1, <2>3, CheckoutWithin DEF k
  <1>14. CASE Insert(t)
    <2> DEFINE l == [k EXCEPT !.pc = "unrow", !.order = {}]
    <2>1. /\ k.pc = "insert" /\ up /\ Goes(t, l) /\ UNCHANGED <<lastItem, lastRow>>
          /\ lastOrder' = lastOrder + 1
      BY <1>14 DEF Insert, FreshOrderId, OnlyOrders, k
    <2>2. /\ DOMAIN l = Fields /\ l.pc = "unrow" /\ l.id = k.id /\ l.batch = k.batch
          /\ l.does = k.does
      BY <1>1
    <2> HIDE DEF l
    <2>3. /\ Placed(l) /\ l.pc # "add" /\ k.id \in ToOrder(k)
          /\ ToOrder(l) = ToOrder(k) \ {k.id}
      BY <1>1, <2>1, <2>2 DEF Placed, ToOrder
    <2>4. Advances(t, l)
      BY <1>1, <2>1, <2>3 DEF Advances, Goes, k
    <2> QED
      BY <2>4 DEF Within
  <1>15. CASE Unrow(t)
    <2> DEFINE l == [k EXCEPT !.pc = "row", !.id = 0, !.dirty = FALSE, !.batch = left]
    <2>1. k.pc = "unrow" /\ up /\ Goes(t, l) /\ UNCHANGED <<lastItem, lastOrder, lastRow>>
      <3>1. [k EXCEPT !.pc = "row", !.id = 0, !.dirty = FALSE, !.batch = Without(@, k.id)] = l
        BY <1>1 DEF left
      <3> QED
        BY <1>15, <3>1 DEF Unrow, OnlyCarts, k
    <2>2. DOMAIN l = Fields /\ l.pc = "row" /\ l.batch = left /\ l.does = k.does
      BY <1>1
    <2> HIDE DEF l
    <2>3. Placed(l) /\ l.does = "checkout" /\ ToOrder(l) \subseteq ToOrder(k)
      BY <1>1, <1>2, <2>1, <2>2 DEF Placed, ToOrder
    <2> QED
      BY <2>1, <2>3, CheckoutWithin DEF k
  <1> QED
    BY <1>5, <1>6, <1>7, <1>8, <1>9, <1>10, <1>11, <1>12, <1>13, <1>14, <1>15 DEF Continue

LEMMA InitBounded ==
  ASSUME Init
  PROVE  Bounded
  <1>1. \A t \in Threads : ToOrder(th[t]) = {} /\ th[t].pc # "add"
    BY IdlePlaced DEF Init
  <1>2. Pairs(th) = {} /\ Adding(th) = {}
    BY <1>1 DEF Pairs, Adding
  <1>3. OrdersComing = 0 /\ RowsComing = 0
    BY <1>2, FS_EmptySet DEF OrdersComing, RowsComing, Pairs, Adding
  <1> QED
    BY <1>3, IdlePlaced, BoundsAssumption DEF Init, Bounded

LEMMA BoundedStep ==
  ASSUME Bounded, Ids, ThreadsSound(Int, Order), [Next]_vars
  PROVE  Bounded'
  <1>1. /\ DOMAIN th = Threads
        /\ \A t \in Threads : ToOrder(th[t]) \subseteq RowIds
    BY PlacedToOrder DEF Bounded
  <1>2. OrdersComing = Cardinality(Pairs(th)) /\ OrdersComing' = Cardinality(Pairs(th'))
        /\ RowsComing = Cardinality(Adding(th)) /\ RowsComing' = Cardinality(Adding(th'))
    BY DEF OrdersComing, RowsComing, Pairs, Adding
  <1>3. /\ Cardinality(Pairs(th)) \in Nat /\ Cardinality(Adding(th)) \in Nat
    <2>1. IsFiniteSet(Adding(th))
      BY FS_Subset, ThreadsAssumption DEF Adding
    <2> QED
      BY <1>1, <2>1, PairsFinite, FS_CardinalityType
  <1>4. ASSUME NEW t \in Threads, Step(t) PROVE Within(t)
    <2>1. CASE Start(t)
      BY <2>1, LoadsWithin, StartsWithin DEF Start, Starts, At
    <2> QED
      BY <1>4, <2>1, ContinueWithin DEF Step
  <1>5. ASSUME th' = [t \in Threads |-> Idle], UNCHANGED db
        PROVE  Bounded'
    <2>1. \A t \in Threads : ToOrder(th'[t]) = {} /\ th'[t].pc # "add"
      BY <1>5, IdlePlaced
    <2>2. Pairs(th') = {} /\ Adding(th') = {}
      BY <2>1 DEF Pairs, Adding
    <2>3. OrdersComing' = 0 /\ RowsComing' = 0
      BY <1>2, <2>2, FS_EmptySet
    <2>4. lastOrder <= MaxOrders /\ lastRow <= MaxRows
      BY <1>2, <1>3, BoundsAssumption DEF Bounded
    <2> QED
      BY <1>5, <2>3, <2>4, IdlePlaced DEF Bounded, db
  <1>6. ASSUME NEW t \in Threads, NEW l, Advances(t, l)
        PROVE  Bounded'
    <2>1. /\ th' = [th EXCEPT ![t] = l] /\ Placed(l) /\ up' /\ lastItem' \in 0 .. MaxItems
      BY <1>6 DEF Advances
    <2>2. ToOrder(l) \subseteq RowIds
      BY <2>1, PlacedToOrder
    <2> DEFINE c == Cardinality(Pairs(th))
               d == Cardinality(Pairs(th'))
               n == Cardinality(ToOrder(l))
    <2>3. d \in Nat
      <3>1. \A s \in Threads : ToOrder(th'[s]) \subseteq RowIds
        BY <1>1, <2>1, <2>2
      <3> QED
        BY <3>1, PairsFinite
    <2>4. lastOrder' \in Nat /\ lastOrder' + OrdersComing' <= MaxOrders
      <3>1. CASE lastOrder' = lastOrder /\ ToOrder(l) \subseteq ToOrder(th[t])
        <4>1. d <= c
          BY <1>1, <2>1, <3>1, PairsFewer
        <4> HIDE DEF c, d
        <4> QED
          BY <1>2, <1>3, <2>3, <3>1, <4>1, BoundsAssumption DEF Bounded, c, d
      <3>2. CASE /\ lastOrder' = lastOrder
                 /\ lastOrder + OrdersComing + Cardinality(ToOrder(l)) <= MaxOrders
        <4>1. d <= c + n /\ n \in Nat
          BY <1>1, <2>1, <2>2, PairsMore
        <4> QED
          BY <1>2, <1>3, <2>3, <3>2, <4>1, BoundsAssumption DEF Bounded
      <3>3. CASE /\ lastOrder' = lastOrder + 1
                 /\ \E r \in ToOrder(th[t]) : ToOrder(l) = ToOrder(th[t]) \ {r}
        <4>1. d = c - 1
          BY <1>1, <2>1, <3>3, PairsOneLess
        <4> QED
          BY <1>2, <1>3, <2>3, <3>3, <4>1, BoundsAssumption DEF Bounded
      <3> QED
        BY <1>6, <3>1, <3>2, <3>3 DEF Advances
    <2> DEFINE a == Cardinality(Adding(th))
               b == Cardinality(Adding(th'))
    <2>5. /\ b \in Nat /\ b <= a + 1
          /\ l.pc # "add" => b <= a
          /\ l.pc # "add" /\ th[t].pc = "add" => b = a - 1
      BY <1>1, <2>1, AddingChanges
    <2>6. lastRow' \in Nat /\ lastRow' + RowsComing' <= MaxRows
      <3>1. RowsComing = a /\ RowsComing' = b /\ a \in Nat
        BY <1>2, <1>3
      <3>2. \/ lastRow' = lastRow /\ l.pc # "add"
            \/ lastRow' = lastRow /\ lastRow + a < MaxRows
            \/ lastRow' = lastRow + 1 /\ th[t].pc = "add" /\ l.pc # "add"
        BY <1>6, <3>1 DEF Advances
      <3>3. lastRow \in Nat /\ lastRow + a <= MaxRows /\ MaxRows \in Nat
        BY <3>1, BoundsAssumption DEF Bounded
      <3> HIDE DEF a, b
      <3> QED
        BY <2>5, <3>1, <3>2, <3>3
    <2>7. \A s \in Threads : Placed(th'[s])
      BY <1>1, <2>1 DEF Bounded
    <2> QED
      BY <1>1, <2>1, <2>4, <2>6, <2>7 DEF Bounded
  <1>7. CASE Kill
    BY <1>5, <1>7 DEF Kill, Down
  <1>8. CASE UNCHANGED <<th, db>> /\ ((~up /\ up') \/ up' = up)
    <2>1. OrdersComing' = OrdersComing /\ RowsComing' = RowsComing
      BY <1>2, <1>8
    <2> QED
      BY <1>8, <2>1 DEF Bounded, db
  <1>9. CASE Restart \/ UNCHANGED vars
    BY <1>8, <1>9 DEF Restart, vars
  <1>10. ASSUME NEW t \in Threads, Step(t) PROVE Bounded'
    BY <1>4, <1>5, <1>6, <1>10 DEF Within, Down
  <1> QED
    BY <1>7, <1>9, <1>10 DEF Next

\* Whatever the interleaving, every table keeps rows of its type under ids that
\* were given and stay within their bounds, a thread that has answered holds
\* nothing, and none outlives the process.
THEOREM ThreadTypes == Spec => []TypeOK
  <1> DEFINE All == Ids /\ TablesSound(Int) /\ ThreadsSound(Int, Order) /\ Bounded
  <1>1. Init => All
    BY InitSound, InitBounded
  <1>2. All /\ [Next]_vars => All'
    BY IdsStep, SoundStep, BoundedStep DEF Money
  <1>3. All => TypeOK
    <2> SUFFICES ASSUME All PROVE TypeOK
      OBVIOUS
    <2>1. Ware \subseteq Item
      <3>1. Prices \subseteq Int /\ Discounts \cup {NoDiscount} \subseteq Int
        BY MoneyAssumption DEF NoDiscount
      <3> QED
        BY <3>1 DEF Ware, Item
    <2>2. OrdersComing \in Nat /\ RowsComing \in Nat
      <3>1. \A t \in Threads : ToOrder(th[t]) \subseteq RowIds
        BY PlacedToOrder DEF Bounded
      <3>2. IsFiniteSet(Adding(th))
        BY FS_Subset, ThreadsAssumption DEF Adding
      <3> QED
        BY <3>1, <3>2, PairsFinite, FS_CardinalityType
           DEF OrdersComing, RowsComing, Pairs, Adding
    <2>3. lastOrder \in 0 .. MaxOrders /\ lastRow \in 0 .. MaxRows
      BY <2>2, BoundsAssumption DEF Bounded
    <2>4. items \in [DOMAIN items -> Item]
      BY <2>1 DEF TablesSound
    <2> QED
      BY <2>3, <2>4 DEF TypeOK, TablesSound, Bounded, Placed, Ids
  <1> HIDE DEF All
  <1> QED
    BY <1>1, <1>2, <1>3, PTL DEF Spec
-----------------------------------------------------------------------------
(* Every call brings the end of its request nearer *)

\* What the bound on the calls left counts can be counted.
Calls == {"idle", "topup", "add", "cart_edit", "edit", "drop", "uncart", "show", "sale"}
           \cup PayCalls \cup CheckoutCalls
Countable(l) ==
  /\ l.pc \in Calls
  /\ IsFiniteSet(DOMAIN l.batch)
  /\ \E S : l.todo \in Seq(S)

AllCounted == \A t \in Threads : Countable(th[t])

LEMMA CallsOf ==
  ASSUME NEW l, NEW rows, rows = Cardinality(DOMAIN l.batch)
  PROVE  /\ l.pc = "idle" => CallsLeft(l) = 0
         /\ l.pc \in {"topup", "add", "cart_edit", "edit", "drop", "close"} => CallsLeft(l) = 1
         /\ l.pc \in {"uncart", "unfreeze"} => CallsLeft(l) = 2
         /\ l.pc = "reload" => CallsLeft(l) = 3
         /\ l.pc = "sold" => CallsLeft(l) = 4
         /\ l.pc = "credit" => CallsLeft(l) = 5
         /\ l.pc = "debit" => CallsLeft(l) = 6
         /\ l.pc = "item" => CallsLeft(l) = 7
         /\ l.pc = "seller" => CallsLeft(l) = 8
         /\ l.pc = "customer" => CallsLeft(l) = 9
         /\ l.pc = "show" => CallsLeft(l) = Len(l.todo) + 1
         /\ l.pc = "sale" => CallsLeft(l) = rows + 1
         /\ l.pc = "row" => CallsLeft(l) = 5 * rows + 1
         /\ l.pc = "create" => CallsLeft(l) = 5 * rows
         /\ l.pc = "freeze" => CallsLeft(l) = 5 * rows - 1
         /\ l.pc = "insert" => CallsLeft(l) = 5 * rows - 2
         /\ l.pc = "unrow" => CallsLeft(l) = 5 * rows - 3
  BY DEF CallsLeft

\* A handler that has not answered has a call to make.
LEMMA SomeLeft ==
  ASSUME NEW l, Countable(l), Placed(l), l.pc # "idle"
  PROVE  0 < CallsLeft(l)
  <1> DEFINE rows == Cardinality(DOMAIN l.batch)
  <1>1. rows \in Nat /\ Len(l.todo) \in Nat
    BY FS_CardinalityType DEF Countable
  <1>2. CASE l.pc \in CheckoutCalls \ {"row"}
    <2>1. DOMAIN l.batch # {}
      BY <1>2 DEF Placed
    <2>2. rows # 0
      BY <2>1, FS_EmptySet DEF Countable
    <2> HIDE DEF rows
    <2>3. rows >= 1
      BY <1>1, <2>2
    <2> QED
      BY <1>2, <2>3, <1>1, CallsOf DEF CheckoutCalls, rows
  <1>3. CASE l.pc \notin CheckoutCalls \ {"row"}
    BY <1>1, <1>3, CallsOf DEF Countable, Calls, PayCalls, CheckoutCalls
  <1> QED
    BY <1>2, <1>3

\* A loop has one row less to visit.
LEMMA OneRowLess ==
  ASSUME NEW f, IsFiniteSet(DOMAIN f), NEW k \in DOMAIN f
  PROVE  /\ IsFiniteSet(DOMAIN Without(f, k))
         /\ Cardinality(DOMAIN f) \in Nat
         /\ Cardinality(DOMAIN Without(f, k)) = Cardinality(DOMAIN f) - 1
  <1>1. DOMAIN Without(f, k) = DOMAIN f \ {k}
    BY DEF Without, Keep
  <1> QED
    BY <1>1, FS_RemoveElement, FS_CardinalityType

\* The tables are finite, and so is whatever is loaded from them.
LEMMA LoadedFinite ==
  ASSUME Ids, NEW keys
  PROVE  /\ IsFiniteSet(DOMAIN Keep(carts, keys))
         /\ IsFiniteSet(DOMAIN Keep(items, keys))
         /\ IsFiniteSet(DOMAIN Keep(orders, keys))
  <1>1. /\ IsFiniteSet(1 .. lastRow) /\ IsFiniteSet(1 .. lastItem) /\ IsFiniteSet(1 .. lastOrder)
    BY FS_Interval DEF Ids
  <1>2. /\ DOMAIN Keep(carts, keys) \subseteq 1 .. lastRow
        /\ DOMAIN Keep(items, keys) \subseteq 1 .. lastItem
        /\ DOMAIN Keep(orders, keys) \subseteq 1 .. lastOrder
    BY DEF Ids, Keep
  <1> QED
    BY <1>1, <1>2, FS_Subset

LEMMA InOrderIsSeq ==
  ASSUME NEW f, IsFiniteSet(DOMAIN f)
  PROVE  \E S : InOrder(f) \in Seq(S)
  <1> DEFINE s == InOrder(f)
             n == Cardinality(DOMAIN f)
             S == {s[k] : k \in 1 .. n}
  <1>1. n \in Nat
    BY FS_CardinalityType
  <1>2. s = [k \in 1 .. n |-> s[k]]
    BY DEF InOrder
  <1> HIDE DEF s, n
  <1>3. s \in [1 .. n -> S]
    BY <1>2
  <1>4. s \in Seq(S)
    BY <1>1, <1>3
  <1> QED
    BY <1>4 DEF s

LEMMA TwiceIsSeq ==
  ASSUME NEW s, \E S : s \in Seq(S)
  PROVE  \E S : s \o s \in Seq(S)
  <1>1. PICK S : s \in Seq(S)
    OBVIOUS
  <1>2. s \o s \in Seq(S)
    BY <1>1
  <1> QED
    BY <1>2

\* Thread t starts a request, or has a call less to make, or ends with the process.
Nearer(t) ==
  \/ Down
  \/ \E l : /\ th' = [th EXCEPT ![t] = l] /\ Countable(l)
            /\ th[t].pc = "idle" \/ CallsLeft(l) < CallsLeft(th[t])

LEMMA IdleCounted == Countable(Idle) /\ CallsLeft(Idle) = 0
  <1>1. IsFiniteSet(DOMAIN Idle.batch) /\ Idle.todo \in Seq({}) /\ Idle.pc = "idle"
    BY FS_EmptySet DEF Idle, Empty
  <1> QED
    BY <1>1, CallsOf DEF Countable, Calls

LEMMA StartsNearer ==
  ASSUME Ids, NEW t \in Threads, Start(t)
  PROVE  Nearer(t)
  <1>0. th[t].pc = "idle"
    BY DEF Start, Starts, At
  <1>1. ASSUME NEW l, Goes(t, l), Countable(l)
        PROVE  Nearer(t)
    BY <1>0, <1>1 DEF Nearer, Goes
  <1>2. ASSUME Down \/ \E r : Answers(t, r)
        PROVE  Nearer(t)
    BY <1>0, <1>2, IdleCounted DEF Nearer, Answers
  \* A request that holds no rows.
  <1>3. ASSUME NEW l, Goes(t, l), l.pc \in Calls, l.batch = Idle.batch, l.todo = Idle.todo
        PROVE  Nearer(t)
    BY <1>1, <1>3, IdleCounted DEF Countable
  \* One that holds rows.
  <1>4. ASSUME NEW l, Goes(t, l), l.pc \in Calls, IsFiniteSet(DOMAIN l.batch),
               l.todo = Idle.todo
        PROVE  Nearer(t)
    BY <1>1, <1>4, IdleCounted DEF Countable
  <1>5. \A u : IsFiniteSet(DOMAIN RowsOf(u))
    BY LoadedFinite DEF RowsOf
  <1> USE DEF Idle, Calls, PayCalls, CheckoutCalls
  <1>6. ASSUME NEW u, NEW a, TopupLoad(t, u, a)
        PROVE  Nearer(t)
    BY <1>3, <1>6 DEF TopupLoad
  <1>7. ASSUME NEW u, NEW i, NEW q, AddLoad(t, u, i, q) \/ CartEditLoad(t, u, i, q)
        PROVE  Nearer(t)
    <2>1. PICK l : /\ Answers(t, "failure") \/ Goes(t, l)
                   /\ l.pc \in {"add", "cart_edit"} /\ l.batch = RowsOf(u) /\ l.todo = Idle.todo
      <3> DEFINE a == [Idle EXCEPT !.pc = "add", !.does = "cart", !.user = u, !.id = i,
                                   !.n = q, !.batch = RowsOf(u)]
                 e == [Idle EXCEPT !.pc = "cart_edit", !.does = "cart", !.user = u, !.id = i,
                                   !.n = q, !.batch = RowsOf(u)]
      <3>1. Answers(t, "failure") \/ Goes(t, a) \/ Goes(t, e)
        BY <1>7 DEF AddLoad, CartEditLoad
      <3>2. /\ a.pc = "add" /\ a.batch = RowsOf(u) /\ a.todo = Idle.todo
            /\ e.pc = "cart_edit" /\ e.batch = RowsOf(u) /\ e.todo = Idle.todo
        OBVIOUS
      <3> HIDE DEF a, e
      <3> QED
        BY <3>1, <3>2
    <2> QED
      BY <1>2, <1>4, <1>5, <2>1
  <1>8. ASSUME NEW sought, ShowLoad(t, sought), \E S : sought \in Seq(S)
        PROVE  Nearer(t)
    <2> DEFINE l == [Idle EXCEPT !.pc = "show", !.does = "show", !.todo = sought]
    <2>1. Goes(t, l)
      BY <1>8 DEF ShowLoad
    <2>2. l.pc = "show" /\ l.batch = Idle.batch /\ l.todo = sought
      OBVIOUS
    <2> HIDE DEF l
    <2>3. Countable(l)
      BY <1>8, <2>2, IdleCounted DEF Countable
    <2> QED
      BY <1>1, <2>1, <2>3
  <1>9. ASSUME NEW u, CartShow(t, u) \/ OrdersShow(t, u)
        PROVE  Nearer(t)
    <2>1. \A keys : IsFiniteSet(DOMAIN Keep(orders, keys))
      BY LoadedFinite
    <2> HIDE DEF Idle
    <2> QED
      BY <1>5, <1>8, <1>9, <2>1, InOrderIsSeq, TwiceIsSeq DEF CartShow, OrdersShow
  <1>10. ASSUME NEW u, CheckoutLoad(t, u)
         PROVE  Nearer(t)
    <2> DEFINE l == [Idle EXCEPT !.pc = "row", !.does = "checkout", !.user = u,
                                 !.batch = RowsOf(u)]
    <2>1. Goes(t, l)
      BY <1>10 DEF CheckoutLoad
    <2>2. l.pc = "row" /\ l.batch = RowsOf(u) /\ l.todo = Idle.todo
      OBVIOUS
    <2> HIDE DEF l
    <2> QED
      BY <1>4, <1>5, <2>1, <2>2
  <1>11. ASSUME NEW s, NEW type, NEW d, SellerSaleLoad(t, s, type, d)
         PROVE  Nearer(t)
    <2> DEFINE chosen == Keep(items, {i \in DOMAIN items :
                                        items[i].seller = s /\ items[i].type = type})
               l == [Idle EXCEPT !.pc = "sale", !.does = "sale", !.n = d, !.batch = chosen]
    <2>1. Down \/ Goes(t, l)
      BY <1>11 DEF SellerSaleLoad
    <2>2. l.pc = "sale" /\ l.batch = chosen /\ l.todo = Idle.todo
      OBVIOUS
    <2>3. IsFiniteSet(DOMAIN chosen)
      BY LoadedFinite
    <2> HIDE DEF l, chosen
    <2> QED
      BY <1>2, <1>4, <2>1, <2>2, <2>3
  <1>12. ASSUME NEW o, PayLoad(t, o) \/ CancelLoad(t, o)
         PROVE  Nearer(t)
    BY <1>2, <1>3, <1>12 DEF PayLoad, CancelLoad
  <1>13. ASSUME NEW i, NEW price, NEW type, NEW stock,
                \/ SellerEditLoad(t, i, price, type, stock)
                \/ SellerRemoveLoad(t, i)
         PROVE  Nearer(t)
    BY <1>2, <1>3, <1>13 DEF SellerEditLoad, SellerRemoveLoad
  <1>14. ASSUME NEW x, NEW y, NEW z, \/ SellerAdd(t, x, y, z)
                                     \/ SellerEditInvalid(t, x) \/ ListItems(t, x)
                                     \/ WalletShow(t) \/ InvalidInput(t)
         PROVE  Nearer(t)
    BY <1>2, <1>14 DEF SellerAdd, SellerEditInvalid, ListItems, WalletShow, InvalidInput
  <1> QED
    BY <1>6, <1>7, <1>9, <1>10, <1>11, <1>12, <1>13, <1>14
       DEF Start, CustomerStart, SellerStart, AnyoneStart

LEMMA ContinueNearer ==
  ASSUME Bounded, AllCounted, ThreadsSound(Int, Order), NEW t \in Threads, Continue(t)
  PROVE  Nearer(t)
  <1> DEFINE k == th[t]
             rows == Cardinality(DOMAIN k.batch)
  <1>1. /\ Placed(k) /\ Countable(k) /\ DOMAIN k = Fields
        /\ k.batch = [x \in DOMAIN k.batch |-> k.batch[x]] /\ DOMAIN k.batch \subseteq Nat
    BY DEF Bounded, Placed, AllCounted, ThreadsSound, Sound, CopiesSound
  <1>2. rows \in Nat /\ IsFiniteSet(DOMAIN k.batch) /\ \E S : k.todo \in Seq(S)
    BY <1>1, FS_CardinalityType DEF Countable
  <1>3. ASSUME NEW l, Goes(t, l), Countable(l), CallsLeft(l) < CallsLeft(k)
        PROVE  Nearer(t)
    BY <1>3 DEF Nearer, Goes
  <1>4. ASSUME k.pc # "idle", Down \/ \E r : Answers(t, r)
        PROVE  Nearer(t)
    BY <1>1, <1>4, IdleCounted, SomeLeft DEF Nearer, Answers
  \* The loops and listings left alone, a call leads to the next of a fixed row.
  <1>5. ASSUME NEW l, Goes(t, l), l.batch = k.batch, l.todo = k.todo,
               \/ k.pc = "customer" /\ l.pc = "seller"
               \/ k.pc = "seller" /\ l.pc = "item"
               \/ k.pc = "item" /\ l.pc = "debit"
               \/ k.pc = "debit" /\ l.pc = "credit"
               \/ k.pc = "credit" /\ l.pc = "sold"
               \/ k.pc = "sold" /\ l.pc = "reload"
               \/ k.pc = "reload" /\ l.pc = "unfreeze"
               \/ k.pc = "unfreeze" /\ l.pc = "close"
               \/ k.pc = "uncart" /\ l.pc = "drop"
               \/ k.pc = "row" /\ l.pc = "create"
               \/ k.pc = "create" /\ l.pc = "freeze"
               \/ k.pc = "freeze" /\ l.pc = "insert"
               \/ k.pc = "insert" /\ l.pc = "unrow"
        PROVE  Nearer(t)
    <2>1. Countable(l)
      BY <1>2, <1>5 DEF Countable, Calls, PayCalls, CheckoutCalls
    <2>2. CallsLeft(l) < CallsLeft(k)
      <3> HIDE DEF k, rows
      <3>1. rows = Cardinality(DOMAIN k.batch) /\ rows = Cardinality(DOMAIN l.batch)
        BY <1>5 DEF rows
      <3>2. CASE k.pc \in PayCalls \cup {"uncart"}
        BY <1>5, <3>2, CallsOf DEF PayCalls
      <3>3. CASE k.pc \in CheckoutCalls
        BY <1>2, <1>5, <3>1, <3>3, CallsOf DEF CheckoutCalls
      <3> QED
        BY <1>5, <3>2, <3>3 DEF PayCalls, CheckoutCalls
    <2> QED
      BY <1>3, <1>5, <2>1, <2>2
  \* The loop over the cart goes back to its next row.
  <1>6. ASSUME NEW l, Goes(t, l), l.pc = "row", l.batch = Without(k.batch, k.id),
               l.todo = k.todo, k.pc \in {"create", "unrow"}
        PROVE  Nearer(t)
    <2> HIDE DEF k, rows
    <2>1. k.id \in DOMAIN k.batch
      BY <1>1, <1>6 DEF Placed, CheckoutCalls
    <2>2. IsFiniteSet(DOMAIN l.batch) /\ Cardinality(DOMAIN l.batch) = rows - 1
      BY <1>2, <1>6, <2>1, OneRowLess DEF rows
    <2>3. Countable(l)
      BY <1>2, <1>6, <2>2 DEF Countable, Calls, CheckoutCalls
    <2>4. CallsLeft(l) = 5 * (rows - 1) + 1
      BY <1>6, <2>2, CallsOf
    <2>5. CallsLeft(k) \in {5 * rows, 5 * rows - 3}
      BY <1>6, CallsOf DEF rows
    <2>6. CallsLeft(l) < CallsLeft(k)
      BY <1>2, <2>4, <2>5
    <2> QED
      BY <1>3, <1>6, <2>3, <2>6 DEF k
  <1> HIDE DEF rows
  <1> USE DEF Fields, At
  <1>7. CASE TopupStore(t) \/ AddStore(t) \/ CartEditStore(t) \/ ShowDone(t)
             \/ CheckoutDone(t) \/ Close(t) \/ EditStore(t) \/ Drop(t) \/ SaleDone(t)
    BY <1>4, <1>7 DEF TopupStore, AddStore, CartEditStore, ShowDone, CheckoutDone, Close,
                      EditStore, Drop, SaleDone
  <1>8. CASE ShowNext(t)
    <2> DEFINE l == [k EXCEPT !.todo = Tail(k.todo)]
    <2>1. k.pc = "show" /\ k.todo # <<>> /\ (Down \/ Goes(t, l))
      BY <1>1, <1>8 DEF ShowNext, Fails
    <2>2. l.pc = "show" /\ l.todo = Tail(k.todo) /\ l.batch = k.batch
      BY <1>1, <2>1
    <2> HIDE DEF k, l
    <2>3. PICK S : k.todo \in Seq(S)
      BY <1>2
    <2>4. l.todo \in Seq(S) /\ Len(l.todo) = Len(k.todo) - 1 /\ Len(k.todo) \in Nat
      BY <2>1, <2>2, <2>3
    <2>5. Countable(l)
      BY <1>2, <2>2, <2>4 DEF Countable, Calls
    <2>6. CallsLeft(l) = Len(l.todo) + 1 /\ CallsLeft(k) = Len(k.todo) + 1
      BY <2>1, <2>2, CallsOf
    <2>7. CallsLeft(l) < CallsLeft(k)
      BY <2>4, <2>6
    <2> QED
      BY <1>3, <1>4, <2>1, <2>5, <2>7 DEF k
  <1>9. CASE PayCustomer(t) \/ PaySeller(t) \/ PayItem(t)
    BY <1>1, <1>4, <1>5, <1>9 DEF PayCustomer, PaySeller, PayItem
  <1>10. CASE Debit(t) \/ Credit(t) \/ MarkSold(t)
    BY <1>1, <1>4, <1>5, <1>10 DEF Debit, Credit, MarkSold, Fails
  <1>11. CASE Reload(t) \/ Unfreeze(t) \/ Uncart(t)
    BY <1>1, <1>4, <1>5, <1>11 DEF Reload, Unfreeze, Uncart, Fails
  <1>12. CASE CheckoutRow(t) \/ Freeze(t) \/ Insert(t)
    BY <1>1, <1>4, <1>5, <1>12 DEF CheckoutRow, Freeze, Insert, Fails
  <1>13. CASE Create(t)
    BY <1>1, <1>4, <1>5, <1>6, <1>13 DEF Create, Fails
  <1>14. CASE Unrow(t)
    BY <1>1, <1>6, <1>14 DEF Unrow
  <1>15. CASE SaleStore(t)
    <2> DEFINE i == FirstOf(k.batch)
               l == [k EXCEPT !.batch = Without(k.batch, i), !.dirty = TRUE]
    <2>1. k.pc = "sale" /\ k.batch # Empty /\ Goes(t, l)
      BY <1>1, <1>15 DEF SaleStore
    <2>2. l.pc = "sale" /\ l.batch = Without(k.batch, i) /\ l.todo = k.todo
      BY <1>1, <2>1
    <2>3. i \in DOMAIN k.batch
      BY <1>1, <2>1, FirstLeft
    <2> HIDE DEF k, l, i
    <2>4. /\ IsFiniteSet(DOMAIN l.batch)
          /\ Cardinality(DOMAIN l.batch) = Cardinality(DOMAIN k.batch) - 1
          /\ Cardinality(DOMAIN k.batch) \in Nat
      BY <1>2, <2>2, <2>3, OneRowLess
    <2>5. Countable(l)
      BY <1>2, <2>2, <2>4 DEF Countable, Calls
    <2>6. CallsLeft(l) < CallsLeft(k)
      BY <2>1, <2>2, <2>4, CallsOf
    <2> QED
      BY <1>3, <2>1, <2>5, <2>6 DEF k
  <1> QED
    BY <1>7, <1>8, <1>9, <1>10, <1>11, <1>12, <1>13, <1>14, <1>15 DEF Continue

LEMMA CountedStep ==
  ASSUME Bounded, AllCounted, Ids, ThreadsSound(Int, Order), [Next]_vars
  PROVE  /\ AllCounted'
         /\ \A t \in Threads : th[t] # Idle /\ th'[t] # th[t] =>
              CallsLeft(th'[t]) < CallsLeft(th[t])
  <1>1. DOMAIN th = Threads /\ \A t \in Threads : Placed(th[t]) /\ Countable(th[t])
    BY DEF Bounded, AllCounted
  <1>2. CASE Down
    <2>1. \A t \in Threads : th'[t] = Idle
      BY <1>2 DEF Down
    <2>2. \A t \in Threads : th[t] # Idle => 0 < CallsLeft(th[t])
      BY <1>1, SomeLeft DEF Placed
    <2> QED
      BY <2>1, <2>2, IdleCounted DEF AllCounted
  <1>3. CASE UNCHANGED th
    BY <1>3 DEF AllCounted
  <1>4. ASSUME NEW t \in Threads, NEW l, th' = [th EXCEPT ![t] = l], Countable(l),
               th[t].pc = "idle" \/ CallsLeft(l) < CallsLeft(th[t])
        PROVE  /\ AllCounted'
               /\ \A s \in Threads : th[s] # Idle /\ th'[s] # th[s] =>
                    CallsLeft(th'[s]) < CallsLeft(th[s])
    <2>1. th'[t] = l /\ \A s \in Threads \ {t} : th'[s] = th[s]
      BY <1>1, <1>4
    <2>2. th[t].pc = "idle" => th[t] = Idle
      BY <1>1 DEF Placed
    <2> QED
      BY <1>1, <1>4, <2>1, <2>2 DEF AllCounted
  <1>5. ASSUME NEW t \in Threads, Step(t)
        PROVE  Nearer(t)
    BY <1>5, StartsNearer, ContinueNearer DEF Step
  <1> QED
    BY <1>2, <1>3, <1>4, <1>5 DEF Next, Kill, Restart, vars, Nearer

\* Whatever the number of threads and of rows, and whatever the others write, every
\* storage call a handler makes brings it nearer to its answer: with a scheduler
\* that lets it make its next call, every request ends.
THEOREM HandlersRunOut == Spec => CallsRunOut
  <1> DEFINE All == Ids /\ TablesSound(Int) /\ ThreadsSound(Int, Order) /\ Bounded /\ AllCounted
  <1>1. Init => All
    <2>1. Init => Ids /\ TablesSound(Int) /\ ThreadsSound(Int, Order) /\ Bounded
      BY InitSound, InitBounded
    <2>2. Init => AllCounted
      BY IdleCounted DEF Init, AllCounted
    <2> QED
      BY <2>1, <2>2
  <1>2. All /\ [Next]_vars => All'
    BY IdsStep, SoundStep, BoundedStep, CountedStep DEF Money
  <1>3. All /\ [Next]_vars =>
          [\A t \in Threads : th[t] # Idle /\ th'[t] # th[t] =>
             CallsLeft(th'[t]) < CallsLeft(th[t])]_vars
    BY CountedStep
  <1> HIDE DEF All
  <1> QED
    BY <1>1, <1>2, <1>3, PTL DEF Spec, CallsRunOut
=============================================================================
