---------------------------- MODULE MarketThreads ----------------------------
(***************************************************************************)
(* The server as it runs: session::Start gives every connection a thread   *)
(* of its own, and every thread goes through one handler, one storage call *)
(* at a time.  No lock and no transaction spans two calls; a row that is   *)
(* loaded is a copy, and update() writes the whole copy back.  Between any *)
(* two calls of one thread the others may make theirs, and a thread that   *)
(* dereferences null takes the process and all other threads with it.      *)
(*                                                                         *)
(* A step is one storage call with the computation that follows it.  A     *)
(* thread that has answered is idle and stands for the thread of the next  *)
(* connection.                                                             *)
(***************************************************************************)
EXTENDS MarketData, FiniteSetsExt, Sequences

CONSTANTS
  Threads,      \* threads that may serve at the same time
  Killable,     \* whether the process may be ended from outside
  MaxRequests   \* bound: requests ever started

ASSUME ThreadsAssumption ==
  /\ IsFiniteSet(Threads)
  /\ Killable \in BOOLEAN /\ MaxRequests \in Nat

VARIABLES
  balance, items, orders, carts,      \* the tables, as in Market
  lastItem, lastOrder, lastRow,
  up,         \* the process is alive
  th,         \* th[t]: the handler thread t is in and the copies it holds
  reply,      \* the last answer given
  requests,   \* requests started so far
  raced,      \* history: a handler wrote while another was using the same rows
  torn,       \* history: the process ended between two writes of a handler
  expected    \* history: the wallets if every request were a single step

db == <<balance, items, orders, carts, lastItem, lastOrder, lastRow>>
vars == <<db, up, th, reply, requests, raced, torn, expected>>

ItemIds == 1 .. MaxItems
OrderIds == 1 .. MaxOrders
RowIds == 1 .. MaxRows

Idle ==
  [pc |-> "idle",       \* the call the thread makes next
   does |-> "nothing",  \* the request it serves
   user |-> Nobody, id |-> 0, n |-> 0, type |-> 0,        \* what was asked
   cust |-> 0, sell |-> 0,      \* balances in its copies of two user rows
   item |-> {},                 \* its copy of an item row, if it has one
   order |-> {},                \* its copy of an order, or the one to insert
   batch |-> Empty,             \* rows a loop has still to visit
   todo |-> <<>>,               \* items a listing has still to look up
   ok |-> TRUE,                 \* all_success
   dirty |-> FALSE]             \* it has written and will write more

Init ==
  /\ balance = [u \in Users |-> 0]
  /\ items = Empty /\ orders = Empty /\ carts = Empty
  /\ lastItem = 0 /\ lastOrder = 0 /\ lastRow = 0
  /\ up = TRUE /\ th = [t \in Threads |-> Idle]
  /\ reply = "none" /\ requests = 0
  /\ raced = FALSE /\ torn = FALSE /\ expected = [u \in Users |-> 0]

-----------------------------------------------------------------------------
(* Storage calls *)

The(S) == CHOOSE x \in S : TRUE

\* get_pointer: a copy of the row under k, or nothing.
Copy(f, k) == {f[x] : x \in DOMAIN f \cap {k}}

\* base_item::get: nothing also for a type that is none of ITEM_TYPE.
CopyItem(i) == {it \in Copy(items, i) : it.type \in LegalTypes}

\* Fault: an UPDATE that inserts a row which is gone.
WriteRevives(f, k, row) == Put(f, k, row)

\* UPDATE of a full row, which does nothing if the row is gone.
Write(f, k, row) == IF k \in DOMAIN f THEN [f EXCEPT ![k] = row] ELSE f
Without(f, k) == Keep(f, DOMAIN f \ {k})

RowsOf(u) == Keep(carts, {r \in DOMAIN carts : carts[r].user = u})
FirstOf(batch) == CHOOSE k \in DOMAIN batch : \A j \in DOMAIN batch : k <= j

\* The rows of which a checkout has still to insert an order.
ToOrder(l) ==
  IF l.does # "checkout" THEN {}
  ELSE DOMAIN l.batch \ (IF l.pc = "unrow" THEN {l.id} ELSE {})

\* Bounds: rows and orders that requests under way may still insert.
RowsComing == Cardinality({t \in Threads : th[t].pc = "add"})
OrdersComing == Cardinality(UNION {{t} \X ToOrder(th[t]) : t \in Threads})

-----------------------------------------------------------------------------
(* Threads *)

At(t, pc) == up /\ th[t].pc = pc
Starts(t) == At(t, "idle") /\ requests < MaxRequests /\ requests' = requests + 1

\* Thread t goes on as l, or gives its answer.
Goes(t, l) == th' = [th EXCEPT ![t] = l] /\ UNCHANGED <<up, reply>>
Answers(t, r) == th' = [th EXCEPT ![t] = Idle] /\ reply' = r /\ UNCHANGED up

\* Fault: threads go on in the process that is started next.
DownKeepsThreads == up' = FALSE /\ reply' = "none" /\ UNCHANGED th

\* The process ends and with it every thread.
Down == up' = FALSE /\ reply' = "none" /\ th' = [t \in Threads |-> Idle]

Fails(t) == Down /\ UNCHANGED db

\* Everything but the tables named in the action stays.
OnlyBalance == UNCHANGED <<items, orders, carts, lastItem, lastOrder, lastRow>>
OnlyItems == UNCHANGED <<balance, orders, carts, lastItem, lastOrder, lastRow>>
OnlyOrders == UNCHANGED <<balance, items, carts, lastItem, lastRow>>
OnlyCarts == UNCHANGED <<balance, items, orders, lastItem, lastOrder>>

-----------------------------------------------------------------------------
(* wallet_topup *)

TopupLoad(t, u, amount) ==
  /\ Goes(t, [Idle EXCEPT !.pc = "topup", !.does = "topup", !.user = u,
                          !.n = amount, !.cust = balance[u]])
  /\ UNCHANGED db

TopupStore(t) ==
  /\ At(t, "topup")
  /\ balance' = [balance EXCEPT ![th[t].user] = th[t].cust + th[t].n]
  /\ OnlyBalance
  /\ Answers(t, "success")

-----------------------------------------------------------------------------
(* The cart.  Every handler starts by loading all rows of the user. *)

AddLoad(t, u, i, q) ==
  /\ lastRow + RowsComing < MaxRows
  /\ Goes(t, [Idle EXCEPT !.pc = "add", !.does = "cart", !.user = u, !.id = i,
                          !.n = q, !.batch = RowsOf(u)])
  /\ UNCHANGED db

AddStore(t) ==
  LET l == th[t]
      same == Keep(l.batch, {r \in DOMAIN l.batch : l.batch[r].item = l.id})
      r == FirstOf(same)
  IN /\ At(t, "add")
     /\ IF same = Empty
          THEN /\ carts' = Put(carts, lastRow + 1, CartRow(l.user, l.id, l.n))
               /\ lastRow' = lastRow + 1
          ELSE /\ carts' = Write(carts, r, [same[r] EXCEPT !.quantity = SizeAdd(@, l.n)])
               /\ UNCHANGED lastRow
     /\ OnlyCarts
     /\ Answers(t, "success")

CartEditLoad(t, u, r, q) ==
  /\ IF r \in DOMAIN RowsOf(u)
       THEN Goes(t, [Idle EXCEPT !.pc = "cart_edit", !.does = "cart", !.user = u,
                                 !.id = r, !.n = q, !.batch = RowsOf(u)])
       ELSE Answers(t, "failure")
  /\ UNCHANGED db

CartEditStore(t) ==
  LET l == th[t]
  IN /\ At(t, "cart_edit")
     /\ carts' = IF l.n = 0 THEN Without(carts, l.id)
                 ELSE Write(carts, l.id, [l.batch[l.id] EXCEPT !.quantity = l.n])
     /\ OnlyCarts /\ UNCHANGED lastRow
     /\ Answers(t, "success")

\* cart::list looks every item up once for its line and once for the total;
\* orders_show once per order.  Rows come in the order of their ids.
InOrder(f) ==
  LET UpTo(i) == {j \in DOMAIN f : j <= i}
  IN [k \in 1 .. Cardinality(DOMAIN f) |->
        f[CHOOSE i \in DOMAIN f : Cardinality(UpTo(i)) = k].item]

ShowLoad(t, sought) ==
  /\ Goes(t, [Idle EXCEPT !.pc = "show", !.does = "show", !.todo = sought])
  /\ UNCHANGED db

CartShow(t, u) == ShowLoad(t, InOrder(RowsOf(u)) \o InOrder(RowsOf(u)))
OrdersShow(t, u) ==
  ShowLoad(t, InOrder(Keep(orders, {o \in DOMAIN orders : orders[o].customer = u})))

\* Fault: the listing does not get past an item.
ShowNextStays(t) ==
  /\ At(t, "show") /\ th[t].todo # <<>>
  /\ Goes(t, th[t]) /\ UNCHANGED db

ShowNext(t) ==
  /\ At(t, "show") /\ th[t].todo # <<>>
  /\ IF CopyItem(Head(th[t].todo)) = {}
       THEN Fails(t)
       ELSE Goes(t, [th[t] EXCEPT !.todo = Tail(@)]) /\ UNCHANGED db

ShowDone(t) ==
  At(t, "show") /\ th[t].todo = <<>> /\ Answers(t, "success") /\ UNCHANGED db

-----------------------------------------------------------------------------
(* cart_checkout: a loop over the rows loaded at its start *)

CheckoutLoad(t, u) ==
  /\ lastOrder + OrdersComing + Cardinality(DOMAIN RowsOf(u)) <= MaxOrders
  /\ Goes(t, [Idle EXCEPT !.pc = "row", !.does = "checkout", !.user = u,
                          !.batch = RowsOf(u)])
  /\ UNCHANGED db

\* Fault: the loop goes over the cart as it is by then.
CheckoutRowReloads(t) ==
  LET l == [th[t] EXCEPT !.batch = RowsOf(th[t].user)]
      r == FirstOf(l.batch)
      it == CopyItem(l.batch[r].item)
  IN /\ At(t, "row") /\ l.batch # Empty /\ it # {}
     /\ Goes(t, [l EXCEPT !.pc = "create", !.id = r,
                          !.order = {NewOrder(l.user, l.batch[r], The(it))}])
     /\ UNCHANGED db

\* The next row, with its item looked up for the seller and the price.
CheckoutRow(t) ==
  LET l == th[t]
      r == FirstOf(l.batch)
      it == CopyItem(l.batch[r].item)
  IN /\ At(t, "row") /\ l.batch # Empty
     /\ IF it = {}
          THEN Fails(t)
          ELSE /\ Goes(t, [l EXCEPT !.pc = "create", !.id = r,
                             !.order = {NewOrder(l.user, l.batch[r], The(it))}])
               /\ UNCHANGED db

\* order::create looks the item up again and tests what is available.
Create(t) ==
  LET l == th[t]
      new == The(l.order)
      it == CopyItem(new.item)
  IN /\ At(t, "create")
     /\ \/ it = {} /\ Fails(t)
        \/ /\ it # {} /\ Available(The(it)) >= new.quantity
           /\ Goes(t, [l EXCEPT !.pc = "freeze", !.item = it])
           /\ UNCHANGED db
        \/ /\ it # {} /\ Available(The(it)) < new.quantity
           /\ Goes(t, [l EXCEPT !.pc = "row", !.id = 0, !.order = {}, !.ok = FALSE,
                                !.batch = Without(@, l.id)])
           /\ UNCHANGED db

Freeze(t) ==
  LET l == th[t]
      new == The(l.order)
  IN /\ At(t, "freeze")
     /\ items' = Write(items, new.item, Froze(The(l.item), new.quantity))
     /\ OnlyItems
     /\ Goes(t, [l EXCEPT !.pc = "insert", !.item = {}, !.dirty = TRUE])

\* Fault: without AUTOINCREMENT SQLite gives the largest id present plus one.
FreshOrderIdReused == 1 + (IF orders = Empty THEN 0 ELSE Max(DOMAIN orders))

FreshOrderId == lastOrder + 1

Insert(t) ==
  LET l == th[t]
  IN /\ At(t, "insert")
     /\ orders' = Put(orders, FreshOrderId, The(l.order))
     /\ lastOrder' = FreshOrderId
     /\ OnlyOrders
     /\ Goes(t, [l EXCEPT !.pc = "unrow", !.order = {}])

\* Fault: the ordered row stays in the cart.
UnrowForgets(t) ==
  /\ At(t, "unrow")
  /\ Goes(t, [th[t] EXCEPT !.pc = "row", !.id = 0, !.dirty = FALSE,
                           !.batch = Without(@, th[t].id)])
  /\ UNCHANGED db

Unrow(t) ==
  LET l == th[t]
  IN /\ At(t, "unrow")
     /\ carts' = Without(carts, l.id)
     /\ OnlyCarts /\ UNCHANGED lastRow
     /\ Goes(t, [l EXCEPT !.pc = "row", !.id = 0, !.dirty = FALSE,
                          !.batch = Without(@, l.id)])

\* Fault: the loop does not notice that no row is left.
CheckoutDoneMissed(t) ==
  At(t, "row") /\ th[t].batch = Empty /\ Goes(t, th[t]) /\ UNCHANGED db

CheckoutDone(t) ==
  /\ At(t, "row") /\ th[t].batch = Empty
  /\ Answers(t, "success") /\ UNCHANGED db

-----------------------------------------------------------------------------
(* orders_pay and orders_cancel *)

PayLoad(t, o) ==
  LET ord == Copy(orders, o)
  IN /\ IF ord = {} THEN Down
        ELSE Goes(t, [Idle EXCEPT !.pc = "customer", !.does = "pay", !.id = o,
                                  !.order = ord])
     /\ UNCHANGED db

PayCustomer(t) ==
  LET l == th[t]
  IN /\ At(t, "customer")
     /\ Goes(t, [l EXCEPT !.pc = "seller", !.cust = balance[The(l.order).customer]])
     /\ UNCHANGED db

PaySeller(t) ==
  LET l == th[t]
  IN /\ At(t, "seller")
     /\ Goes(t, [l EXCEPT !.pc = "item", !.sell = balance[The(l.order).seller]])
     /\ UNCHANGED db

Price(l) == Signed(The(l.order).price)

\* The third copy, and base_user::pay's test on the first.
PayItem(t) ==
  LET l == th[t]
  IN /\ At(t, "item")
     /\ IF l.cust < Price(l)
          THEN Answers(t, "failure")
          ELSE Goes(t, [l EXCEPT !.pc = "debit", !.item = CopyItem(The(l.order).item)])
     /\ UNCHANGED db

\* Fault: the test is made on the copy, the subtraction on the row.
DebitInPlace(t) ==
  LET l == th[t]
  IN /\ At(t, "debit")
     /\ balance' = [balance EXCEPT ![The(l.order).customer] = @ - Price(l)]
     /\ OnlyBalance
     /\ Goes(t, [l EXCEPT !.pc = "credit", !.dirty = TRUE])

Debit(t) ==
  LET l == th[t]
  IN /\ At(t, "debit")
     /\ balance' = [balance EXCEPT ![The(l.order).customer] = l.cust - Price(l)]
     /\ OnlyBalance
     /\ Goes(t, [l EXCEPT !.pc = "credit", !.dirty = TRUE])

Credit(t) ==
  LET l == th[t]
  IN /\ At(t, "credit")
     /\ balance' = [balance EXCEPT ![The(l.order).seller] = l.sell + Price(l)]
     /\ OnlyBalance
     /\ Goes(t, [l EXCEPT !.pc = "sold"])

MarkSold(t) ==
  LET l == th[t]
      ord == The(l.order)
  IN /\ At(t, "sold")
     /\ \/ l.item = {} /\ Fails(t)
        \/ /\ l.item # {}
           /\ items' = Write(items, ord.item, Sold(The(l.item), ord.quantity))
           /\ OnlyItems
           /\ Goes(t, [l EXCEPT !.pc = "reload", !.item = {}])

CancelLoad(t, o) ==
  LET ord == Copy(orders, o)
  IN /\ IF ord = {} THEN Answers(t, "failure")
        ELSE Goes(t, [Idle EXCEPT !.pc = "reload", !.does = "cancel", !.id = o,
                                  !.order = ord])
     /\ UNCHANGED db

\* order::cancel, the whole of orders_cancel and the end of order::pay.
Reload(t) ==
  LET l == th[t]
      it == CopyItem(The(l.order).item)
  IN /\ At(t, "reload")
     /\ IF it = {} THEN Fails(t)
        ELSE Goes(t, [l EXCEPT !.pc = "unfreeze", !.item = it]) /\ UNCHANGED db

Unfreeze(t) ==
  LET l == th[t]
      ord == The(l.order)
  IN /\ At(t, "unfreeze")
     /\ items' = Write(items, ord.item, Unfroze(The(l.item), ord.quantity))
     /\ OnlyItems
     /\ Goes(t, [l EXCEPT !.pc = "close", !.item = {}, !.dirty = TRUE])

Close(t) ==
  /\ At(t, "close")
  /\ orders' = Without(orders, th[t].id)
  /\ OnlyOrders /\ UNCHANGED lastOrder
  /\ Answers(t, "success")

-----------------------------------------------------------------------------
(* The seller's requests *)

SellerAdd(t, s, price, type) ==
  /\ lastItem < MaxItems
  /\ items' = Put(items, lastItem + 1, NewItem(s, price, type))
  /\ lastItem' = lastItem + 1
  /\ UNCHANGED <<balance, orders, carts, lastOrder, lastRow>>
  /\ Answers(t, "success")

SellerEditLoad(t, i, price, type, stock) ==
  LET it == CopyItem(i)
  IN /\ \/ it = {} /\ Down
        \/ it # {} /\ AsSize(stock) < The(it).frozen /\ Answers(t, "failure")
        \/ /\ it # {} /\ AsSize(stock) >= The(it).frozen
           /\ Goes(t, [Idle EXCEPT !.pc = "edit", !.does = "edit", !.id = i,
                                   !.n = price, !.type = type, !.item = it])
     /\ UNCHANGED db

SellerEditInvalid(t, i) ==
  /\ Answers(t, "failure") \/ (CopyItem(i) = {} /\ Down)
  /\ UNCHANGED db

EditStore(t) ==
  LET l == th[t]
  IN /\ At(t, "edit")
     /\ items' = Write(items, l.id, [The(l.item) EXCEPT !.price = l.n, !.type = l.type])
     /\ OnlyItems
     /\ Answers(t, "success")

SellerRemoveLoad(t, i) ==
  /\ IF CopyItem(i) = {} THEN Down
     ELSE Goes(t, [Idle EXCEPT !.pc = "uncart", !.does = "remove", !.id = i])
  /\ UNCHANGED db

Uncart(t) ==
  LET l == th[t]
  IN /\ At(t, "uncart")
     /\ carts' = Keep(carts, {r \in DOMAIN carts : carts[r].item # l.id})
     /\ OnlyCarts /\ UNCHANGED lastRow
     /\ Goes(t, [l EXCEPT !.pc = "drop", !.dirty = TRUE])

Drop(t) ==
  /\ At(t, "drop")
  /\ items' = Without(items, th[t].id)
  /\ OnlyItems
  /\ Answers(t, "success")

SellerSaleLoad(t, s, type, discount) ==
  LET chosen == Keep(items, {i \in DOMAIN items :
                               items[i].seller = s /\ items[i].type = type})
  IN /\ IF chosen # Empty /\ type \notin LegalTypes THEN Down
        ELSE Goes(t, [Idle EXCEPT !.pc = "sale", !.does = "sale", !.n = discount,
                                  !.batch = chosen])
     /\ UNCHANGED db

SaleStore(t) ==
  LET l == th[t]
      i == FirstOf(l.batch)
  IN /\ At(t, "sale") /\ l.batch # Empty
     /\ items' = Write(items, i, [l.batch[i] EXCEPT !.discount = l.n])
     /\ OnlyItems
     /\ Goes(t, [l EXCEPT !.batch = Without(@, i), !.dirty = TRUE])

SaleDone(t) ==
  At(t, "sale") /\ th[t].batch = Empty /\ Answers(t, "success") /\ UNCHANGED db

\* list, search and seller_list load their items in one call; an item of no
\* legal type among them is a null pointer.  wallet_show reads one user row,
\* and text where a number is wanted touches nothing.
ListItems(t, is) ==
  /\ IF \A i \in is : items[i].type \in LegalTypes THEN Answers(t, "success") ELSE Down
  /\ UNCHANGED db

WalletShow(t) == Answers(t, "success") /\ UNCHANGED db
InvalidInput(t) == Answers(t, "failure") /\ UNCHANGED db

-----------------------------------------------------------------------------
(* What a thread does *)

CustomerStart(t) ==
  \E u \in Users :
    \/ \E amount \in Topups : TopupLoad(t, u, amount)
    \/ \E i \in ItemIds, q \in Quantities : AddLoad(t, u, i, q)
    \/ \E r \in RowIds, q \in Quantities \cup {0} : CartEditLoad(t, u, r, q)
    \/ CartShow(t, u) \/ OrdersShow(t, u) \/ CheckoutLoad(t, u)

SellerStart(t) ==
  \E s \in Sellers, type \in Types :
    \/ \E price \in Prices : SellerAdd(t, s, price, type)
    \/ \E discount \in Discounts : SellerSaleLoad(t, s, type, discount)
    \/ ListItems(t, {i \in DOMAIN items : items[i].seller = s})

\* These four do not look at who asks.
AnyoneStart(t) ==
  \/ \E o \in OrderIds : PayLoad(t, o) \/ CancelLoad(t, o)
  \/ \E i \in ItemIds : SellerEditInvalid(t, i) \/ SellerRemoveLoad(t, i)
  \/ \E i \in ItemIds, stock \in Stocks :
       \E price \in Prices \cup {it.price : it \in Copy(items, i)},
          type \in Types \cup {it.type : it \in Copy(items, i)} :
         SellerEditLoad(t, i, price, type, stock)
  \/ \E is \in SUBSET DOMAIN items : ListItems(t, is)
  \/ WalletShow(t) \/ InvalidInput(t)

Start(t) == Starts(t) /\ (CustomerStart(t) \/ SellerStart(t) \/ AnyoneStart(t))

Continue(t) ==
  /\ \/ TopupStore(t) \/ AddStore(t) \/ CartEditStore(t)
     \/ ShowNext(t) \/ ShowDone(t)
     \/ CheckoutRow(t) \/ Create(t) \/ Freeze(t) \/ Insert(t) \/ Unrow(t)
     \/ CheckoutDone(t)
     \/ PayCustomer(t) \/ PaySeller(t) \/ PayItem(t) \/ Debit(t) \/ Credit(t)
     \/ MarkSold(t) \/ Reload(t) \/ Unfreeze(t) \/ Close(t)
     \/ EditStore(t) \/ Uncart(t) \/ Drop(t) \/ SaleStore(t) \/ SaleDone(t)
  /\ UNCHANGED requests

\* The rows a handler works on.
Footprint(l) ==
  CASE l.does = "topup" -> {<<"user", l.user>>}
    [] l.does = "cart" -> {<<"cart", l.user>>}
    [] l.does = "checkout" ->
         {<<"cart", l.user>>} \cup {<<"item", l.batch[r].item>> : r \in DOMAIN l.batch}
    [] l.does \in {"pay", "cancel"} ->
         LET ord == The(l.order)
         IN {<<"order", l.id>>, <<"item", ord.item>>} \cup
            (IF l.does = "pay" THEN {<<"user", ord.customer>>, <<"user", ord.seller>>}
                               ELSE {})
    [] l.does = "edit" -> {<<"item", l.id>>}
    [] l.does = "remove" -> {<<"item", l.id>>} \cup {<<"cart", u>> : u \in Users}
    [] l.does = "sale" -> {<<"item", i>> : i \in DOMAIN l.batch}
    [] OTHER -> {}

Paid(ord, price) ==
  [u \in Users |-> expected[u]
     - (IF u = ord.customer /\ u # ord.seller THEN price ELSE 0)
     + (IF u = ord.seller THEN price ELSE 0)]

\* History of a step of thread t: it writes rows another handler is using, it
\* takes the process down between another's writes, or it completes a top-up or a
\* payment, which to a seller who buys from himself brings the price.
History(t) ==
  /\ raced' = (raced \/ (db' # db /\ \E s \in Threads \ {t} :
                           Footprint(th[s]) \cap Footprint(th[t]) # {}))
  /\ torn' = (torn \/ (~up' /\ \E s \in Threads \ {t} : th[s].dirty))
  /\ expected' =
       CASE At(t, "topup") -> [expected EXCEPT ![th[t].user] = @ + th[t].n]
         [] At(t, "credit") -> Paid(The(th[t].order), Price(th[t]))
         [] OTHER -> expected

Kill ==
  /\ Killable /\ up
  /\ Down
  /\ torn' = (torn \/ \E s \in Threads : th[s].dirty)
  /\ UNCHANGED <<db, requests, raced, expected>>

Restart ==
  ~up /\ up' = TRUE /\ UNCHANGED <<db, th, reply, requests, raced, torn, expected>>

Step(t) == (Start(t) \/ Continue(t)) /\ History(t)

Next == (\E t \in Threads : Step(t)) \/ Kill \/ Restart

Spec == Init /\ [][Next]_vars

\* The scheduler lets every thread that serves a request go on.
Fairness == \A t \in Threads : WF_vars(Continue(t) /\ History(t))
FairSpec == Spec /\ Fairness

-----------------------------------------------------------------------------
(* Correctness *)

\* Types; a thread that is idle holds nothing, and no thread outlives the
\* process.
TypeOK ==
  /\ balance \in [Users -> Int]
  /\ lastItem \in 0 .. MaxItems /\ DOMAIN items \subseteq 1 .. lastItem
  /\ lastOrder \in 0 .. MaxOrders /\ DOMAIN orders \subseteq 1 .. lastOrder
  /\ lastRow \in 0 .. MaxRows /\ DOMAIN carts \subseteq 1 .. lastRow
  /\ items \in [DOMAIN items -> Item]
  /\ orders \in [DOMAIN orders -> Order]
  /\ carts \in [DOMAIN carts -> Row]
  /\ \A t \in Threads :
       /\ th[t].pc = "idle" => th[t] = Idle
       /\ ~up => th[t] = Idle

\* Whatever the interleaving and whenever the process dies, no wallet goes
\* below zero: every balance written was computed from a copy that passed the
\* test of base_user::pay.  (For prices and top-ups that are not negative.)
NoOverdraft == \A u \in Users : balance[u] >= 0

\* A thread that holds the copy of an order holds the order itself or one that
\* is gone: orders are never rewritten, and AUTOINCREMENT never gives the id of
\* a closed order to a new one, so that no late pay or cancel hits an order it
\* did not load.
OrderCopyIsThatOrder ==
  \A t \in Threads : th[t].does \in {"pay", "cancel"} =>
    Copy(orders, th[t].id) \subseteq th[t].order

\* What was removed stays removed: a thread that still holds the copy of an
\* item or a cart row cannot bring it back by writing the copy, and no id is
\* given twice.
NothingRevives ==
  [][/\ \A i \in 1 .. lastItem : i \in DOMAIN items' => i \in DOMAIN items
     /\ \A r \in 1 .. lastRow : r \in DOMAIN carts' => r \in DOMAIN carts
     /\ \A o \in 1 .. lastOrder : o \in DOMAIN orders' => o \in DOMAIN orders]_vars

\* Stock and orders agree, and a user has one row per item (as in Market).
HoldsUnit(o, i) == orders[o].item = i /\ orders[o].quantity # 0
StockCoherent ==
  /\ \A i \in DOMAIN items :
       /\ items[i].stock \in {0, 1}
       /\ items[i].frozen <= items[i].stock
       /\ items[i].frozen = 1 <=> \E o \in DOMAIN orders : HoldsUnit(o, i)
  /\ \A o, p \in DOMAIN orders :
       orders[p].quantity # 0 /\ HoldsUnit(o, orders[p].item) => o = p
CartsCoherent ==
  \A r, s \in DOMAIN carts :
    carts[r].user = carts[s].user /\ carts[r].item = carts[s].item => r = s

\* Requests interfere only through rows they share: as long as no handler
\* wrote while another was using the same user, cart, item or order, and the
\* process never died between two writes, then whenever no request is under
\* way stock and orders agree, carts have one row per item, and every wallet
\* holds what it would if each top-up and each payment were a single step,
\* however the steps of the requests were interleaved.
CoherentWhenApart ==
  ~raced /\ ~torn /\ (\A t \in Threads : th[t] = Idle)
    => StockCoherent /\ CartsCoherent /\ balance = expected

\* Every request comes to an end, by an answer or with the process: no handler
\* waits for another.
RequestsEnd == \A t \in Threads : th[t] # Idle ~> th[t] = Idle

\* The storage calls a handler still makes, at most.
CallsLeft(l) ==
  LET rows == Cardinality(DOMAIN l.batch)
  IN CASE l.pc = "idle" -> 0
       [] l.pc \in {"topup", "add", "cart_edit", "edit", "drop", "close"} -> 1
       [] l.pc \in {"uncart", "unfreeze"} -> 2
       [] l.pc = "reload" -> 3
       [] l.pc = "sold" -> 4
       [] l.pc = "credit" -> 5
       [] l.pc = "debit" -> 6
       [] l.pc = "item" -> 7
       [] l.pc = "seller" -> 8
       [] l.pc = "customer" -> 9
       [] l.pc = "show" -> Len(l.todo) + 1
       [] l.pc = "sale" -> rows + 1
       [] l.pc = "row" -> 5 * rows + 1
       [] l.pc = "create" -> 5 * rows
       [] l.pc = "freeze" -> 5 * rows - 1
       [] l.pc = "insert" -> 5 * rows - 2
       [] l.pc = "unrow" -> 5 * rows - 3

\* What a handler has still to do was settled by what it loaded first: every call
\* brings its end nearer, and nothing the other threads write meanwhile gives it
\* one call more.  A checkout of n rows takes at most 5 n + 1 calls after its
\* first, a payment nine, whatever is added to the cart or sold under its hands.
CallsRunOut ==
  [][\A t \in Threads : th[t] # Idle /\ th'[t] # th[t] =>
       CallsLeft(th'[t]) < CallsLeft(th[t])]_vars

-----------------------------------------------------------------------------
(* What the source's own words say, and the threads do not do *)

\* "User creates the order, freeze the stock / @return new order id if
\* success, 0 if failed" (server_interface.h:377): one unit is never frozen for
\* two orders.
NoOversell ==
  \A o, p \in DOMAIN orders :
    orders[p].quantity # 0 /\ HoldsUnit(o, orders[p].item) => o = p
=============================================================================
