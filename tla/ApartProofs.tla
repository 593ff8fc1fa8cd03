----------------------------- MODULE ApartProofs -----------------------------
(***************************************************************************)
(* Requests of the threaded server interfere only through rows they share. *)
(* While no handler writes rows that another is using, the copies a thread *)
(* holds are the rows as they are (ThreadsFine), so every call does to the *)
(* tables what it would if its request ran alone; and the tables are those *)
(* between requests, less what a handler in the middle of its writes has   *)
(* done already (AsAlone).                                                 *)
(***************************************************************************)
EXTENDS ThreadsProofs

-----------------------------------------------------------------------------
(* What a thread knows *)

Wanted(l) == The(l.order)

\* The request that makes the call l.pc, and what it has done by then.
Serves(l) ==
  /\ l.pc = "topup" => l.does = "topup" /\ l.user \in Users
  /\ l.pc \in {"add", "cart_edit"} => l.does = "cart"
  /\ l.pc \in {"create", "freeze", "insert"} => Wanted(l).item = l.batch[l.id].item
  /\ l.pc = "freeze" => Available(The(l.item)) >= Wanted(l).quantity
  /\ l.pc \in {"debit", "credit", "sold"} => \A it \in l.item : it.type \in LegalTypes
  /\ l.pc \in PayCalls <=> l.does \in {"pay", "cancel"}
  /\ l.pc \in PayCalls \ {"reload", "unfreeze", "close"} => l.does = "pay"
  /\ l.pc = "edit" => l.does = "edit"
  /\ l.pc \in {"uncart", "drop"} => l.does = "remove"
  /\ l.pc = "sale" => l.does = "sale"
  /\ l.pc \in {"insert", "credit", "close"} => l.dirty
  /\ l.does = "pay" /\ l.pc \in {"sold", "reload", "unfreeze"} => l.dirty

\* What stays true of the rows in l whatever the other threads do: a cart row
\* never changes its owner, and an order is only made for an item that was added.
Known(l) ==
  /\ l.pc \in {"add", "cart_edit"} \cup CheckoutCalls =>
       \A r \in DOMAIN l.batch :
          /\ r \in 1 .. lastRow /\ l.batch[r].user = l.user
          /\ r \in DOMAIN carts => carts[r].user = l.user
  /\ l.pc \in {"create", "freeze", "insert"} => Wanted(l).item \in 1 .. lastItem

\* The copies l is going to use are the rows as they are.
Accurate(l) ==
  /\ l.pc \in {"add", "cart_edit"} => l.batch = RowsOf(l.user)
  /\ l.pc = "topup" => l.cust = balance[l.user]
  /\ l.pc \in PayCalls => l.id \in DOMAIN orders /\ l.order = {orders[l.id]}
  /\ l.pc \in {"seller", "item", "debit"} => l.cust = balance[Wanted(l).customer]
  /\ l.pc \in {"item", "debit"} => l.sell = balance[Wanted(l).seller]
  /\ l.pc = "credit" /\ (Wanted(l).customer # Wanted(l).seller \/ Price(l) = 0) =>
       l.sell = balance[Wanted(l).seller]
  /\ l.pc \in {"freeze", "debit", "credit", "sold", "unfreeze"} =>
       \A it \in l.item : Wanted(l).item \in DOMAIN items /\ it = items[Wanted(l).item]
  /\ l.pc = "reload" /\ l.does = "pay" => CopyItem(Wanted(l).item) # {}
  /\ l.pc = "edit" => \A it \in l.item : l.id \in DOMAIN items /\ it = items[l.id]
  /\ l.pc = "sale" => \A i \in DOMAIN l.batch : i \in DOMAIN items /\ l.batch[i] = items[i]

Fine(l) == Serves(l) /\ Known(l) /\ (~raced => Accurate(l))
ThreadsFine == \A t \in Threads : Fine(th[t])

Base == Ids /\ TablesSound(Int) /\ ThreadsSound(Int, Order) /\ Bounded

LEMMA IdleFine ==
  Serves(Idle) /\ Known(Idle) /\ Accurate(Idle)
  BY DEF Serves, Known, Accurate, Idle, PayCalls, CheckoutCalls

LEMMA KnownStill ==
  ASSUME NEW l, UNCHANGED db
  PROVE  (Known(l) => Known(l)') /\ (Accurate(l) => Accurate(l)')
  BY DEF Known, Accurate, db, Copy, CopyItem, RowsOf

-----------------------------------------------------------------------------
(* A thread knows what it says when it has loaded *)

\* The thread of a step is left knowing what it says, or all end.
Left(t) ==
  \/ \E l : /\ Serves(l) /\ Known(l)' /\ (~raced' => Accurate(l)')
            /\ th' = [th EXCEPT ![t] = l]
  \/ th' = [s \in Threads |-> Idle]

LEMMA LeftIdle ==
  ASSUME NEW t \in Threads, Down \/ \E r : Answers(t, r)
  PROVE  Left(t)
  <1>1. Serves(Idle) /\ Known(Idle)' /\ Accurate(Idle)'
    BY DEF Serves, Known, Accurate, Idle, PayCalls, CheckoutCalls
  <1> QED
    BY <1>1 DEF Left, Down, Answers

LEMMA LeftLoaded ==
  ASSUME NEW t \in Threads, UNCHANGED db, raced => raced', NEW l, Goes(t, l),
         Serves(l), Known(l), ~raced => Accurate(l)
  PROVE  Left(t)
  BY KnownStill DEF Left, Goes

\* A state at no call that uses copies.
LEMMA NothingToKnow ==
  ASSUME NEW l, l.pc \in {"show", "uncart"}, l.does \in {"show", "remove"},
         l.pc = "uncart" => l.does = "remove"
  PROVE  Serves(l) /\ Known(l) /\ Accurate(l)
  BY DEF Serves, Known, Accurate, PayCalls, CheckoutCalls

LEMMA CustomerFine ==
  ASSUME Base, NEW t \in Threads, CustomerStart(t), raced => raced'
  PROVE  Left(t)
  <1> USE DEF Base, CheckoutCalls, PayCalls
  <1>1. ASSUME NEW u \in Users, NEW a \in Topups, TopupLoad(t, u, a)
        PROVE  Left(t)
    <2> DEFINE l == [Idle EXCEPT !.pc = "topup", !.does = "topup", !.user = u,
                                 !.n = a, !.cust = balance[u]]
    <2>1. l.pc = "topup" /\ l.does = "topup" /\ l.user = u /\ l.cust = balance[u]
      BY DEF Idle
    <2>2. Goes(t, l) /\ UNCHANGED db
      BY <1>1 DEF TopupLoad
    <2> HIDE DEF l
    <2>3. Serves(l) /\ Known(l) /\ Accurate(l)
      BY <2>1 DEF Serves, Known, Accurate
    <2> QED
      BY <2>2, <2>3, LeftLoaded
  <1>2. \A u : \A r \in DOMAIN RowsOf(u) :
           r \in 1 .. lastRow /\ RowsOf(u)[r].user = u /\ carts[r].user = u
    BY DEF Ids, RowsOf, Keep
  <1>3. ASSUME NEW u \in Users, NEW i \in ItemIds, NEW q \in Quantities, AddLoad(t, u, i, q)
        PROVE  Left(t)
    <2> DEFINE l == [Idle EXCEPT !.pc = "add", !.does = "cart", !.user = u, !.id = i,
                                 !.n = q, !.batch = RowsOf(u)]
    <2>1. l.pc = "add" /\ l.does = "cart" /\ l.user = u /\ l.batch = RowsOf(u)
      BY DEF Idle
    <2>2. Goes(t, l) /\ UNCHANGED db
      BY <1>3 DEF AddLoad
    <2> HIDE DEF l
    <2>3. Serves(l) /\ Known(l) /\ Accurate(l)
      BY <1>2, <2>1 DEF Serves, Known, Accurate
    <2> QED
      BY <2>2, <2>3, LeftLoaded
  <1>4. ASSUME NEW u \in Users, NEW r \in RowIds, NEW q \in Quantities \cup {0},
               CartEditLoad(t, u, r, q)
        PROVE  Left(t)
    <2> DEFINE l == [Idle EXCEPT !.pc = "cart_edit", !.does = "cart", !.user = u,
                                 !.id = r, !.n = q, !.batch = RowsOf(u)]
    <2>1. l.pc = "cart_edit" /\ l.does = "cart" /\ l.user = u /\ l.batch = RowsOf(u)
      BY DEF Idle
    <2>2. (Goes(t, l) \/ Answers(t, "failure")) /\ UNCHANGED db
      BY <1>4 DEF CartEditLoad
    <2> HIDE DEF l
    <2>3. Serves(l) /\ Known(l) /\ Accurate(l)
      BY <1>2, <2>1 DEF Serves, Known, Accurate
    <2> QED
      BY <2>2, <2>3, LeftLoaded, LeftIdle
  <1>5. ASSUME NEW sought, ShowLoad(t, sought)
        PROVE  Left(t)
    <2> DEFINE l == [Idle EXCEPT !.pc = "show", !.does = "show", !.todo = sought]
    <2>1. l.pc = "show" /\ l.does = "show"
      BY DEF Idle
    <2>2. Goes(t, l) /\ UNCHANGED db
      BY <1>5 DEF ShowLoad
    <2> HIDE DEF l
    <2> QED
      BY <2>1, <2>2, NothingToKnow, LeftLoaded
  <1>6. ASSUME NEW u \in Users, CheckoutLoad(t, u)
        PROVE  Left(t)
    <2> DEFINE l == [Idle EXCEPT !.pc = "row", !.does = "checkout", !.user = u,
                                 !.batch = RowsOf(u)]
    <2>1. l.pc = "row" /\ l.does = "checkout" /\ l.user = u /\ l.batch = RowsOf(u)
      BY DEF Idle
    <2>2. Goes(t, l) /\ UNCHANGED db
      BY <1>6 DEF CheckoutLoad
    <2> HIDE DEF l
    <2>3. Serves(l) /\ Known(l) /\ Accurate(l)
      BY <1>2, <2>1 DEF Serves, Known, Accurate
    <2> QED
      BY <2>2, <2>3, LeftLoaded
  <1> QED
    BY <1>1, <1>3, <1>4, <1>5, <1>6 DEF CustomerStart, CartShow, OrdersShow

LEMMA SellerFine ==
  ASSUME Base, NEW t \in Threads, SellerStart(t), raced => raced'
  PROVE  Left(t)
  <1>1. ASSUME NEW s, NEW type, NEW d, SellerSaleLoad(t, s, type, d)
        PROVE  Left(t)
    <2> DEFINE chosen == Keep(items, {i \in DOMAIN items :
                                 items[i].seller = s /\ items[i].type = type})
               l == [Idle EXCEPT !.pc = "sale", !.does = "sale", !.n = d,
                                 !.batch = chosen]
    <2>1. l.pc = "sale" /\ l.does = "sale" /\ l.batch = chosen
      BY DEF Idle
    <2>2. \A i \in DOMAIN chosen : i \in DOMAIN items /\ chosen[i] = items[i]
      BY DEF Keep
    <2>3. (Goes(t, l) \/ Down) /\ UNCHANGED db
      BY <1>1 DEF SellerSaleLoad
    <2> HIDE DEF l, chosen
    <2>4. Serves(l) /\ Known(l) /\ Accurate(l)
      BY <2>1, <2>2 DEF Serves, Known, Accurate, PayCalls, CheckoutCalls
    <2> QED
      BY <2>3, <2>4, LeftLoaded, LeftIdle
  <1> QED
    BY <1>1, LeftIdle DEF SellerStart, SellerAdd, ListItems

LEMMA AnyoneFine ==
  ASSUME Base, NEW t \in Threads, AnyoneStart(t), raced => raced'
  PROVE  Left(t)
  <1> USE DEF PayCalls, CheckoutCalls
  <1>1. ASSUME NEW o, PayLoad(t, o) \/ CancelLoad(t, o)
        PROVE  Left(t)
    <2> DEFINE ord == Copy(orders, o)
               p == [Idle EXCEPT !.pc = "customer", !.does = "pay", !.id = o,
                                 !.order = ord]
               c == [Idle EXCEPT !.pc = "reload", !.does = "cancel", !.id = o,
                                 !.order = ord]
    <2>1. /\ p.pc = "customer" /\ p.does = "pay" /\ p.id = o /\ p.order = ord
          /\ c.pc = "reload" /\ c.does = "cancel" /\ c.id = o /\ c.order = ord
      BY DEF Idle
    <2>2. ord # {} => o \in DOMAIN orders /\ ord = {orders[o]}
      BY DEF Copy
    <2>3. \/ Down \/ Answers(t, "failure")
          \/ ord # {} /\ (Goes(t, p) \/ Goes(t, c))
      BY <1>1 DEF PayLoad, CancelLoad
    <2>4. UNCHANGED db
      BY <1>1 DEF PayLoad, CancelLoad
    <2> HIDE DEF p, c, ord
    <2>5. ASSUME ord # {}
          PROVE  Serves(p) /\ Known(p) /\ Accurate(p)
      BY <2>1, <2>2, <2>5 DEF Serves, Known, Accurate
    <2>6. ASSUME ord # {}
          PROVE  Serves(c) /\ Known(c) /\ Accurate(c)
      BY <2>1, <2>2, <2>6 DEF Serves, Known, Accurate
    <2> QED
      BY <2>3, <2>4, <2>5, <2>6, LeftLoaded, LeftIdle
  <1>2. ASSUME NEW i, NEW price, NEW type, NEW stock, SellerEditLoad(t, i, price, type, stock)
        PROVE  Left(t)
    <2> DEFINE l == [Idle EXCEPT !.pc = "edit", !.does = "edit", !.id = i,
                                 !.n = price, !.type = type, !.item = CopyItem(i)]
    <2>1. l.pc = "edit" /\ l.does = "edit" /\ l.id = i /\ l.item = CopyItem(i)
      BY DEF Idle
    <2>2. \A it \in CopyItem(i) : i \in DOMAIN items /\ it = items[i]
      BY DEF CopyItem, Copy
    <2>3. (Down \/ Answers(t, "failure") \/ Goes(t, l)) /\ UNCHANGED db
      BY <1>2 DEF SellerEditLoad
    <2> HIDE DEF l
    <2>4. Serves(l) /\ Known(l) /\ Accurate(l)
      BY <2>1, <2>2 DEF Serves, Known, Accurate
    <2> QED
      BY <2>3, <2>4, LeftLoaded, LeftIdle
  <1>3. ASSUME NEW i, SellerRemoveLoad(t, i)
        PROVE  Left(t)
    <2> DEFINE l == [Idle EXCEPT !.pc = "uncart", !.does = "remove", !.id = i]
    <2>1. l.pc = "uncart" /\ l.does = "remove"
      BY DEF Idle
    <2>2. (Down \/ Goes(t, l)) /\ UNCHANGED db
      BY <1>3 DEF SellerRemoveLoad
    <2> HIDE DEF l
    <2> QED
      BY <2>1, <2>2, NothingToKnow, LeftLoaded, LeftIdle
  <1> QED
    BY <1>1, <1>2, <1>3, LeftIdle
       DEF AnyoneStart, SellerEditInvalid, ListItems, WalletShow, InvalidInput

-----------------------------------------------------------------------------
(* A thread knows what it says as it goes on *)

LEMMA TheOne ==
  ASSUME NEW x
  PROVE  The({x}) = x
  BY DEF The

\* What the proofs about a step of thread t use of its state.
LEMMA ThreadFacts ==
  ASSUME Base, ThreadsFine, NEW t \in Threads
  PROVE  /\ DOMAIN th = Threads /\ DOMAIN th[t] = Fields
         /\ Sound(Int, Order, th[t]) /\ Placed(th[t])
         /\ Serves(th[t]) /\ Known(th[t]) /\ (~raced => Accurate(th[t]))
  BY DEF Base, ThreadsFine, Fine, ThreadsSound, Bounded, Placed

LEMMA LeftGoing ==
  ASSUME NEW t \in Threads, NEW l, Goes(t, l), Serves(l), Known(l)', ~raced' => Accurate(l)'
  PROVE  Left(t)
  BY DEF Left, Goes

LEMMA BatchLeft ==
  ASSUME NEW f, NEW k
  PROVE  \A r \in DOMAIN Without(f, k) :
           r \in DOMAIN f /\ r # k /\ Without(f, k)[r] = f[r]
  BY DEF Without, Keep

LEMMA CheckoutFine ==
  ASSUME Base, ThreadsFine, NEW t \in Threads, raced => raced',
         CheckoutRow(t) \/ Create(t) \/ Freeze(t) \/ Insert(t) \/ Unrow(t)
  PROVE  Left(t)
  <1> DEFINE k == th[t]
  <1>1. /\ DOMAIN k = Fields /\ Sound(Int, Order, k) /\ Placed(k)
        /\ Serves(k) /\ Known(k) /\ (~raced => Accurate(k))
    BY ThreadFacts
  <1>2. \A i : CopyItem(i) # {} => i \in 1 .. lastItem
    BY DEF Base, Ids, CopyItem, Copy
  <1> USE DEF CheckoutCalls, PayCalls, At
  <1>3. CASE CheckoutRow(t)
    <2> DEFINE r == FirstOf(k.batch)
               it == CopyItem(k.batch[r].item)
               l == [k EXCEPT !.pc = "create", !.id = r,
                              !.order = {NewOrder(k.user, k.batch[r], The(it))}]
    <2>1. k.pc = "row" /\ k.batch # Empty /\ UNCHANGED db
          /\ ((it = {} /\ Down) \/ (it # {} /\ Goes(t, l)))
      BY <1>3 DEF CheckoutRow, Fails
    <2>2. /\ l.pc = "create" /\ l.does = k.does /\ l.id = r /\ l.batch = k.batch
          /\ l.user = k.user
          /\ l.order = {NewOrder(k.user, k.batch[r], The(it))}
      BY <1>1 DEF Fields
    <2>4. k.does = "checkout"
      BY <1>1, <2>1 DEF Placed
    <2>5. it # {} => k.batch[r].item \in 1 .. lastItem
      BY <1>2
    <2> HIDE DEF k, l, it, r
    <2>3. Wanted(l).item = k.batch[r].item
      <3>1. Wanted(l) = NewOrder(k.user, k.batch[r], The(it))
        BY <2>2, TheOne DEF Wanted
      <3>2. \A u, row, x : NewOrder(u, row, x).item = row.item
        BY DEF NewOrder
      <3> QED
        BY <3>1, <3>2
    <2>6. ASSUME it # {}
          PROVE  Serves(l) /\ Known(l) /\ Accurate(l)
      BY <1>1, <2>1, <2>2, <2>3, <2>4, <2>5, <2>6 DEF Serves, Known, Accurate
    <2> QED
      BY <2>1, <2>6, LeftLoaded, LeftIdle
  <1>4. CASE Create(t)
    <2> DEFINE new == The(k.order)
               it == CopyItem(new.item)
               f == [k EXCEPT !.pc = "freeze", !.item = it]
               n == [k EXCEPT !.pc = "row", !.id = 0, !.order = {}, !.ok = FALSE,
                              !.batch = Without(@, k.id)]
    <2>1. k.pc = "create" /\ UNCHANGED db
          /\ \/ Down
             \/ it # {} /\ Available(The(it)) >= new.quantity /\ Goes(t, f)
             \/ Goes(t, n)
      BY <1>4 DEF Create, Fails
    <2>2. /\ f.pc = "freeze" /\ f.does = k.does /\ f.id = k.id /\ f.batch = k.batch
          /\ f.user = k.user /\ f.order = k.order /\ f.item = it
          /\ n.pc = "row" /\ n.does = k.does /\ n.batch = Without(k.batch, k.id)
          /\ n.user = k.user
      BY <1>1 DEF Fields
    <2>3. k.does = "checkout"
      BY <1>1, <2>1 DEF Placed
    <2>4. Wanted(f) = new /\ Wanted(k) = new
      BY <2>2 DEF Wanted
    <2>5. \A x \in it : new.item \in DOMAIN items /\ x = items[new.item]
      BY DEF CopyItem, Copy
    <2> HIDE DEF k, f, n, new, it
    <2>6. ASSUME Available(The(it)) >= new.quantity
          PROVE  Serves(f) /\ Known(f) /\ Accurate(f)
      BY <1>1, <2>1, <2>2, <2>3, <2>4, <2>5, <2>6 DEF Serves, Known, Accurate
    <2>7. Serves(n) /\ Known(n) /\ Accurate(n)
      BY <1>1, <2>1, <2>2, <2>3, BatchLeft DEF Serves, Known, Accurate
    <2> QED
      BY <2>1, <2>6, <2>7, LeftLoaded, LeftIdle
  <1>5. CASE Freeze(t)
    <2>0. k.pc = "freeze" /\ OnlyItems
      BY <1>5 DEF Freeze
    <2>1. PICK l : Goes(t, l) /\ l = [k EXCEPT !.pc = "insert", !.item = {}, !.dirty = TRUE]
      BY <1>5 DEF Freeze
    <2>2. /\ l.pc = "insert" /\ l.does = k.does /\ l.id = k.id /\ l.batch = k.batch
          /\ l.user = k.user /\ l.order = k.order /\ l.dirty
      BY <1>1, <2>1 DEF Fields
    <2>3. k.does = "checkout"
      BY <1>1, <2>0 DEF Placed
    <2>4. Wanted(l) = Wanted(k)
      BY <2>2 DEF Wanted
    <2>5. UNCHANGED <<carts, lastItem, lastRow>>
      BY <2>0 DEF OnlyItems
    <2> HIDE DEF k
    <2>6. Serves(l)
      BY <1>1, <2>0, <2>2, <2>3, <2>4 DEF Serves
    <2>7. Known(l)'
      BY <1>1, <2>0, <2>2, <2>4, <2>5 DEF Known, Wanted
    <2>8. Accurate(l)'
      BY <2>2 DEF Accurate
    <2> QED
      BY <2>1, <2>6, <2>7, <2>8, LeftGoing
  <1>6. CASE Insert(t)
    <2>0. k.pc = "insert" /\ OnlyOrders
      BY <1>6 DEF Insert
    <2>1. PICK l : Goes(t, l) /\ l = [k EXCEPT !.pc = "unrow", !.order = {}]
      BY <1>6 DEF Insert
    <2>2. /\ l.pc = "unrow" /\ l.does = k.does /\ l.batch = k.batch /\ l.user = k.user
      BY <1>1, <2>1 DEF Fields
    <2>3. k.does = "checkout"
      BY <1>1, <2>0 DEF Placed
    <2>4. UNCHANGED <<carts, lastItem, lastRow>>
      BY <2>0 DEF OnlyOrders
    <2> HIDE DEF k
    <2>5. Serves(l)
      BY <2>2, <2>3 DEF Serves
    <2>6. Known(l)'
      BY <1>1, <2>0, <2>2, <2>4 DEF Known
    <2>7. Accurate(l)'
      BY <2>2 DEF Accurate
    <2> QED
      BY <2>1, <2>5, <2>6, <2>7, LeftGoing
  <1>7. CASE Unrow(t)
    <2>0. k.pc = "unrow" /\ carts' = Without(carts, k.id) /\ UNCHANGED lastRow
      BY <1>7 DEF Unrow
    <2>1. PICK l : Goes(t, l) /\ l = [k EXCEPT !.pc = "row", !.id = 0, !.dirty = FALSE,
                                             !.batch = Without(@, k.id)]
      BY <1>7 DEF Unrow
    <2>2. /\ l.pc = "row" /\ l.does = k.does /\ l.batch = Without(k.batch, k.id)
          /\ l.user = k.user
      BY <1>1, <2>1 DEF Fields
    <2>3. k.does = "checkout"
      BY <1>1, <2>0 DEF Placed
    <2> HIDE DEF k
    <2>4. Serves(l)
      BY <2>2, <2>3 DEF Serves
    <2>5. Known(l)'
      BY <1>1, <2>0, <2>2, BatchLeft DEF Known
    <2>6. Accurate(l)'
      BY <2>2 DEF Accurate
    <2> QED
      BY <2>1, <2>4, <2>5, <2>6, LeftGoing
  <1> QED
    BY <1>3, <1>4, <1>5, <1>6, <1>7

LEMMA PaymentFine ==
  ASSUME Base, ThreadsFine, NEW t \in Threads, raced => raced',
         PayCustomer(t) \/ PaySeller(t) \/ PayItem(t) \/ Debit(t) \/ Credit(t)
  PROVE  Left(t)
  <1> DEFINE k == th[t]
             ord == The(k.order)
  <1>1. /\ DOMAIN k = Fields /\ Sound(Int, Order, k)
        /\ Serves(k) /\ (~raced => Accurate(k))
    BY ThreadFacts
  <1> USE DEF CheckoutCalls, PayCalls, At
  <1>2. CASE PayCustomer(t)
    <2> DEFINE l == [k EXCEPT !.pc = "seller", !.cust = balance[ord.customer]]
    <2>1. k.pc = "customer" /\ Goes(t, l) /\ UNCHANGED db
      BY <1>2 DEF PayCustomer
    <2>2. /\ l.pc = "seller" /\ l.does = k.does /\ l.id = k.id /\ l.order = k.order
          /\ l.cust = balance[ord.customer]
      BY <1>1 DEF Fields
    <2>3. Wanted(l) = ord
      BY <2>2 DEF Wanted
    <2> HIDE DEF k, l, ord
    <2>4. Serves(l) /\ Known(l)
      BY <1>1, <2>1, <2>2 DEF Serves, Known
    <2>5. ~raced => Accurate(l)
      BY <1>1, <2>1, <2>2, <2>3 DEF Accurate
    <2> QED
      BY <2>1, <2>4, <2>5, LeftLoaded
  <1>3. CASE PaySeller(t)
    <2> DEFINE l == [k EXCEPT !.pc = "item", !.sell = balance[ord.seller]]
    <2>1. k.pc = "seller" /\ Goes(t, l) /\ UNCHANGED db
      BY <1>3 DEF PaySeller
    <2>2. /\ l.pc = "item" /\ l.does = k.does /\ l.id = k.id /\ l.order = k.order
          /\ l.cust = k.cust /\ l.sell = balance[ord.seller]
      BY <1>1 DEF Fields
    <2>3. Wanted(l) = ord /\ Wanted(k) = ord
      BY <2>2 DEF Wanted
    <2> HIDE DEF k, l, ord
    <2>4. Serves(l) /\ Known(l)
      BY <1>1, <2>1, <2>2 DEF Serves, Known
    <2>5. ~raced => Accurate(l)
      BY <1>1, <2>1, <2>2, <2>3 DEF Accurate
    <2> QED
      BY <2>1, <2>4, <2>5, LeftLoaded
  <1>4. CASE PayItem(t)
    <2> DEFINE l == [k EXCEPT !.pc = "debit", !.item = CopyItem(ord.item)]
    <2>1. k.pc = "item" /\ (Goes(t, l) \/ Answers(t, "failure")) /\ UNCHANGED db
      BY <1>4 DEF PayItem
    <2>2. /\ l.pc = "debit" /\ l.does = k.does /\ l.id = k.id /\ l.order = k.order
          /\ l.cust = k.cust /\ l.sell = k.sell /\ l.item = CopyItem(ord.item)
      BY <1>1 DEF Fields
    <2>3. Wanted(l) = ord /\ Wanted(k) = ord
      BY <2>2 DEF Wanted
    <2>4. \A x \in CopyItem(ord.item) :
             x.type \in LegalTypes /\ ord.item \in DOMAIN items /\ x = items[ord.item]
      BY DEF CopyItem, Copy
    <2> HIDE DEF k, l, ord
    <2>5. Serves(l) /\ Known(l)
      BY <1>1, <2>1, <2>2, <2>4 DEF Serves, Known
    <2>6. ~raced => Accurate(l)
      BY <1>1, <2>1, <2>2, <2>3, <2>4 DEF Accurate
    <2> QED
      BY <2>1, <2>5, <2>6, LeftLoaded, LeftIdle
  <1>5. CASE Debit(t)
    <2>0. /\ k.pc = "debit" /\ OnlyBalance
          /\ balance' = [balance EXCEPT ![ord.customer] = k.cust - Price(k)]
      BY <1>5 DEF Debit
    <2>1. PICK l : Goes(t, l) /\ l = [k EXCEPT !.pc = "credit", !.dirty = TRUE]
      BY <1>5 DEF Debit
    <2>2. /\ l.pc = "credit" /\ l.does = k.does /\ l.id = k.id /\ l.order = k.order
          /\ l.cust = k.cust /\ l.sell = k.sell /\ l.item = k.item /\ l.dirty
      BY <1>1, <2>1 DEF Fields
    <2>3. Wanted(l) = ord /\ Wanted(k) = ord /\ Price(l) = Price(k)
      BY <2>2 DEF Wanted, Price
    <2>4. UNCHANGED <<items, orders>>
      BY <2>0 DEF OnlyBalance
    <2>5. k.order # {} /\ k.order \subseteq Order /\ k.cust \in Int
      BY <1>1, <2>0 DEF Sound, CopiesSound, RequestSound, PaymentSound
    <2>6. ord \in Order /\ balance \in [Users -> Int]
      BY <2>5, TheIn DEF Base, TablesSound
    <2>7. ord.customer \in Users /\ ord.seller \in Users
      BY <2>6 DEF Order
    <2> HIDE DEF k, ord
    <2>8. Serves(l) /\ Known(l)'
      BY <1>1, <2>0, <2>2 DEF Serves, Known
    <2>9. ASSUME ~raced, ord.customer # ord.seller \/ Price(k) = 0
          PROVE  l.sell = balance'[ord.seller]
      <3>1. k.cust = balance[ord.customer] /\ k.sell = balance[ord.seller]
        BY <1>1, <2>0, <2>3, <2>9 DEF Accurate
      <3>2. Price(k) = 0 => k.cust - Price(k) = k.cust
        BY <2>5
      <3> QED
        BY <2>0, <2>2, <2>6, <2>7, <2>9, <3>1, <3>2
    <2>10. ~raced => Accurate(l)'
      BY <1>1, <2>0, <2>2, <2>3, <2>4, <2>9 DEF Accurate, Wanted, Price
    <2> QED
      BY <2>1, <2>8, <2>10, LeftGoing
  <1>6. CASE Credit(t)
    <2>0. k.pc = "credit" /\ OnlyBalance
      BY <1>6 DEF Credit
    <2>1. PICK l : Goes(t, l) /\ l = [k EXCEPT !.pc = "sold"]
      BY <1>6 DEF Credit
    <2>2. /\ l.pc = "sold" /\ l.does = k.does /\ l.id = k.id /\ l.order = k.order
          /\ l.item = k.item /\ l.dirty = k.dirty
      BY <1>1, <2>1 DEF Fields
    <2>3. Wanted(l) = Wanted(k)
      BY <2>2 DEF Wanted
    <2>4. UNCHANGED <<items, orders>>
      BY <2>0 DEF OnlyBalance
    <2> HIDE DEF k
    <2>5. Serves(l) /\ Known(l)'
      BY <1>1, <2>0, <2>2 DEF Serves, Known
    <2>6. ~raced => Accurate(l)'
      BY <1>1, <2>0, <2>2, <2>3, <2>4 DEF Accurate, Wanted
    <2> QED
      BY <2>1, <2>5, <2>6, LeftGoing
  <1> QED
    BY <1>2, <1>3, <1>4, <1>5, <1>6

LEMMA DeliveryFine ==
  ASSUME Base, ThreadsFine, NEW t \in Threads, raced => raced',
         MarkSold(t) \/ Reload(t) \/ Unfreeze(t)
  PROVE  Left(t)
  <1> DEFINE k == th[t]
             ord == The(k.order)
  <1>1. /\ DOMAIN k = Fields /\ Sound(Int, Order, k)
        /\ Serves(k) /\ (~raced => Accurate(k))
    BY ThreadFacts
  <1> USE DEF CheckoutCalls, PayCalls, At
  <1>2. CASE MarkSold(t) /\ Down
    BY <1>2, LeftIdle
  <1>3. CASE MarkSold(t) /\ ~Down
    <2>0. /\ k.pc = "sold" /\ k.item # {} /\ OnlyItems
          /\ items' = Write(items, ord.item, Sold(The(k.item), ord.quantity))
      BY <1>3 DEF MarkSold, Fails
    <2>1. PICK l : Goes(t, l) /\ l = [k EXCEPT !.pc = "reload", !.item = {}]
      BY <1>3 DEF MarkSold, Fails
    <2>2. /\ l.pc = "reload" /\ l.does = k.does /\ l.id = k.id /\ l.order = k.order
          /\ l.dirty = k.dirty
      BY <1>1, <2>1 DEF Fields
    <2>3. Wanted(l) = ord /\ Wanted(k) = ord
      BY <2>2 DEF Wanted
    <2>4. UNCHANGED orders
      BY <2>0 DEF OnlyItems
    <2>5. The(k.item) \in k.item /\ k.item \subseteq Ware
      BY <1>1, <2>0, TheIn DEF Sound, CopiesSound
    <2> DEFINE new == Sold(The(k.item), ord.quantity)
    <2>6. new.type = The(k.item).type
      BY <2>5 DEF Ware, Sold
    <2> HIDE DEF k, ord, new
    <2>7. The(k.item).type \in LegalTypes
      BY <1>1, <2>0, <2>5 DEF Serves
    <2>8. ASSUME NEW i, i = ord.item, ~raced
          PROVE  CopyItem(i)' # {}
      <3>1. i \in DOMAIN items
        BY <1>1, <2>0, <2>3, <2>5, <2>8 DEF Accurate
      <3>2. items' = [items EXCEPT ![i] = new]
        BY <2>0, <2>8, <3>1 DEF Write, new
      <3>3. i \in DOMAIN items' /\ items'[i] = new
        BY <3>1, <3>2
      <3> QED
        BY <2>6, <2>7, <3>3 DEF CopyItem, Copy
    <2>9. Serves(l) /\ Known(l)'
      BY <1>1, <2>0, <2>2 DEF Serves, Known
    <2>10. ~raced => Accurate(l)'
      BY <1>1, <2>0, <2>2, <2>3, <2>4, <2>8 DEF Accurate, Wanted
    <2> QED
      BY <2>1, <2>9, <2>10, LeftGoing
  <1>4. CASE Reload(t)
    <2> DEFINE l == [k EXCEPT !.pc = "unfreeze", !.item = CopyItem(ord.item)]
    <2>1. k.pc = "reload" /\ (Goes(t, l) \/ Down) /\ UNCHANGED db
      BY <1>4 DEF Reload, Fails
    <2>2. /\ l.pc = "unfreeze" /\ l.does = k.does /\ l.id = k.id /\ l.order = k.order
          /\ l.item = CopyItem(ord.item) /\ l.dirty = k.dirty
      BY <1>1 DEF Fields
    <2>3. Wanted(l) = ord
      BY <2>2 DEF Wanted
    <2>4. \A x \in CopyItem(ord.item) : ord.item \in DOMAIN items /\ x = items[ord.item]
      BY DEF CopyItem, Copy
    <2> HIDE DEF k, l, ord
    <2>5. Serves(l) /\ Known(l)
      BY <1>1, <2>1, <2>2 DEF Serves, Known
    <2>6. ~raced => Accurate(l)
      BY <1>1, <2>1, <2>2, <2>3, <2>4 DEF Accurate
    <2> QED
      BY <2>1, <2>5, <2>6, LeftLoaded, LeftIdle
  <1>5. CASE Unfreeze(t)
    <2>0. k.pc = "unfreeze" /\ OnlyItems
      BY <1>5 DEF Unfreeze
    <2>1. PICK l : Goes(t, l) /\ l = [k EXCEPT !.pc = "close", !.item = {}, !.dirty = TRUE]
      BY <1>5 DEF Unfreeze
    <2>2. /\ l.pc = "close" /\ l.does = k.does /\ l.id = k.id /\ l.order = k.order
          /\ l.dirty
      BY <1>1, <2>1 DEF Fields
    <2>3. UNCHANGED orders
      BY <2>0 DEF OnlyItems
    <2> HIDE DEF k
    <2>4. Serves(l) /\ Known(l)'
      BY <1>1, <2>0, <2>2 DEF Serves, Known
    <2>5. ~raced => Accurate(l)'
      BY <1>1, <2>0, <2>2, <2>3 DEF Accurate
    <2> QED
      BY <2>1, <2>4, <2>5, LeftGoing
  <1> QED
    BY <1>2, <1>3, <1>4, <1>5

LEMMA OthersFine ==
  ASSUME Base, ThreadsFine, NEW t \in Threads, raced => raced',
         ShowNext(t) \/ Uncart(t) \/ SaleStore(t)
  PROVE  Left(t)
  <1> DEFINE k == th[t]
  <1>1. /\ DOMAIN k = Fields /\ Serves(k) /\ (~raced => Accurate(k))
    BY ThreadFacts
  <1> USE DEF CheckoutCalls, PayCalls, At
  <1>2. CASE ShowNext(t)
    <2> DEFINE l == [k EXCEPT !.todo = Tail(@)]
    <2>1. k.pc = "show" /\ (Goes(t, l) \/ Down) /\ UNCHANGED db
      BY <1>2 DEF ShowNext, Fails
    <2>2. l.pc = k.pc /\ l.does = k.does
      BY <1>1 DEF Fields
    <2> HIDE DEF k, l
    <2>3. Serves(l) /\ Known(l) /\ Accurate(l)
      BY <1>1, <2>1, <2>2 DEF Serves, Known, Accurate
    <2> QED
      BY <2>1, <2>3, LeftLoaded, LeftIdle
  <1>3. CASE Uncart(t)
    <2>0. k.pc = "uncart"
      BY <1>3 DEF Uncart
    <2>1. PICK l : Goes(t, l) /\ l = [k EXCEPT !.pc = "drop", !.dirty = TRUE]
      BY <1>3 DEF Uncart
    <2>2. l.pc = "drop" /\ l.does = k.does
      BY <1>1, <2>1 DEF Fields
    <2> HIDE DEF k
    <2>3. Serves(l) /\ Known(l)' /\ Accurate(l)'
      BY <1>1, <2>0, <2>2 DEF Serves, Known, Accurate
    <2> QED
      BY <2>1, <2>3, LeftGoing
  <1>4. CASE SaleStore(t)
    <2> DEFINE i == FirstOf(k.batch)
               new == [k.batch[i] EXCEPT !.discount = k.n]
    <2>0. k.pc = "sale" /\ items' = Write(items, i, new)
      BY <1>4 DEF SaleStore
    <2>1. PICK l : Goes(t, l) /\ l = [k EXCEPT !.batch = Without(@, i), !.dirty = TRUE]
      BY <1>4 DEF SaleStore
    <2>2. l.pc = k.pc /\ l.does = k.does /\ l.batch = Without(k.batch, i)
      BY <1>1, <2>1 DEF Fields
    <2>3. \A j \in DOMAIN items : j # i => j \in DOMAIN items' /\ items'[j] = items[j]
      BY <2>0 DEF Write
    <2> HIDE DEF k, i, new
    <2>4. Serves(l) /\ Known(l)'
      BY <1>1, <2>0, <2>2 DEF Serves, Known
    <2>5. ~raced => Accurate(l)'
      BY <1>1, <2>0, <2>2, <2>3, BatchLeft DEF Accurate
    <2> QED
      BY <2>1, <2>4, <2>5, LeftGoing
  <1> QED
    BY <1>2, <1>3, <1>4

LEMMA StepFine ==
  ASSUME Base, ThreadsFine, NEW t \in Threads, Step(t)
  PROVE  Left(t)
  <1>1. raced => raced'
    BY DEF Step, History
  <1>2. CASE Start(t)
    BY <1>1, <1>2, CustomerFine, SellerFine, AnyoneFine DEF Start
  <1>3. CASE \/ TopupStore(t) \/ AddStore(t) \/ CartEditStore(t) \/ ShowDone(t)
             \/ CheckoutDone(t) \/ Close(t) \/ EditStore(t) \/ Drop(t) \/ SaleDone(t)
    BY <1>3, LeftIdle DEF TopupStore, AddStore, CartEditStore, ShowDone, CheckoutDone,
       Close, EditStore, Drop, SaleDone
  <1>4. CASE Continue(t)
    BY <1>1, <1>3, <1>4, CheckoutFine, PaymentFine, DeliveryFine, OthersFine DEF Continue
  <1> QED
    BY <1>2, <1>4 DEF Step

-----------------------------------------------------------------------------
(* A step writes only rows of its footprint *)

LEMMA FootprintIs ==
  ASSUME NEW l
  PROVE  /\ l.does = "topup" => <<"user", l.user>> \in Footprint(l)
         /\ l.does \in {"cart", "checkout"} => <<"cart", l.user>> \in Footprint(l)
         /\ l.does = "checkout" =>
              \A r \in DOMAIN l.batch : <<"item", l.batch[r].item>> \in Footprint(l)
         /\ l.does \in {"pay", "cancel"} =>
              /\ <<"order", l.id>> \in Footprint(l)
              /\ <<"item", Wanted(l).item>> \in Footprint(l)
         /\ l.does = "pay" =>
              /\ <<"user", Wanted(l).customer>> \in Footprint(l)
              /\ <<"user", Wanted(l).seller>> \in Footprint(l)
         /\ l.does \in {"edit", "remove"} => <<"item", l.id>> \in Footprint(l)
         /\ l.does = "remove" => \A u \in Users : <<"cart", u>> \in Footprint(l)
         /\ l.does = "sale" => \A i \in DOMAIN l.batch : <<"item", i>> \in Footprint(l)
  BY DEF Footprint, Wanted

\* Row k of one table is that of the other.
Same(f, g, k) == (k \in DOMAIN f <=> k \in DOMAIN g) /\ (k \in DOMAIN f => g[k] = f[k])

\* A step that changes only the rows F, and rows of items it adds.  An order
\* counts as a row of its item too.
Keeps(F) ==
  /\ \A u \in Users : <<"user", u>> \notin F => balance'[u] = balance[u]
  /\ \A i \in 1 .. lastItem : <<"item", i>> \notin F => Same(items, items', i)
  /\ \A o \in DOMAIN orders :
       <<"order", o>> \notin F \/ <<"item", orders[o].item>> \notin F
         => Same(orders, orders', o)
  /\ \A o \in DOMAIN orders' \ DOMAIN orders : <<"item", orders'[o].item>> \in F
  /\ \A u \in Users : <<"cart", u>> \notin F => RowsOf(u)' = RowsOf(u)

LEMMA KeepsStill ==
  ASSUME NEW F, UNCHANGED db
  PROVE  Keeps(F)
  BY DEF Keeps, Same, RowsOf, db

LEMMA RowsOfSame ==
  ASSUME NEW u,
         \A r : r \in DOMAIN carts /\ carts[r].user = u
                 => r \in DOMAIN carts' /\ carts'[r] = carts[r],
         \A r : r \in DOMAIN carts' /\ carts'[r].user = u
                 => r \in DOMAIN carts /\ carts[r].user = u
  PROVE  RowsOf(u)' = RowsOf(u)
  <1> DEFINE A == DOMAIN carts \cap {r \in DOMAIN carts : carts[r].user = u}
             B == DOMAIN carts' \cap {r \in DOMAIN carts' : carts'[r].user = u}
  <1>1. A = B /\ \A r \in A : carts'[r] = carts[r]
    OBVIOUS
  <1>2. RowsOf(u) = [r \in A |-> carts[r]] /\ RowsOf(u)' = [r \in B |-> carts'[r]]
    BY DEF RowsOf, Keep
  <1> HIDE DEF A, B
  <1> QED
    BY <1>1, <1>2

LEMMA WriteSame ==
  ASSUME NEW f, NEW k, NEW row
  PROVE  /\ \A x : x # k => Same(f, Write(f, k, row), x) /\ Same(f, Without(f, k), x)
         /\ \A x : x # k => Same(f, Put(f, k, row), x)
  BY DEF Same, Write, Without, Keep, Put

\* What happens to the cart of a user whose rows a thread changes.
LEMMA CartKeeps ==
  ASSUME Base, ThreadsFine, NEW t \in Threads,
         AddStore(t) \/ CartEditStore(t) \/ Unrow(t)
  PROVE  /\ \A u : u # th[t].user => RowsOf(u)' = RowsOf(u)
         /\ \A r \in DOMAIN carts' :
              \/ r \in DOMAIN carts /\ carts'[r].user = carts[r].user
              \/ r > lastRow /\ carts'[r].user = th[t].user
         /\ lastRow' \in Nat /\ lastRow' >= lastRow
  <1> DEFINE k == th[t]
             Goal == /\ \A u : u # k.user => RowsOf(u)' = RowsOf(u)
                     /\ \A r \in DOMAIN carts' :
                          \/ r \in DOMAIN carts /\ carts'[r].user = carts[r].user
                          \/ r > lastRow /\ carts'[r].user = k.user
  <1>1. /\ Sound(Int, Order, k) /\ Placed(k) /\ Known(k)
        /\ lastRow \in Nat /\ DOMAIN carts \subseteq 1 .. lastRow
    BY ThreadFacts DEF Base, Ids
  <1>2. ASSUME NEW r, NEW row, row.user = k.user, r \in DOMAIN carts => carts[r].user = k.user,
               carts' = Write(carts, r, row) \/ carts' = Without(carts, r)
        PROVE  Goal
    <2>1. DOMAIN carts' \subseteq DOMAIN carts
      BY <1>2, WriteDomain, WithoutDomain
    <2>2. \A x : x # r => Same(carts, carts', x)
      BY <1>2, WriteSame
    <2>3. r \in DOMAIN carts' => carts'[r].user = k.user
      BY <1>2 DEF Write, Without, Keep
    <2> HIDE DEF k
    <2>4. \A u : u # k.user => RowsOf(u)' = RowsOf(u)
      BY <1>2, <2>1, <2>2, <2>3, RowsOfSame DEF Same
    <2> QED
      BY <1>2, <2>1, <2>2, <2>3, <2>4 DEF Same
  <1>3. ASSUME NEW row, row.user = k.user, carts' = Put(carts, lastRow + 1, row)
        PROVE  Goal
    <2>1. DOMAIN carts' = DOMAIN carts \cup {lastRow + 1} /\ carts'[lastRow + 1] = row
          /\ lastRow + 1 \notin DOMAIN carts
      BY <1>1, <1>3 DEF Put
    <2>2. \A x : x # lastRow + 1 => Same(carts, carts', x)
      BY <1>3, WriteSame
    <2> HIDE DEF k
    <2>3. \A u : u # k.user => RowsOf(u)' = RowsOf(u)
      BY <1>3, <2>1, <2>2, RowsOfSame DEF Same
    <2> QED
      BY <1>1, <1>3, <2>1, <2>2, <2>3 DEF Same
  <1>4. k.pc \in {"add", "cart_edit"} \cup CheckoutCalls =>
          /\ k.batch \in [DOMAIN k.batch -> Row]
          /\ \A r \in DOMAIN k.batch :
               k.batch[r].user = k.user /\ (r \in DOMAIN carts => carts[r].user = k.user)
    BY <1>1 DEF Sound, RequestSound, Known
  <1>5. \A r \in DOMAIN k.batch : k.pc \in {"add", "cart_edit"} =>
           \A q : [k.batch[r] EXCEPT !.quantity = q].user = k.user
    BY <1>4 DEF Row
  <1> HIDE DEF Goal
  <1>6. ASSUME AddStore(t)
        PROVE  Goal
    <2> DEFINE same == Keep(k.batch, {r \in DOMAIN k.batch : k.batch[r].item = k.id})
               r == FirstOf(same)
    <2>1. k.pc = "add" /\ DOMAIN k.batch \subseteq Nat
      BY <1>1, <1>6 DEF AddStore, At, Sound, CopiesSound
    <2>2. /\ DOMAIN same \subseteq DOMAIN k.batch /\ same = [x \in DOMAIN same |-> same[x]]
          /\ \A x \in DOMAIN same : same[x] = k.batch[x]
      BY DEF Keep
    <2>3. CASE same = Empty
      <3>1. carts' = Put(carts, lastRow + 1, CartRow(k.user, k.id, k.n))
        BY <1>6, <2>3 DEF AddStore
      <3> QED
        BY <1>3, <3>1 DEF CartRow
    <2>4. CASE same # Empty
      <3>1. carts' = Write(carts, r, [same[r] EXCEPT !.quantity = SizeAdd(@, k.n)])
        BY <1>6, <2>4 DEF AddStore
      <3>2. r \in DOMAIN same
        BY <2>1, <2>2, <2>4, FirstLeft
      <3>3. carts' = Write(carts, r, [k.batch[r] EXCEPT !.quantity = SizeAdd(@, k.n)])
        BY <2>2, <3>1, <3>2
      <3> HIDE DEF r
      <3>4. r \in DOMAIN k.batch
        BY <2>2, <3>2
      <3> DEFINE row == [k.batch[r] EXCEPT !.quantity = SizeAdd(@, k.n)]
      <3>5. row.user = k.user
        BY <1>5, <2>1, <3>4
      <3> HIDE DEF row
      <3>6. carts' = Write(carts, r, row)
        BY <3>3 DEF row
      <3> QED
        BY <1>2, <1>4, <2>1, <3>4, <3>5, <3>6
    <2> QED
      BY <2>3, <2>4
  <1>7. ASSUME CartEditStore(t)
        PROVE  Goal
    <2>1. k.pc = "cart_edit" /\ k.id \in DOMAIN k.batch
      BY <1>1, <1>7 DEF CartEditStore, At, Sound, RequestSound
    <2> DEFINE row == [k.batch[k.id] EXCEPT !.quantity = k.n]
    <2>2. row.user = k.user
      BY <1>5, <2>1
    <2>3. carts' = Write(carts, k.id, row) \/ carts' = Without(carts, k.id)
      BY <1>7 DEF CartEditStore
    <2> HIDE DEF row
    <2> QED
      BY <1>2, <1>4, <2>1, <2>2, <2>3
  <1>8. ASSUME Unrow(t)
        PROVE  Goal
    <2>1. k.pc = "unrow" /\ k.id \in DOMAIN k.batch
      BY <1>1, <1>8 DEF Unrow, At, Placed, CheckoutCalls
    <2>2. carts' = Without(carts, k.id)
      BY <1>8 DEF Unrow
    <2> QED
      BY <1>2, <1>4, <2>1, <2>2 DEF CheckoutCalls
  <1>9. Goal
    BY <1>6, <1>7, <1>8
  <1>10. lastRow' \in Nat /\ lastRow' >= lastRow
    <2>1. lastRow' = lastRow \/ lastRow' = lastRow + 1
      BY DEF AddStore, CartEditStore, Unrow
    <2> QED
      BY <1>1, <2>1
  <1> QED
    BY <1>9, <1>10 DEF Goal

LEMMA KeepsWriting ==
  ASSUME Base, ThreadsFine, ~raced, NEW t \in Threads, Writing(t)
  PROVE  Keeps(Footprint(th[t]))
  <1> DEFINE k == th[t]
             F == Footprint(k)
             ord == The(k.order)
  <1>1. /\ Sound(Int, Order, k) /\ Placed(k) /\ Serves(k) /\ Accurate(k)
        /\ balance \in [Users -> Int]
        /\ lastItem \in Nat /\ DOMAIN items \subseteq 1 .. lastItem
        /\ lastOrder \in Nat /\ DOMAIN orders \subseteq 1 .. lastOrder
    BY ThreadFacts DEF Base, Ids, TablesSound
  <1> USE DEF At
  <1>2. ASSUME NEW u, <<"user", u>> \in F, NEW b, balance' = [balance EXCEPT ![u] = b], OnlyBalance
        PROVE  Keeps(F)
    BY <1>1, <1>2 DEF Keeps, Same, RowsOf, OnlyBalance
  <1>3. ASSUME NEW i, <<"item", i>> \in F, NEW row, OnlyItems,
               items' = Write(items, i, row) \/ items' = Without(items, i)
        PROVE  Keeps(F)
    <2>1. \A x : x # i => Same(items, items', x)
      BY <1>3, WriteSame
    <2> HIDE DEF F
    <2> QED
      BY <1>3, <2>1 DEF Keeps, Same, RowsOf, OnlyItems
  <1>4. ASSUME TopupStore(t)
        PROVE  Keeps(F)
    <2>1. <<"user", k.user>> \in F
      BY <1>1, <1>4, FootprintIs DEF TopupStore, Serves
    <2> QED
      BY <1>2, <1>4, <2>1 DEF TopupStore
  <1>5. ASSUME AddStore(t) \/ CartEditStore(t)
        PROVE  Keeps(F)
    <2>1. <<"cart", k.user>> \in F
      BY <1>1, <1>5, FootprintIs DEF AddStore, CartEditStore, Serves
    <2>2. UNCHANGED <<balance, items, orders>>
      BY <1>5 DEF AddStore, CartEditStore, OnlyCarts
    <2>3. \A u : u # k.user => RowsOf(u)' = RowsOf(u)
      BY <1>5, CartKeeps
    <2> HIDE DEF k, F
    <2> QED
      BY <2>1, <2>2, <2>3 DEF Keeps, Same
  <1>6. ASSUME Unrow(t)
        PROVE  Keeps(F)
    <2>1. <<"cart", k.user>> \in F
      BY <1>1, <1>6, FootprintIs DEF Unrow, Placed, CheckoutCalls
    <2>2. UNCHANGED <<balance, items, orders>>
      BY <1>6 DEF Unrow, OnlyCarts
    <2>3. \A u : u # k.user => RowsOf(u)' = RowsOf(u)
      BY <1>6, CartKeeps
    <2> HIDE DEF k, F
    <2> QED
      BY <2>1, <2>2, <2>3 DEF Keeps, Same
  <1>7. ASSUME k.pc \in {"freeze", "insert"}
        PROVE  <<"item", ord.item>> \in F
    <2>1. k.does = "checkout" /\ k.id \in DOMAIN k.batch /\ ord.item = k.batch[k.id].item
      BY <1>1, <1>7 DEF Placed, CheckoutCalls, Serves, Wanted
    <2> QED
      BY <2>1, FootprintIs
  <1>8. ASSUME Freeze(t)
        PROVE  Keeps(F)
    BY <1>3, <1>7, <1>8 DEF Freeze
  <1>9. ASSUME Insert(t)
        PROVE  Keeps(F)
    <2>1. <<"item", ord.item>> \in F
      BY <1>7, <1>9 DEF Insert
    <2>2. orders' = Put(orders, lastOrder + 1, ord) /\ OnlyOrders
      BY <1>9 DEF Insert, FreshOrderId
    <2>3. DOMAIN orders' = DOMAIN orders \cup {lastOrder + 1} /\ orders'[lastOrder + 1] = ord
      BY <2>2 DEF Put
    <2>4. \A x : x # lastOrder + 1 => Same(orders, orders', x)
      BY <2>2, WriteSame
    <2>5. lastOrder + 1 \notin DOMAIN orders
      BY <1>1
    <2> HIDE DEF k, F, ord
    <2> QED
      BY <2>1, <2>2, <2>3, <2>4, <2>5 DEF Keeps, Same, RowsOf, OnlyOrders
  <1>10. ASSUME Debit(t) \/ Credit(t)
        PROVE  Keeps(F)
    <2>1. <<"user", ord.customer>> \in F /\ <<"user", ord.seller>> \in F
      BY <1>1, <1>10, FootprintIs DEF Debit, Credit, Serves, PayCalls, Wanted
    <2> QED
      BY <1>2, <1>10, <2>1 DEF Debit, Credit
  <1>11. ASSUME MarkSold(t) \/ Unfreeze(t)
        PROVE  Keeps(F)
    <2>1. <<"item", ord.item>> \in F
      BY <1>1, <1>11, FootprintIs DEF MarkSold, Unfreeze, Serves, PayCalls, Wanted
    <2> QED
      BY <1>3, <1>11, <2>1, KeepsStill DEF MarkSold, Unfreeze, Fails
  <1>12. ASSUME Close(t)
        PROVE  Keeps(F)
    <2>1. /\ <<"order", k.id>> \in F /\ <<"item", ord.item>> \in F
          /\ k.order = {orders[k.id]}
      BY <1>1, <1>12, FootprintIs DEF Close, Serves, Accurate, PayCalls, Wanted
    <2>2. ord = orders[k.id]
      BY <2>1, TheOne
    <2>3. orders' = Without(orders, k.id) /\ OnlyOrders
      BY <1>12 DEF Close
    <2>4. \A x : x # k.id => Same(orders, orders', x)
      BY <2>3, WriteSame
    <2> HIDE DEF k, F, ord
    <2> QED
      BY <2>1, <2>2, <2>3, <2>4, WithoutDomain DEF Keeps, Same, RowsOf, OnlyOrders
  <1>13. ASSUME \E s \in Sellers, price \in Prices, type \in Types : SellerAdd(t, s, price, type)
        PROVE  Keeps(F)
    <2>1. PICK row : items' = Put(items, lastItem + 1, row)
                     /\ UNCHANGED <<balance, orders, carts>>
      BY <1>13 DEF SellerAdd
    <2>2. \A x : x # lastItem + 1 => Same(items, items', x)
      BY <2>1, WriteSame
    <2> QED
      BY <1>1, <2>1, <2>2 DEF Keeps, Same, RowsOf
  <1>14. ASSUME EditStore(t) \/ Drop(t)
        PROVE  Keeps(F)
    <2>1. <<"item", k.id>> \in F
      BY <1>1, <1>14, FootprintIs DEF EditStore, Drop, Serves
    <2> QED
      BY <1>3, <1>14, <2>1 DEF EditStore, Drop
  <1>15. ASSUME Uncart(t)
        PROVE  Keeps(F)
    <2>1. \A u \in Users : <<"cart", u>> \in F
      BY <1>1, <1>15, FootprintIs DEF Uncart, Serves
    <2>2. UNCHANGED <<balance, items, orders>>
      BY <1>15 DEF Uncart, OnlyCarts
    <2> HIDE DEF F
    <2> QED
      BY <2>1, <2>2 DEF Keeps, Same
  <1>16. ASSUME SaleStore(t)
        PROVE  Keeps(F)
    <2>1. k.pc = "sale" /\ k.batch # Empty /\ DOMAIN k.batch \subseteq Nat
          /\ k.batch = [x \in DOMAIN k.batch |-> k.batch[x]]
      BY <1>1, <1>16 DEF SaleStore, Sound, CopiesSound
    <2>2. FirstOf(k.batch) \in DOMAIN k.batch
      BY <2>1, FirstLeft
    <2>3. <<"item", FirstOf(k.batch)>> \in F
      BY <1>1, <2>1, <2>2, FootprintIs DEF Serves
    <2> QED
      BY <1>3, <1>16, <2>3 DEF SaleStore
  <1> HIDE DEF F, k, ord
  <1>17. Keeps(F)
    BY <1>4, <1>5, <1>6, <1>8, <1>9, <1>10, <1>11, <1>12, <1>13, <1>14, <1>15, <1>16 DEF Writing
  <1> QED
    BY <1>17 DEF F, k

\* As long as no handler writes while another uses the same rows, a step leaves
\* the rows of all other threads alone.
LEMMA StepKeeps ==
  ASSUME Base, ThreadsFine, NEW t \in Threads, Step(t), ~raced', NEW s \in Threads, s # t
  PROVE  /\ ~raced
         /\ \A u \in Users : <<"user", u>> \in Footprint(th[s]) => balance'[u] = balance[u]
         /\ \A i \in 1 .. lastItem : <<"item", i>> \in Footprint(th[s]) =>
              /\ Same(items, items', i)
              /\ \A o \in DOMAIN orders : orders[o].item = i => Same(orders, orders', o)
              /\ \A o \in DOMAIN orders' \ DOMAIN orders : orders'[o].item # i
         /\ \A o \in DOMAIN orders : <<"order", o>> \in Footprint(th[s]) =>
              Same(orders, orders', o)
         /\ \A u \in Users : <<"cart", u>> \in Footprint(th[s]) => RowsOf(u)' = RowsOf(u)
  <1> DEFINE F == Footprint(th[t])
             G == Footprint(th[s])
  <1>1. ~raced /\ (db' # db => G \cap F = {})
    BY DEF Step, History
  <1>2. CASE UNCHANGED db
    BY <1>1, <1>2 DEF Same, RowsOf, db
  <1>3. CASE db' # db
    <2>1. Keeps(F)
      BY <1>1, <1>3, WhatWrites, KeepsWriting
    <2>2. \A x \in G : x \notin F
      BY <1>1, <1>3
    <2> HIDE DEF F, G
    <2>3. /\ \A u \in Users : <<"user", u>> \in G => balance'[u] = balance[u]
          /\ \A i \in 1 .. lastItem : <<"item", i>> \in G =>
               /\ Same(items, items', i)
               /\ \A o \in DOMAIN orders : orders[o].item = i => Same(orders, orders', o)
               /\ \A o \in DOMAIN orders' \ DOMAIN orders : orders'[o].item # i
      BY <2>1, <2>2 DEF Keeps
    <2>4. /\ \A o \in DOMAIN orders : <<"order", o>> \in G => Same(orders, orders', o)
          /\ \A u \in Users : <<"cart", u>> \in G => RowsOf(u)' = RowsOf(u)
      BY <2>1, <2>2 DEF Keeps
    <2> QED
      BY <1>1, <2>3, <2>4 DEF G
  <1> QED
    BY <1>2, <1>3

-----------------------------------------------------------------------------
(* What a thread knows stays true *)

\* Every order is for an item that was added.
OrdersPlaced == \A o \in DOMAIN orders : orders[o].item \in 1 .. lastItem

LEMMA Owners ==
  ASSUME Base, ThreadsFine, OrdersPlaced, NEW t \in Threads, Step(t)
  PROVE  /\ lastRow' \in Nat /\ lastRow' >= lastRow
         /\ lastItem' \in Nat /\ lastItem' >= lastItem
         /\ \A r \in 1 .. lastRow : r \in DOMAIN carts' =>
              r \in DOMAIN carts /\ carts'[r].user = carts[r].user
         /\ OrdersPlaced'
  <1>1. /\ lastRow \in Nat /\ DOMAIN carts \subseteq 1 .. lastRow
        /\ lastItem \in Nat /\ lastOrder \in Nat /\ DOMAIN orders \subseteq 1 .. lastOrder
    BY DEF Base, Ids
  <1> DEFINE Goal == /\ lastRow' \in Nat /\ lastRow' >= lastRow
                     /\ lastItem' \in Nat /\ lastItem' >= lastItem
                     /\ \A r \in 1 .. lastRow : r \in DOMAIN carts' =>
                          r \in DOMAIN carts /\ carts'[r].user = carts[r].user
                     /\ OrdersPlaced'
  <1>2. ASSUME UNCHANGED <<carts, lastRow>>, lastItem' = lastItem \/ lastItem' = lastItem + 1,
               UNCHANGED orders
        PROVE  Goal
    BY <1>1, <1>2 DEF OrdersPlaced
  <1>3. CASE UNCHANGED db
    BY <1>2, <1>3 DEF db
  <1>4. ASSUME Writing(t)
        PROVE  Goal
    <2>1. ASSUME AddStore(t) \/ CartEditStore(t) \/ Unrow(t)
          PROVE  Goal
      <3>1. UNCHANGED <<orders, lastItem>>
        BY <2>1 DEF AddStore, CartEditStore, Unrow, OnlyCarts
      <3>2. \A r \in DOMAIN carts' :
                 \/ r \in DOMAIN carts /\ carts'[r].user = carts[r].user
                 \/ r > lastRow
        BY <2>1, CartKeeps
      <3>3. lastRow' \in Nat /\ lastRow' >= lastRow
        BY <2>1, CartKeeps
      <3> QED
        BY <1>1, <3>1, <3>2, <3>3 DEF OrdersPlaced
    <2>2. ASSUME Uncart(t)
          PROVE  Goal
      <3>1. UNCHANGED <<orders, lastItem, lastRow>>
        BY <2>2 DEF Uncart, OnlyCarts
      <3>2. \A r \in DOMAIN carts' : r \in DOMAIN carts /\ carts'[r] = carts[r]
        BY <2>2 DEF Uncart, Keep
      <3> QED
        BY <1>1, <3>1, <3>2 DEF OrdersPlaced
    <2>3. ASSUME Insert(t)
          PROVE  Goal
      <3>1. UNCHANGED <<carts, lastItem, lastRow>>
            /\ orders' = Put(orders, lastOrder + 1, The(th[t].order))
        BY <2>3 DEF Insert, OnlyOrders, FreshOrderId
      <3>2. The(th[t].order).item \in 1 .. lastItem
        BY <2>3, ThreadFacts DEF Insert, At, Known, Wanted
      <3>3. OrdersPlaced'
        BY <3>1, <3>2 DEF OrdersPlaced, Put
      <3> QED
        BY <1>1, <3>1, <3>3
    <2>4. ASSUME Close(t)
          PROVE  Goal
      <3>1. UNCHANGED <<carts, lastItem, lastRow>> /\ orders' = Without(orders, th[t].id)
        BY <2>4 DEF Close, OnlyOrders
      <3>2. OrdersPlaced'
        BY <3>1, WithoutDomain DEF OrdersPlaced
      <3> QED
        BY <1>1, <3>1, <3>2
    <2>5. ASSUME \E s \in Sellers, price \in Prices, type \in Types : SellerAdd(t, s, price, type)
          PROVE  Goal
      BY <1>2, <2>5 DEF SellerAdd
    <2>6. ASSUME \/ Freeze(t) \/ MarkSold(t) \/ Unfreeze(t) \/ EditStore(t) \/ Drop(t)
                 \/ SaleStore(t) \/ TopupStore(t) \/ Debit(t) \/ Credit(t)
          PROVE  Goal
      <3>1. OnlyItems \/ OnlyBalance \/ UNCHANGED db
        BY <2>6 DEF Freeze, MarkSold, Unfreeze, EditStore, Drop, SaleStore, TopupStore,
           Debit, Credit, Fails
      <3> QED
        BY <1>2, <3>1 DEF OnlyItems, OnlyBalance, db
    <2> HIDE DEF Goal
    <2> QED
      BY <1>4, <2>1, <2>2, <2>3, <2>4, <2>5, <2>6 DEF Writing
  <1> QED
    BY <1>2, <1>3, <1>4, WhatWrites DEF db

LEMMA AccurateStays ==
  ASSUME Base, ThreadsFine, NEW t \in Threads, Step(t), ~raced', NEW s \in Threads, s # t,
         NEW l, l = th[s]
  PROVE  Accurate(l)'
  <1> DEFINE F == Footprint(l)
  <1>1. /\ Sound(Int, Order, l) /\ Placed(l) /\ Serves(l) /\ ~raced /\ Accurate(l)
        /\ DOMAIN items \subseteq 1 .. lastItem
    BY StepKeeps, ThreadFacts DEF Base, Ids
  <1>2. /\ \A u \in Users : <<"user", u>> \in F => balance'[u] = balance[u]
        /\ \A i \in DOMAIN items : <<"item", i>> \in F =>
             i \in DOMAIN items' /\ items'[i] = items[i]
        /\ \A o \in DOMAIN orders : <<"order", o>> \in F =>
             o \in DOMAIN orders' /\ orders'[o] = orders[o]
        /\ \A u \in Users : <<"cart", u>> \in F => RowsOf(u)' = RowsOf(u)
    BY <1>1, StepKeeps DEF Same
  <1> USE DEF PayCalls
  <1>3. l.pc \in {"add", "cart_edit"} => l.batch = RowsOf(l.user)'
    <2>1. l.pc \in {"add", "cart_edit"} => l.user \in Users /\ <<"cart", l.user>> \in F
      BY <1>1, FootprintIs DEF Sound, RequestSound, Serves
    <2> HIDE DEF F
    <2> QED
      BY <1>1, <1>2, <2>1 DEF Accurate
  <1>4. l.pc = "topup" => l.cust = balance'[l.user]
    <2>1. l.pc = "topup" => l.user \in Users /\ <<"user", l.user>> \in F
      BY <1>1, FootprintIs DEF Serves
    <2> HIDE DEF F
    <2> QED
      BY <1>1, <1>2, <2>1 DEF Accurate
  <1>5. l.pc \in PayCalls => l.id \in DOMAIN orders' /\ l.order = {orders'[l.id]}
    <2>1. l.pc \in PayCalls => <<"order", l.id>> \in F
      BY <1>1, FootprintIs DEF Serves
    <2> HIDE DEF F
    <2> QED
      BY <1>1, <1>2, <2>1 DEF Accurate
  <1>6. l.pc \in {"seller", "item", "debit", "credit"} =>
          /\ balance'[Wanted(l).customer] = balance[Wanted(l).customer]
          /\ balance'[Wanted(l).seller] = balance[Wanted(l).seller]
    <2> SUFFICES ASSUME l.pc \in {"seller", "item", "debit", "credit"}
                 PROVE  /\ balance'[Wanted(l).customer] = balance[Wanted(l).customer]
                        /\ balance'[Wanted(l).seller] = balance[Wanted(l).seller]
      OBVIOUS
    <2>1. <<"user", Wanted(l).customer>> \in F /\ <<"user", Wanted(l).seller>> \in F
      BY <1>1, FootprintIs DEF Serves
    <2>2. Wanted(l) \in Order
      BY <1>1, TheIn DEF Sound, CopiesSound, RequestSound, Wanted
    <2>3. Wanted(l).customer \in Users /\ Wanted(l).seller \in Users
      BY <2>2 DEF Order
    <2> HIDE DEF F
    <2> QED
      BY <1>2, <2>1, <2>3
  <1>7. \/ l.pc \in {"freeze", "debit", "credit", "sold", "unfreeze"}
        \/ l.pc = "reload" /\ l.does = "pay"
        => <<"item", Wanted(l).item>> \in F
    <2>1. l.pc = "freeze" => <<"item", Wanted(l).item>> \in F
      <3>1. l.pc = "freeze" => /\ l.does = "checkout" /\ l.id \in DOMAIN l.batch
                               /\ Wanted(l).item = l.batch[l.id].item
        BY <1>1 DEF Serves, Placed, CheckoutCalls
      <3> QED
        BY <3>1, FootprintIs
    <2> QED
      BY <1>1, <2>1, FootprintIs DEF Serves
  <1>8. l.pc \in {"freeze", "debit", "credit", "sold", "unfreeze"} =>
          \A it \in l.item : Wanted(l).item \in DOMAIN items' /\ it = items'[Wanted(l).item]
    <2> HIDE DEF F
    <2> QED
      BY <1>1, <1>2, <1>7 DEF Accurate
  <1>9. l.pc = "reload" /\ l.does = "pay" => CopyItem(Wanted(l).item)' # {}
    <2> SUFFICES ASSUME l.pc = "reload", l.does = "pay"
                 PROVE  CopyItem(Wanted(l).item)' # {}
      OBVIOUS
    <2>1. CopyItem(Wanted(l).item) # {}
      BY <1>1 DEF Accurate
    <2> HIDE DEF F
    <2> QED
      BY <1>2, <1>7, <2>1 DEF CopyItem, Copy, Wanted
  <1>10. l.pc = "edit" => \A it \in l.item : l.id \in DOMAIN items' /\ it = items'[l.id]
    <2>1. l.pc = "edit" => <<"item", l.id>> \in F
      BY <1>1, FootprintIs DEF Serves
    <2> HIDE DEF F
    <2> QED
      BY <1>1, <1>2, <2>1 DEF Accurate
  <1>11. l.pc = "sale" =>
           \A i \in DOMAIN l.batch : i \in DOMAIN items' /\ l.batch[i] = items'[i]
    <2>1. l.pc = "sale" => \A i \in DOMAIN l.batch : <<"item", i>> \in F
      BY <1>1, FootprintIs DEF Serves
    <2> HIDE DEF F
    <2> QED
      BY <1>1, <1>2, <2>1 DEF Accurate
  <1> HIDE DEF F
  <1>12. /\ l.pc \in {"seller", "item", "debit"} => l.cust = balance'[Wanted(l).customer]
         /\ l.pc \in {"item", "debit"} => l.sell = balance'[Wanted(l).seller]
         /\ l.pc = "credit" /\ (Wanted(l).customer # Wanted(l).seller \/ Price(l) = 0) =>
              l.sell = balance'[Wanted(l).seller]
    BY <1>1, <1>6 DEF Accurate
  <1> QED
    BY <1>3, <1>4, <1>5, <1>8, <1>9, <1>10, <1>11, <1>12 DEF Accurate, Wanted, Price

LEMMA FineStep ==
  ASSUME Base, ThreadsFine, OrdersPlaced, [Next]_vars
  PROVE  ThreadsFine' /\ OrdersPlaced'
  <1>1. Serves(Idle) /\ Known(Idle)' /\ Accurate(Idle)'
    BY DEF Serves, Known, Accurate, Idle, PayCalls, CheckoutCalls
  <1>2. ASSUME th' = [s \in Threads |-> Idle]
        PROVE  ThreadsFine'
    BY <1>1, <1>2 DEF ThreadsFine, Fine
  <1>3. ASSUME UNCHANGED <<db, th, raced>>
        PROVE  ThreadsFine' /\ OrdersPlaced'
    BY <1>3, KnownStill DEF ThreadsFine, Fine, OrdersPlaced, db
  <1>4. CASE Kill
    BY <1>2, <1>4 DEF Kill, Down, OrdersPlaced, db
  <1>5. CASE Restart \/ UNCHANGED vars
    BY <1>3, <1>5 DEF Restart, vars
  <1>6. ASSUME NEW t \in Threads, Step(t)
        PROVE  ThreadsFine' /\ OrdersPlaced'
    <2>1. OrdersPlaced'
      BY <1>6, Owners
    <2>2. Left(t)
      BY <1>6, StepFine
    <2>3. ASSUME NEW l, Serves(l), Known(l)', ~raced' => Accurate(l)', th' = [th EXCEPT ![t] = l]
          PROVE  ThreadsFine'
      <3>1. DOMAIN th = Threads
        BY ThreadFacts, <1>6
      <3>2. ASSUME NEW s \in Threads, s # t
            PROVE  Fine(th[s])'
        <4>1. PICK m : m = th[s]
          OBVIOUS
        <4>2. th'[s] = m
          BY <2>3, <3>1, <3>2, <4>1
        <4>3. Serves(m) /\ Known(m)
          BY <4>1, ThreadFacts
        <4>4. Known(m)'
          <5>1. /\ lastRow \in Nat /\ lastRow' \in Nat /\ lastRow' >= lastRow
                /\ lastItem \in Nat /\ lastItem' \in Nat /\ lastItem' >= lastItem
                /\ \A r \in 1 .. lastRow : r \in DOMAIN carts' =>
                     r \in DOMAIN carts /\ carts'[r].user = carts[r].user
            BY <1>6, Owners DEF Base, Ids
          <5> QED
            BY <4>3, <5>1 DEF Known, Wanted
        <4>5. ~raced' => Accurate(m)'
          BY <1>6, <3>2, <4>1, AccurateStays
        <4> QED
          BY <4>2, <4>3, <4>4, <4>5 DEF Fine, Serves, Wanted
      <3>3. th'[t] = l
        BY <2>3, <3>1
      <3>4. Fine(th[t])'
        BY <2>3, <3>3 DEF Fine, Serves, Wanted
      <3> QED
        BY <3>2, <3>4 DEF ThreadsFine
    <2> QED
      BY <1>2, <2>1, <2>2, <2>3 DEF Left
  <1> QED
    BY <1>4, <1>5, <1>6 DEF Next

-----------------------------------------------------------------------------
(* Carts *)

\* Rows that stay keep their user and item.
LEMMA CartsFewer ==
  ASSUME CartsCoherent,
         \A r \in DOMAIN carts' : /\ r \in DOMAIN carts
                                  /\ carts'[r].user = carts[r].user
                                  /\ carts'[r].item = carts[r].item
  PROVE  CartsCoherent'
  BY DEF CartsCoherent

\* An add has seen every row of the user, and an edit has seen the row it edits.
LEMMA CartsStep ==
  ASSUME Base, ThreadsFine, CartsCoherent, ~raced, NEW t \in Threads, Step(t)
  PROVE  CartsCoherent'
  <1> DEFINE k == th[t]
  <1>1. /\ Sound(Int, Order, k) /\ Serves(k) /\ Accurate(k)
        /\ DOMAIN carts \subseteq 1 .. lastRow /\ lastRow \in Nat
    BY ThreadFacts DEF Base, Ids
  <1>2. k.pc \in {"add", "cart_edit"} =>
          /\ \A r \in DOMAIN k.batch : r \in DOMAIN carts /\ k.batch[r] = carts[r]
          /\ \A r \in DOMAIN carts : carts[r].user = k.user => r \in DOMAIN k.batch
    <2> SUFFICES ASSUME k.pc \in {"add", "cart_edit"}
                 PROVE  /\ \A r \in DOMAIN k.batch : r \in DOMAIN carts /\ k.batch[r] = carts[r]
                        /\ \A r \in DOMAIN carts : carts[r].user = k.user => r \in DOMAIN k.batch
      OBVIOUS
    <2>1. k.batch = [x \in DOMAIN carts \cap {r \in DOMAIN carts : carts[r].user = k.user}
                       |-> carts[x]]
      BY <1>1 DEF Accurate, RowsOf, Keep
    <2> HIDE DEF k
    <2> QED
      BY <2>1
  <1> USE DEF At
  <1>3. CASE UNCHANGED carts
    BY <1>3, CartsFewer
  <1>4. CASE Unrow(t) \/ Uncart(t)
    BY <1>4, CartsFewer, WithoutDomain DEF Unrow, Uncart, Keep
  <1>5. ASSUME CartEditStore(t)
        PROVE  CartsCoherent'
    <2> DEFINE row == [k.batch[k.id] EXCEPT !.quantity = k.n]
    <2>1. /\ k.pc = "cart_edit" /\ k.id \in DOMAIN k.batch
          /\ k.batch \in [DOMAIN k.batch -> Row] /\ k.batch = RowsOf(k.user)
      BY <1>1, <1>5 DEF CartEditStore, Sound, RequestSound, Accurate
    <2>2. row.user = carts[k.id].user /\ row.item = carts[k.id].item
      <3>1. k.batch[k.id] \in Row
        BY <2>1
      <3>2. row.user = k.batch[k.id].user /\ row.item = k.batch[k.id].item
        BY <3>1 DEF Row
      <3> HIDE DEF row, k
      <3> QED
        BY <1>2, <2>1, <3>2
    <2>3. carts' = Write(carts, k.id, row) \/ carts' = Without(carts, k.id)
      BY <1>5 DEF CartEditStore
    <2> HIDE DEF row, k
    <2> QED
      BY <2>2, <2>3, WithoutDomain, CartsFewer DEF Write
  <1>6. ASSUME AddStore(t)
        PROVE  CartsCoherent'
    <2> DEFINE same == Keep(k.batch, {r \in DOMAIN k.batch : k.batch[r].item = k.id})
               r == FirstOf(same)
    <2>1. /\ k.pc = "add" /\ k.batch = RowsOf(k.user) /\ DOMAIN k.batch \subseteq Nat
          /\ k.batch \in [DOMAIN k.batch -> Row]
      BY <1>1, <1>6 DEF AddStore, Sound, CopiesSound, RequestSound, Accurate
    <2>2. /\ DOMAIN same \subseteq DOMAIN k.batch /\ same = [x \in DOMAIN same |-> same[x]]
          /\ \A x \in DOMAIN same : same[x] = k.batch[x]
          /\ \A x \in DOMAIN k.batch : k.batch[x].item = k.id => x \in DOMAIN same
      BY DEF Keep
    <2>3. CASE same = Empty
      <3>1. carts' = Put(carts, lastRow + 1, CartRow(k.user, k.id, k.n))
        BY <1>6, <2>3 DEF AddStore
      <3>2. \A x \in DOMAIN carts : carts[x].user = k.user => carts[x].item # k.id
        <4>1. DOMAIN same = {}
          BY <2>3 DEF Empty
        <4> HIDE DEF same, k
        <4> QED
          BY <1>2, <2>1, <2>2, <4>1
      <3> DEFINE row == CartRow(k.user, k.id, k.n)
      <3>3. row.user = k.user /\ row.item = k.id
        BY DEF CartRow
      <3> HIDE DEF same, row, k
      <3>4. /\ DOMAIN carts' = DOMAIN carts \cup {lastRow + 1}
            /\ \A x \in DOMAIN carts' :
                 carts'[x] = IF x = lastRow + 1 THEN row ELSE carts[x]
        BY <3>1 DEF Put, row
      <3> QED
        BY <3>2, <3>3, <3>4 DEF CartsCoherent
    <2>4. CASE same # Empty
      <3>1. carts' = Write(carts, r, [same[r] EXCEPT !.quantity = SizeAdd(@, k.n)])
        BY <1>6, <2>4 DEF AddStore
      <3>2. r \in DOMAIN same
        BY <2>1, <2>2, <2>4, FirstLeft
      <3> DEFINE row == [same[r] EXCEPT !.quantity = SizeAdd(@, k.n)]
      <3> HIDE DEF r
      <3>3. same[r] = carts[r] /\ same[r] \in Row
        <4> HIDE DEF same, k
        <4> QED
          BY <1>2, <2>1, <2>2, <3>2
      <3> HIDE DEF same
      <3>4. row.user = carts[r].user /\ row.item = carts[r].item
        BY <3>3 DEF Row
      <3>5. carts' = Write(carts, r, row)
        BY <3>1
      <3> HIDE DEF row, k
      <3> QED
        BY <3>4, <3>5, CartsFewer DEF Write
    <2> QED
      BY <2>3, <2>4
  <1>7. UNCHANGED carts \/ AddStore(t) \/ CartEditStore(t) \/ Unrow(t) \/ Uncart(t)
    BY WhatWrites DEF Writing, db, TopupStore, Freeze, Insert, Debit, Credit, MarkSold,
       Unfreeze, Close, SellerAdd, EditStore, Drop, SaleStore, OnlyBalance, OnlyItems,
       OnlyOrders, Fails
  <1> QED
    BY <1>3, <1>4, <1>5, <1>6, <1>7

-----------------------------------------------------------------------------
(* Handlers in the middle of what they write *)

\* l is not between two writes that belong together.
Steady(l) ==
  /\ l.pc \notin {"insert", "credit", "unfreeze", "close"}
  /\ ~(l.pc = "reload" /\ l.does = "pay")

\* The steps into, inside and out of such a stretch.
Delicate(t) ==
  \/ Freeze(t) \/ Insert(t) \/ Debit(t) \/ Credit(t)
  \/ MarkSold(t) \/ Reload(t) \/ Unfreeze(t) \/ Close(t)

LEMMA SteadyIdle ==
  Steady(Idle)
  BY DEF Steady, Idle

\* Every other step leaves a steady thread steady, or everything ends.
LEMMA StaysSteady ==
  ASSUME Base, ThreadsFine, NEW t \in Threads, Step(t), ~Delicate(t)
  PROVE  /\ Steady(th[t])
         /\ \/ \E l : Steady(l) /\ th' = [th EXCEPT ![t] = l] /\ UNCHANGED up
            \/ Down
  <1> DEFINE k == th[t]
             Done == \/ \E l : Steady(l) /\ th' = [th EXCEPT ![t] = l] /\ UNCHANGED up
                     \/ Down
  <1>1. DOMAIN k = Fields
    BY ThreadFacts
  <1>2. ASSUME NEW r, Answers(t, r)
        PROVE  Done
    BY <1>2, SteadyIdle DEF Answers
  <1>3. ASSUME NEW l, Steady(l), Goes(t, l)
        PROVE  Done
    BY <1>3 DEF Goes
  <1>4. Down => Done
    OBVIOUS
  <1> HIDE DEF Done
  <1>5. ASSUME CustomerStart(t)
        PROVE  Done
    <2>1. ASSUME NEW u, NEW a, TopupLoad(t, u, a)
          PROVE  Done
      <3> DEFINE l == [Idle EXCEPT !.pc = "topup", !.does = "topup", !.user = u,
                                   !.n = a, !.cust = balance[u]]
      <3>1. Steady(l)
        BY DEF Steady, Idle
      <3> QED
        BY <2>1, <3>1, <1>3 DEF TopupLoad
    <2>2. ASSUME NEW u, NEW i, NEW q, AddLoad(t, u, i, q)
          PROVE  Done
      <3> DEFINE l == [Idle EXCEPT !.pc = "add", !.does = "cart", !.user = u, !.id = i,
                                   !.n = q, !.batch = RowsOf(u)]
      <3>1. Steady(l)
        BY DEF Steady, Idle
      <3> QED
        BY <2>2, <3>1, <1>3 DEF AddLoad
    <2>3. ASSUME NEW u, NEW r, NEW q, CartEditLoad(t, u, r, q)
          PROVE  Done
      <3> DEFINE l == [Idle EXCEPT !.pc = "cart_edit", !.does = "cart", !.user = u,
                                   !.id = r, !.n = q, !.batch = RowsOf(u)]
      <3>1. Steady(l)
        BY DEF Steady, Idle
      <3> QED
        BY <2>3, <3>1, <1>2, <1>3 DEF CartEditLoad
    <2>4. ASSUME NEW sought, ShowLoad(t, sought)
          PROVE  Done
      <3> DEFINE l == [Idle EXCEPT !.pc = "show", !.does = "show", !.todo = sought]
      <3>1. Steady(l)
        BY DEF Steady, Idle
      <3> QED
        BY <2>4, <3>1, <1>3 DEF ShowLoad
    <2>5. ASSUME NEW u, CheckoutLoad(t, u)
          PROVE  Done
      <3> DEFINE l == [Idle EXCEPT !.pc = "row", !.does = "checkout", !.user = u,
                                   !.batch = RowsOf(u)]
      <3>1. Steady(l)
        BY DEF Steady, Idle
      <3> QED
        BY <2>5, <3>1, <1>3 DEF CheckoutLoad
    <2> QED
      BY <1>5, <2>1, <2>2, <2>3, <2>4, <2>5 DEF CustomerStart, CartShow, OrdersShow
  <1>6. ASSUME SellerStart(t)
        PROVE  Done
    <2>1. ASSUME NEW s, NEW type, NEW d, SellerSaleLoad(t, s, type, d)
          PROVE  Done
      <3> DEFINE chosen == Keep(items, {i \in DOMAIN items :
                                   items[i].seller = s /\ items[i].type = type})
                 l == [Idle EXCEPT !.pc = "sale", !.does = "sale", !.n = d,
                                   !.batch = chosen]
      <3>1. Steady(l)
        BY DEF Steady, Idle
      <3> QED
        BY <2>1, <3>1, <1>3, <1>4 DEF SellerSaleLoad
    <2> QED
      BY <1>6, <2>1, <1>2, <1>4 DEF SellerStart, SellerAdd, ListItems
  <1>7. ASSUME AnyoneStart(t)
        PROVE  Done
    <2>1. ASSUME NEW o, PayLoad(t, o)
          PROVE  Done
      <3> DEFINE l == [Idle EXCEPT !.pc = "customer", !.does = "pay", !.id = o,
                                   !.order = Copy(orders, o)]
      <3>1. Steady(l)
        BY DEF Steady, Idle
      <3> QED
        BY <2>1, <3>1, <1>3, <1>4 DEF PayLoad
    <2>2. ASSUME NEW o, CancelLoad(t, o)
          PROVE  Done
      <3> DEFINE l == [Idle EXCEPT !.pc = "reload", !.does = "cancel", !.id = o,
                                   !.order = Copy(orders, o)]
      <3>1. Steady(l)
        BY DEF Steady, Idle
      <3> QED
        BY <2>2, <3>1, <1>2, <1>3 DEF CancelLoad
    <2>3. ASSUME NEW i, NEW price, NEW type, NEW stock,
                 SellerEditLoad(t, i, price, type, stock)
          PROVE  Done
      <3> DEFINE l == [Idle EXCEPT !.pc = "edit", !.does = "edit", !.id = i,
                                   !.n = price, !.type = type, !.item = CopyItem(i)]
      <3>1. Steady(l)
        BY DEF Steady, Idle
      <3> QED
        BY <2>3, <3>1, <1>2, <1>3, <1>4 DEF SellerEditLoad
    <2>4. ASSUME NEW i, SellerRemoveLoad(t, i)
          PROVE  Done
      <3> DEFINE l == [Idle EXCEPT !.pc = "uncart", !.does = "remove", !.id = i]
      <3>1. Steady(l)
        BY DEF Steady, Idle
      <3> QED
        BY <2>4, <3>1, <1>3, <1>4 DEF SellerRemoveLoad
    <2> QED
      BY <1>7, <2>1, <2>2, <2>3, <2>4, <1>2, <1>4
         DEF AnyoneStart, SellerEditInvalid, ListItems, WalletShow, InvalidInput
  <1>8. ASSUME Continue(t)
        PROVE  Done
    <2>1. ASSUME NEW l, Goes(t, l), l.pc \notin {"insert", "credit", "unfreeze", "close", "reload"}
          PROVE  Done
      BY <2>1, <1>3 DEF Steady
    <2> HIDE DEF k
    <2> USE DEF Fields, At
    <2>2. CASE \/ TopupStore(t) \/ AddStore(t) \/ CartEditStore(t) \/ ShowDone(t)
               \/ CheckoutDone(t) \/ EditStore(t) \/ Drop(t) \/ SaleDone(t)
      BY <1>2, <2>2 DEF TopupStore, AddStore, CartEditStore, ShowDone, CheckoutDone,
         EditStore, Drop, SaleDone
    <2>3. CASE ShowNext(t)
      BY <1>1, <1>4, <2>1, <2>3 DEF ShowNext, Fails, k
    <2>4. CASE CheckoutRow(t)
      BY <1>1, <1>4, <2>1, <2>4 DEF CheckoutRow, Fails, k
    <2>5. CASE Create(t)
      BY <1>1, <1>4, <2>1, <2>5 DEF Create, Fails, k
    <2>6. CASE Unrow(t)
      BY <1>1, <2>1, <2>6 DEF Unrow, k
    <2>7. CASE PayCustomer(t) \/ PaySeller(t) \/ PayItem(t)
      BY <1>1, <1>2, <2>1, <2>7 DEF PayCustomer, PaySeller, PayItem, k
    <2>8. CASE Uncart(t) \/ SaleStore(t)
      BY <1>1, <2>1, <2>8 DEF Uncart, SaleStore, k
    <2> QED
      BY <1>8, <2>2, <2>3, <2>4, <2>5, <2>6, <2>7, <2>8 DEF Continue, Delicate
  <1>9. Steady(k)
    BY DEF Step, Start, Starts, Continue, Delicate, Steady, At, TopupStore, AddStore,
       CartEditStore, ShowDone, CheckoutDone, EditStore, Drop, SaleDone, ShowNext,
       CheckoutRow, Create, Unrow, PayCustomer, PaySeller, PayItem, Uncart, SaleStore
  <1>10. Done
    BY <1>5, <1>6, <1>7, <1>8 DEF Step, Start
  <1> QED
    BY <1>9, <1>10 DEF Done

\* A step that changes a table shares no row with any other thread, or is a race.
LEMMA Alone ==
  ASSUME NEW t \in Threads, Step(t), ~raced', db' # db, NEW s \in Threads, s # t,
         NEW x, x \in Footprint(th[t])
  PROVE  x \notin Footprint(th[s])
  BY DEF Step, History

\* No step that ends the process cuts another request in two, or it is torn.
LEMMA NoneCut ==
  ASSUME NEW t \in Threads, Step(t), Down, ~torn', NEW s \in Threads, s # t
  PROVE  ~th[s].dirty
  BY DEF Step, History, Down

\* A step leaves the other threads where they are, or ends all.
LEMMA OthersStay ==
  ASSUME Base, ThreadsFine, NEW t \in Threads, Step(t), NEW s \in Threads, s # t
  PROVE  th'[s] = th[s] \/ Down
  <1>1. DOMAIN th = Threads
    BY ThreadFacts
  <1>2. CASE ~Delicate(t)
    BY <1>1, <1>2, StaysSteady
  <1>3. CASE Delicate(t)
    BY <1>1, <1>3 DEF Delicate, Freeze, Insert, Debit, Credit, MarkSold, Reload, Unfreeze,
       Close, Goes, Answers, Fails
  <1> QED
    BY <1>2, <1>3

-----------------------------------------------------------------------------
(* Wallets *)

\* l has taken a price from user u and not yet given it to the seller.
Takes(l, u) == l.pc = "credit" /\ Price(l) # 0 /\ Wanted(l).customer = u

\* A wallet holds what it should, or less the price that is under way.
WalletRight(u) ==
  /\ (\A t \in Threads : ~Takes(th[t], u)) => balance[u] = expected[u]
  /\ \A t \in Threads : Takes(th[t], u) =>
       /\ balance[u] = expected[u] - Price(th[t])
       /\ Wanted(th[t]).seller = u => th[t].sell = expected[u]
WalletsRight == \A u \in Users : WalletRight(u)

LEMMA WalletStays ==
  ASSUME NEW u \in Users, WalletRight(u), balance'[u] = balance[u], expected'[u] = expected[u],
         \A s \in Threads : Takes(th[s], u) <=> Takes(th'[s], u),
         \A s \in Threads : Takes(th[s], u) => th'[s] = th[s]
  PROVE  WalletRight(u)'
  BY DEF WalletRight, Takes, Wanted, Price

\* What a thread at a payment says of the accounts.
LEMMA Paying ==
  ASSUME Base, ThreadsFine, NEW t \in Threads, th[t].pc \in {"debit", "credit"}
  PROVE  /\ Wanted(th[t]).customer \in Users /\ Wanted(th[t]).seller \in Users
         /\ Price(th[t]) \in Int /\ th[t].sell \in Int
         /\ th[t].pc = "debit" => th[t].cust \in Int
         /\ <<"user", Wanted(th[t]).customer>> \in Footprint(th[t])
         /\ <<"user", Wanted(th[t]).seller>> \in Footprint(th[t])
  <1> DEFINE k == th[t]
  <1>1. Sound(Int, Order, k) /\ Serves(k) /\ k.pc \in {"debit", "credit"}
    BY ThreadFacts
  <1> HIDE DEF k
  <1>2. Wanted(k) \in Order /\ k.sell \in Int /\ (k.pc = "debit" => k.cust \in Int)
    BY <1>1, TheIn DEF Sound, CopiesSound, RequestSound, PaymentSound, PayCalls, Wanted
  <1>3. Wanted(k).customer \in Users /\ Wanted(k).seller \in Users /\ Wanted(k).price \in Int
    BY <1>2 DEF Order
  <1>4. Price(k) \in Int
    BY <1>3, MoneyAssumption DEF Price, Signed, Wanted
  <1>5. k.does = "pay"
    BY <1>1 DEF Serves, PayCalls
  <1> QED
    BY <1>2, <1>3, <1>4, <1>5, FootprintIs DEF k

LEMMA TakesAlone ==
  ASSUME Base, ThreadsFine, NEW t \in Threads, Step(t), ~raced', db' # db, NEW u,
         <<"user", u>> \in Footprint(th[t]), NEW s \in Threads, s # t
  PROVE  ~Takes(th[s], u)
  <1> SUFFICES ASSUME Takes(th[s], u) PROVE FALSE
    OBVIOUS
  <1>1. <<"user", u>> \in Footprint(th[s])
    BY Paying DEF Takes
  <1>2. <<"user", u>> \notin Footprint(th[s])
    BY Alone
  <1> QED
    BY <1>1, <1>2

LEMMA TopupRight ==
  ASSUME Base, ThreadsFine, WalletsRight, expected \in [Users -> Int],
         NEW t \in Threads, Step(t), TopupStore(t), ~raced'
  PROVE  WalletsRight'
  <1> DEFINE k == th[t]
  <1>1. /\ ~raced /\ DOMAIN th = Threads /\ Serves(k) /\ Accurate(k) /\ Sound(Int, Order, k)
        /\ balance \in [Users -> Int] /\ k.pc = "topup"
    BY ThreadFacts DEF Step, History, Base, TablesSound, TopupStore, At
  <1>2. /\ k.user \in Users /\ k.cust = balance[k.user] /\ k.n \in Int
        /\ <<"user", k.user>> \in Footprint(k)
    BY <1>1, FootprintIs, MoneyAssumption DEF Serves, Accurate, Sound, PaymentSound
  <1>3. /\ balance' = [balance EXCEPT ![k.user] = k.cust + k.n]
        /\ th' = [th EXCEPT ![t] = Idle]
    BY DEF TopupStore, Answers
  <1>4. expected' = [expected EXCEPT ![k.user] = @ + k.n]
    BY DEF Step, History, TopupStore, At
  <1>5. /\ \A u : ~Takes(Idle, u) /\ ~Takes(k, u)
        /\ \A s \in Threads : s # t => th'[s] = th[s]
        /\ th'[t] = Idle
    BY <1>1, <1>3 DEF Takes, Idle
  <1>6. ASSUME NEW u \in Users, u # k.user \/ k.n = 0
        PROVE  WalletRight(u)'
    <2>1. balance'[u] = balance[u] /\ expected'[u] = expected[u]
      BY <1>1, <1>2, <1>3, <1>4, <1>6
    <2> HIDE DEF k
    <2> QED
      BY <1>5, <2>1, WalletStays DEF WalletsRight, k
  <1>7. ASSUME NEW u \in Users, u = k.user, k.n # 0
        PROVE  WalletRight(u)'
    <2>1. balance'[u] = balance[u] + k.n /\ expected'[u] = expected[u] + k.n
      BY <1>1, <1>2, <1>3, <1>4, <1>7
    <2>2. db' # db
      BY <1>1, <1>2, <1>7, <2>1 DEF db
    <2>3. \A s \in Threads : s # t => ~Takes(th[s], u)
      BY <1>2, <1>7, <2>2, TakesAlone
    <2> HIDE DEF k
    <2>4. \A s \in Threads : ~Takes(th[s], u) /\ ~Takes(th'[s], u)
      BY <1>5, <2>3 DEF k
    <2>5. balance[u] = expected[u]
      BY <2>4 DEF WalletsRight, WalletRight
    <2> QED
      BY <2>1, <2>4, <2>5 DEF WalletRight, Takes, Wanted, Price
  <1> QED
    BY <1>6, <1>7 DEF WalletsRight

LEMMA DebitRight ==
  ASSUME Base, ThreadsFine, WalletsRight, expected \in [Users -> Int],
         NEW t \in Threads, Step(t), Debit(t), ~raced'
  PROVE  WalletsRight'
  <1> DEFINE k == th[t]
             c == Wanted(k).customer
             p == Price(k)
  <1>1. /\ ~raced /\ DOMAIN th = Threads /\ DOMAIN k = Fields /\ Accurate(k)
        /\ balance \in [Users -> Int] /\ k.pc = "debit"
    BY ThreadFacts DEF Step, History, Base, TablesSound, Debit, At
  <1>2. /\ c \in Users /\ p \in Int /\ k.cust \in Int /\ k.cust = balance[c]
        /\ k.sell = balance[Wanted(k).seller] /\ <<"user", c>> \in Footprint(k)
    BY <1>1, Paying DEF Accurate
  <1>3. balance' = [balance EXCEPT ![c] = k.cust - p]
    BY DEF Debit, Wanted
  <1>4. PICK l : th' = [th EXCEPT ![t] = l] /\ l = [k EXCEPT !.pc = "credit", !.dirty = TRUE]
    BY DEF Debit, Goes
  <1>5. l.pc = "credit" /\ l.order = k.order /\ l.sell = k.sell
    BY <1>1, <1>4 DEF Fields
  <1>6. Wanted(l) = Wanted(k) /\ Price(l) = p
    BY <1>5 DEF Wanted, Price
  <1>7. expected' = expected
    BY <1>1 DEF Step, History, At
  <1>8. /\ \A u : Takes(l, u) <=> p # 0 /\ u = c
        /\ \A u : ~Takes(k, u)
        /\ \A s \in Threads : s # t => th'[s] = th[s]
        /\ th'[t] = l
    BY <1>1, <1>4, <1>5, <1>6 DEF Takes
  <1>9. ASSUME NEW u \in Users, u # c \/ p = 0
        PROVE  WalletRight(u)'
    <2>1. balance'[u] = balance[u] /\ expected'[u] = expected[u]
      BY <1>1, <1>2, <1>3, <1>7, <1>9
    <2> HIDE DEF k, p, c
    <2> QED
      BY <1>8, <1>9, <2>1, WalletStays DEF WalletsRight, k
  <1>10. ASSUME NEW u \in Users, u = c, p # 0
         PROVE  WalletRight(u)'
    <2>1. balance'[u] = balance[u] - p
      BY <1>1, <1>2, <1>3, <1>10
    <2>2. db' # db
      BY <1>1, <1>2, <1>10, <2>1 DEF db
    <2>3. \A s \in Threads : s # t => ~Takes(th[s], u)
      BY <1>2, <1>10, <2>2, TakesAlone
    <2> HIDE DEF k, p, c
    <2>4. \A s \in Threads : /\ ~Takes(th[s], u)
                             /\ Takes(th'[s], u) => s = t
      BY <1>8, <2>3 DEF k
    <2>5. balance[u] = expected[u]
      BY <2>4 DEF WalletsRight, WalletRight
    <2>6. Takes(th'[t], u) /\ Price(th'[t]) = p
      BY <1>6, <1>8, <1>10
    <2>7. balance'[u] = expected'[u] - p
      BY <1>7, <2>1, <2>5
    <2>8. Wanted(th'[t]).seller = u => th'[t].sell = expected'[u]
      BY <1>2, <1>5, <1>6, <1>7, <1>8, <2>5
    <2> QED
      BY <2>4, <2>6, <2>7, <2>8 DEF WalletRight, Takes, Wanted, Price
  <1> QED
    BY <1>9, <1>10 DEF WalletsRight

LEMMA CreditRight ==
  ASSUME Base, ThreadsFine, WalletsRight, expected \in [Users -> Int],
         NEW t \in Threads, Step(t), Credit(t), ~raced'
  PROVE  WalletsRight'
  <1> DEFINE k == th[t]
             c == Wanted(k).customer
             e == Wanted(k).seller
             p == Price(k)
  <1>1. /\ ~raced /\ DOMAIN th = Threads /\ DOMAIN k = Fields /\ Accurate(k)
        /\ balance \in [Users -> Int] /\ k.pc = "credit"
    BY ThreadFacts DEF Step, History, Base, TablesSound, Credit, At
  <1>2. /\ c \in Users /\ e \in Users /\ p \in Int /\ k.sell \in Int
        /\ <<"user", c>> \in Footprint(k) /\ <<"user", e>> \in Footprint(k)
        /\ c # e \/ p = 0 => k.sell = balance[e]
    BY <1>1, Paying DEF Accurate
  <1>3. balance' = [balance EXCEPT ![e] = k.sell + p]
    BY DEF Credit, Wanted
  <1>4. PICK l : th' = [th EXCEPT ![t] = l] /\ l = [k EXCEPT !.pc = "sold"]
    BY DEF Credit, Goes
  <1>5. l.pc = "sold"
    BY <1>1, <1>4 DEF Fields
  <1>6. \A u \in Users : expected'[u] = expected[u] - (IF u = c /\ u # e THEN p ELSE 0)
                                                  + (IF u = e THEN p ELSE 0)
    BY <1>1 DEF Step, History, At, Paid, Wanted, Credit
  <1>7. /\ \A u : ~Takes(l, u)
        /\ \A u : Takes(k, u) <=> p # 0 /\ u = c
        /\ \A s \in Threads : s # t => th'[s] = th[s]
        /\ th'[t] = l
    BY <1>1, <1>4, <1>5 DEF Takes
  <1> HIDE DEF c, e, p
  <1>8. ASSUME NEW u \in Users, u \notin {c, e} \/ p = 0
        PROVE  WalletRight(u)'
    <2>1. balance'[u] = balance[u]
      BY <1>1, <1>2, <1>3, <1>8
    <2>2. expected'[u] = expected[u]
      BY <1>2, <1>6, <1>8
    <2> HIDE DEF k
    <2> QED
      BY <1>7, <1>8, <2>1, <2>2, WalletStays DEF WalletsRight, k
  <1>9. ASSUME NEW u \in Users, u \in {c, e}, p # 0
        PROVE  WalletRight(u)'
    <2> HIDE DEF k
    <2>1. /\ Takes(k, c) /\ balance[c] = expected[c] - p
          /\ e = c => k.sell = expected[c]
      BY <1>2, <1>7, <1>9 DEF WalletsRight, WalletRight, k, p, c, e
    <2>2. balance'[e] = k.sell + p /\ (c # e => balance'[c] = balance[c])
      BY <1>1, <1>2, <1>3
    <2>3. balance'[e] # balance[e]
      BY <1>1, <1>2, <1>9, <2>1, <2>2
    <2>4. db' # db
      BY <2>3 DEF db
    <2>5. \A s \in Threads : s # t => ~Takes(th[s], u)
      BY <1>2, <1>9, <2>4, TakesAlone DEF k
    <2>6. \A s \in Threads : ~Takes(th'[s], u)
      BY <1>7, <2>5
    <2>7. CASE u = e /\ c # e
      <3>1. \A s \in Threads : ~Takes(th[s], u)
        BY <1>7, <2>5, <2>7 DEF k
      <3>2. balance[u] = expected[u]
        BY <3>1 DEF WalletsRight, WalletRight
      <3>3. balance'[u] = expected'[u]
        BY <1>2, <1>6, <2>2, <2>7, <3>2
      <3> QED
        BY <2>6, <3>3 DEF WalletRight, Takes, Wanted, Price
    <2>8. CASE u = c
      <3>1. balance'[u] = expected'[u]
        BY <1>2, <1>6, <2>1, <2>2, <2>8
      <3> QED
        BY <2>6, <3>1 DEF WalletRight, Takes, Wanted, Price
    <2> QED
      BY <1>9, <2>7, <2>8
  <1> QED
    BY <1>8, <1>9 DEF WalletsRight

\* The wallets are right after every step that is no race and cuts no other
\* request in two.
LEMMA WalletsStep ==
  ASSUME Base, ThreadsFine, ~raced /\ ~torn => WalletsRight, expected \in [Users -> Int],
         [Next]_vars
  PROVE  expected' \in [Users -> Int] /\ (~raced' /\ ~torn' => WalletsRight')
  <1>1. ASSUME NEW t \in Threads, th[t].pc = "credit"
        PROVE  th[t].dirty
    BY <1>1, ThreadFacts DEF Serves
  <1>2. ASSUME WalletsRight, th' = [s \in Threads |-> Idle], UNCHANGED <<balance, expected>>,
               \A t \in Threads : th[t].pc # "credit"
        PROVE  WalletsRight'
    BY <1>2 DEF WalletsRight, WalletRight, Takes, Idle
  <1>3. CASE Kill
    BY <1>1, <1>2, <1>3 DEF Kill, Down, db
  <1>4. CASE Restart \/ UNCHANGED vars
    BY <1>4 DEF Restart, vars, db, WalletsRight, WalletRight, Takes, Wanted, Price
  <1>5. ASSUME NEW t \in Threads, Step(t)
        PROVE  expected' \in [Users -> Int]
    <2>1. CASE th[t].pc = "topup"
      BY <1>5, <2>1, ThreadFacts, MoneyAssumption
         DEF Step, History, At, Serves, Sound, PaymentSound
    <2>2. CASE th[t].pc = "credit"
      <3>1. Price(th[t]) \in Int
        BY <1>5, <2>2, Paying
      <3> QED
        BY <1>5, <2>2, <3>1 DEF Step, History, At, Paid
    <2>3. CASE th[t].pc \notin {"topup", "credit"}
      BY <1>5, <2>3 DEF Step, History, At
    <2> QED
      BY <2>1, <2>2, <2>3
  <1>6. ASSUME NEW t \in Threads, Step(t), ~raced', ~torn'
        PROVE  WalletsRight'
    <2>1. WalletsRight
      BY <1>6 DEF Step, History
    <2>2. CASE TopupStore(t) \/ Debit(t) \/ Credit(t)
      BY <1>6, <2>1, <2>2, TopupRight, DebitRight, CreditRight
    <2>3. CASE ~(TopupStore(t) \/ Debit(t) \/ Credit(t))
      <3>1. th[t].pc \notin {"topup", "credit"}
        BY <1>6, <2>3 DEF Step, Start, Starts, Continue, At, AddStore, CartEditStore,
           ShowNext, ShowDone, CheckoutRow, Create, Freeze, Insert, Unrow, CheckoutDone,
           PayCustomer, PaySeller, PayItem, MarkSold, Reload, Unfreeze, Close, EditStore,
           Uncart, Drop, SaleStore, SaleDone
      <3>2. expected' = expected
        BY <1>6, <3>1 DEF Step, History, At
      <3>3. balance' = balance
        BY <1>6, <2>3, WhatWrites DEF Writing, db, AddStore, CartEditStore, Freeze, Insert,
           Unrow, MarkSold, Unfreeze, Close, SellerAdd, EditStore, Uncart, Drop, SaleStore,
           OnlyItems, OnlyCarts, OnlyOrders, Fails
      <3>4. CASE Down
        BY <1>1, <1>2, <1>6, <2>1, <3>1, <3>2, <3>3, <3>4, NoneCut DEF Down
      <3>5. CASE ~Down
        <4>1. \A s \in Threads : s # t => th'[s] = th[s]
          BY <1>6, <3>5, OthersStay
        <4>2. \A u : ~Takes(th[t], u)
          BY <3>1 DEF Takes
        <4>3. \A u : ~Takes(th'[t], u)
          <5>0. DOMAIN th = Threads /\ DOMAIN th[t] = Fields
            BY ThreadFacts
          <5>1. CASE ~Delicate(t)
            BY <1>6, <3>5, <5>0, <5>1, StaysSteady DEF Steady, Takes
          <5>2. CASE Delicate(t)
            <6> USE DEF Goes, Answers, Fails, Fields, Takes, Idle
            <6>1. CASE Freeze(t) \/ Insert(t)
              BY <5>0, <6>1 DEF Freeze, Insert
            <6>2. CASE MarkSold(t)
              BY <3>5, <5>0, <6>2 DEF MarkSold
            <6>3. CASE Reload(t) \/ Unfreeze(t)
              BY <3>5, <5>0, <6>3 DEF Reload, Unfreeze
            <6>4. CASE Close(t)
              BY <5>0, <6>4 DEF Close
            <6> QED
              BY <2>3, <5>2, <6>1, <6>2, <6>3, <6>4 DEF Delicate
          <5> QED
            BY <5>1, <5>2
        <4> QED
          BY <2>1, <3>2, <3>3, <4>1, <4>2, <4>3, WalletStays DEF WalletsRight
      <3> QED
        BY <3>4, <3>5
    <2> QED
      BY <2>2, <2>3
  <1>7. CASE Kill \/ Restart \/ UNCHANGED vars
    BY <1>3, <1>4, <1>7 DEF Kill, Restart, vars
  <1> QED
    BY <1>5, <1>6, <1>7 DEF Next

-----------------------------------------------------------------------------
(* Stock *)

\* l has changed the numbers of item i and has not yet done what belongs to it.
Changing(l, i) ==
  /\ \/ l.pc \in {"insert", "close"}
     \/ l.does = "pay" /\ l.pc \in {"reload", "unfreeze"}
  /\ Wanted(l).quantity # 0 /\ Wanted(l).item = i

\* Item i as it is between requests, and as l has left it.
Whole(i) ==
  /\ items[i].stock \in {0, 1}
  /\ items[i].frozen <= items[i].stock
  /\ items[i].frozen = 1 <=> \E o \in DOMAIN orders : HoldsUnit(o, i)
Partial(l, i) ==
  /\ i \in DOMAIN items
  /\ items[i].stock = IF l.does = "pay" THEN 0 ELSE 1
  /\ items[i].frozen = IF l.pc = "close" THEN 0 ELSE 1
  /\ l.pc = "insert" => /\ Wanted(l).quantity = 1
                        /\ \A o \in DOMAIN orders : ~HoldsUnit(o, i)

OneUnit(i) ==
  /\ \A o \in DOMAIN orders : HoldsUnit(o, i) => orders[o].quantity = 1
  /\ \A o, p \in DOMAIN orders : HoldsUnit(o, i) /\ HoldsUnit(p, i) => o = p

StockRight(i) ==
  /\ OneUnit(i)
  /\ i \in DOMAIN items /\ (\A t \in Threads : ~Changing(th[t], i)) => Whole(i)
  /\ \A t \in Threads : Changing(th[t], i) => Partial(th[t], i)
StocksRight == \A i \in ItemIds : StockRight(i)

\* The numbers of item i and the orders that hold it stay.
NumbersStay(i) ==
  /\ i \in DOMAIN items <=> i \in DOMAIN items'
  /\ i \in DOMAIN items => /\ items'[i].stock = items[i].stock
                          /\ items'[i].frozen = items[i].frozen
HoldersStay(i) ==
  \A o :
    /\ (o \in DOMAIN orders /\ HoldsUnit(o, i))
         => (o \in DOMAIN orders' /\ orders'[o] = orders[o])
    /\ (o \in DOMAIN orders' /\ orders'[o].item = i /\ orders'[o].quantity # 0)
         => (o \in DOMAIN orders /\ orders'[o] = orders[o])

LEMMA HoldersSame ==
  ASSUME NEW i, HoldersStay(i)
  PROVE  /\ \A o : (o \in DOMAIN orders' /\ HoldsUnit(o, i)') <=>
                  (o \in DOMAIN orders /\ HoldsUnit(o, i))
         /\ OneUnit(i) => OneUnit(i)'
  <1>1. ASSUME NEW o, o \in DOMAIN orders, HoldsUnit(o, i)
        PROVE  o \in DOMAIN orders' /\ orders'[o] = orders[o] /\ HoldsUnit(o, i)'
    BY <1>1 DEF HoldersStay, HoldsUnit
  <1>2. ASSUME NEW o, o \in DOMAIN orders', HoldsUnit(o, i)'
        PROVE  o \in DOMAIN orders /\ orders'[o] = orders[o] /\ HoldsUnit(o, i)
    BY <1>2 DEF HoldersStay, HoldsUnit
  <1>3. OneUnit(i) => OneUnit(i)'
    BY <1>2 DEF OneUnit
  <1> QED
    BY <1>1, <1>2, <1>3

LEMMA StockStays ==
  ASSUME NEW i, StockRight(i), NumbersStay(i), HoldersStay(i),
         \A s \in Threads : Changing(th[s], i) <=> Changing(th'[s], i),
         \A s \in Threads : Changing(th[s], i) =>
           \/ th'[s] = th[s]
           \/ /\ th'[s].does = th[s].does
              /\ th[s].pc \notin {"insert", "close"} /\ th'[s].pc \notin {"insert", "close"}
  PROVE  StockRight(i)'
  <1>1. /\ OneUnit(i)'
        /\ (\E o \in DOMAIN orders' : HoldsUnit(o, i)') <=>
              (\E o \in DOMAIN orders : HoldsUnit(o, i))
    BY HoldersSame DEF StockRight
  <1>2. ASSUME i \in DOMAIN items', \A s \in Threads : ~Changing(th'[s], i)
        PROVE  Whole(i)'
    BY <1>1, <1>2 DEF StockRight, Whole, NumbersStay
  <1>3. ASSUME NEW s \in Threads, Changing(th'[s], i)
        PROVE  Partial(th[s], i)'
    <2>1. Partial(th[s], i)
      BY <1>3 DEF StockRight
    <2> QED
      BY <1>1, <1>3, <2>1 DEF Partial, NumbersStay, Wanted
  <1>4. \A s \in Threads : Changing(th[s], i)' <=> Changing(th'[s], i)
    BY DEF Changing, Wanted
  <1> QED
    BY <1>1, <1>2, <1>3, <1>4 DEF StockRight

\* A thread that works on an order has its item in its footprint.
LEMMA Handling ==
  ASSUME Base, ThreadsFine, NEW t \in Threads,
         th[t].pc \in {"freeze", "insert", "sold", "reload", "unfreeze", "close"}
  PROVE  /\ Wanted(th[t]).item \in ItemIds /\ Wanted(th[t]).quantity \in Size
         /\ <<"item", Wanted(th[t]).item>> \in Footprint(th[t])
  <1> DEFINE k == th[t]
  <1>1. /\ Sound(Int, Order, k) /\ Placed(k) /\ Serves(k)
        /\ k.pc \in {"freeze", "insert", "sold", "reload", "unfreeze", "close"}
    BY ThreadFacts
  <1> HIDE DEF k
  <1>2. Wanted(k) \in Order
    BY <1>1, TheIn DEF Sound, CopiesSound, RequestSound, PayCalls, Wanted
  <1>3. Wanted(k).item \in ItemIds /\ Wanted(k).quantity \in Size
    BY <1>2 DEF Order, ItemIds
  <1>4. <<"item", Wanted(k).item>> \in Footprint(k)
    <2>1. CASE k.pc \in {"freeze", "insert"}
      <3>1. k.does = "checkout" /\ k.id \in DOMAIN k.batch
            /\ Wanted(k).item = k.batch[k.id].item
        BY <1>1, <2>1 DEF Placed, Serves, CheckoutCalls
      <3> QED
        BY <3>1, FootprintIs
    <2>2. CASE k.pc \notin {"freeze", "insert"}
      BY <1>1, <2>2, FootprintIs DEF Serves, PayCalls
    <2> QED
      BY <2>1, <2>2
  <1> QED
    BY <1>3, <1>4 DEF k

LEMMA ChangingAlone ==
  ASSUME Base, ThreadsFine, NEW t \in Threads, Step(t), ~raced', db' # db, NEW i,
         <<"item", i>> \in Footprint(th[t]), NEW s \in Threads, s # t
  PROVE  ~Changing(th[s], i)
  <1> SUFFICES ASSUME Changing(th[s], i) PROVE FALSE
    OBVIOUS
  <1>1. <<"item", i>> \in Footprint(th[s])
    BY Handling DEF Changing
  <1>2. <<"item", i>> \notin Footprint(th[s])
    BY Alone
  <1> QED
    BY <1>1, <1>2

\* Taking from a size_t or adding to it changes it, unless it is nothing.
LEMMA SizeMoves ==
  ASSUME NEW a \in Size, NEW q \in Size
  PROVE  /\ SizeAdd(a, q) = a <=> q = 0
         /\ SizeSub(a, q) = a <=> q = 0
  BY SizeAssumption DEF Size, SizeAdd, SizeSub

\* A step of t to l that leaves item i alone, and one that no other thread that
\* works on i can have seen.
LEMMA StockUntouched ==
  ASSUME DOMAIN th = Threads, NEW t \in Threads, NEW l, th' = [th EXCEPT ![t] = l], NEW i,
         StockRight(i), NumbersStay(i), HoldersStay(i), ~Changing(th[t], i), ~Changing(l, i)
  PROVE  StockRight(i)'
  <1>1. \A s \in Threads : Changing(th[s], i) <=> Changing(th'[s], i)
    OBVIOUS
  <1>2. \A s \in Threads : Changing(th[s], i) => th'[s] = th[s]
    OBVIOUS
  <1> QED
    BY <1>1, <1>2, StockStays

LEMMA StockAlone ==
  ASSUME DOMAIN th = Threads, NEW t \in Threads, NEW l, th' = [th EXCEPT ![t] = l], NEW i,
         \A s \in Threads : s # t => ~Changing(th[s], i),
         OneUnit(i)', Changing(l, i) => Partial(l, i)',
         ~Changing(l, i) /\ i \in DOMAIN items' => Whole(i)'
  PROVE  StockRight(i)'
  <1>1. th'[t] = l /\ \A s \in Threads : s # t => th'[s] = th[s]
    OBVIOUS
  <1>2. \A s \in Threads : Changing(th[s], i)' <=> Changing(th'[s], i)
    BY DEF Changing, Wanted
  <1>3. \A s \in Threads : Changing(th'[s], i) => s = t
    BY <1>1
  <1>4. Partial(th[t], i)' <=> Partial(l, i)'
    BY <1>1 DEF Partial, Wanted
  <1>5. \A s \in Threads : Changing(th[s], i)' => Partial(th[s], i)'
    BY <1>1, <1>2, <1>3, <1>4
  <1> QED
    BY <1>1, <1>2, <1>5 DEF StockRight

\* The end of the process finds every item whole, or it is torn.
LEMMA DownStock ==
  ASSUME Base, ThreadsFine, StocksRight, NEW t \in Threads, Step(t), Down, ~raced', ~torn'
  PROVE  StocksRight'
  <1>1. ~raced
    BY DEF Step, History
  <1>2. UNCHANGED db /\ th[t].pc \notin {"insert", "unfreeze", "close"}
        /\ (th[t].pc = "reload" => CopyItem(Wanted(th[t]).item) = {})
    <2>1. CASE Start(t)
      BY <2>1, WhatWrites DEF Start, Starts, At, Writing, TopupStore, AddStore, CartEditStore,
         Freeze, Insert, Unrow, Debit, Credit, MarkSold, Unfreeze, Close, SellerAdd,
         EditStore, Uncart, Drop, SaleStore, Down, Answers
    <2>2. CASE Continue(t)
      BY <2>2 DEF Continue, Down, Goes, Answers, At, Fails, TopupStore, AddStore,
         CartEditStore, ShowNext, ShowDone, CheckoutRow, Create, Freeze, Insert, Unrow,
         CheckoutDone, PayCustomer, PaySeller, PayItem, Debit, Credit, MarkSold, Reload,
         Unfreeze, Close, EditStore, Uncart, Drop, SaleStore, SaleDone, Wanted
    <2> QED
      BY <2>1, <2>2 DEF Step
  <1>3. ASSUME NEW s \in Threads, NEW i, Changing(th[s], i)
        PROVE  FALSE
    <2>1. Serves(th[s]) /\ Accurate(th[s])
      BY <1>1, ThreadFacts
    <2>2. th[s].dirty
      BY <1>3, <2>1 DEF Changing, Serves
    <2>3. s = t
      BY <2>2, NoneCut
    <2> QED
      BY <1>2, <1>3, <2>1, <2>3 DEF Changing, Accurate
  <1>4. \A s \in Threads : th'[s] = Idle
    BY DEF Down
  <1>5. \A i : ~Changing(Idle, i)
    BY DEF Changing, Idle
  <1>6. \A i : (OneUnit(i) => OneUnit(i)') /\ (Whole(i) => Whole(i)')
    BY <1>2 DEF OneUnit, Whole, HoldsUnit, db
  <1>7. \A s \in Threads : \A i : Changing(th[s], i)' <=> Changing(th'[s], i)
    BY DEF Changing, Wanted
  <1> QED
    BY <1>2, <1>3, <1>4, <1>5, <1>6, <1>7 DEF StocksRight, StockRight, db

\* Sellers change no numbers of an item that is there.
LEMMA SellersStock ==
  ASSUME Base, ThreadsFine, OrdersPlaced, StocksRight, NEW t \in Threads, Step(t),
         ~Delicate(t), ~Down, ~raced'
  PROVE  StocksRight'
  <1> DEFINE k == th[t]
  <1>1. /\ ~raced /\ DOMAIN th = Threads /\ Serves(k) /\ Accurate(k) /\ Sound(Int, Order, k)
        /\ DOMAIN items \subseteq 1 .. lastItem /\ lastItem \in Nat
        /\ items \in [DOMAIN items -> Ware]
    BY ThreadFacts DEF Step, History, Base, TablesSound, Ids
  <1>2. PICK l : Steady(l) /\ th' = [th EXCEPT ![t] = l]
    BY StaysSteady
  <1>3. \A i : ~Changing(l, i) /\ ~Changing(k, i)
    BY <1>2, StaysSteady DEF Steady, Changing
  <1>4. \A i : UNCHANGED orders => HoldersStay(i)
    BY DEF HoldersStay, HoldsUnit
  <1>5. ASSUME NEW i \in ItemIds, UNCHANGED orders, NumbersStay(i)
        PROVE  StockRight(i)'
    BY <1>1, <1>2, <1>3, <1>4, <1>5, StockUntouched DEF StocksRight
  <1>6. CASE UNCHANGED <<items, orders>>
    <2>1. \A i : NumbersStay(i)
      BY <1>6 DEF NumbersStay
    <2> QED
      BY <1>5, <1>6, <2>1 DEF StocksRight
  <1>7. ASSUME NEW s \in Sellers, NEW price \in Prices, NEW type \in Types,
               SellerAdd(t, s, price, type)
        PROVE  StocksRight'
    <2>0. PICK n : n = lastItem + 1
      OBVIOUS
    <2>1. items' = Put(items, n, NewItem(s, price, type)) /\ UNCHANGED orders
      BY <1>7, <2>0 DEF SellerAdd
    <2>2. \A i : i # n => NumbersStay(i)
      BY <2>1 DEF NumbersStay, Put
    <2>3. ASSUME n \in ItemIds
          PROVE  StockRight(n)'
      <3>1. n \notin DOMAIN items /\ StockRight(n)
        BY <1>1, <2>0, <2>3 DEF StocksRight
      <3>2. \A z \in Threads : ~Changing(th[z], n)
        BY <3>1 DEF StockRight, Partial
      <3>3. items'[n].stock = 1 /\ items'[n].frozen = 0
        BY <2>1 DEF Put, NewItem
      <3>4. \A o \in DOMAIN orders' : ~HoldsUnit(o, n)'
        BY <1>1, <2>0, <2>1 DEF OrdersPlaced, HoldsUnit
      <3>5. Whole(n)'
        BY <3>3, <3>4 DEF Whole
      <3>6. OneUnit(n)'
        BY <3>4 DEF OneUnit
      <3> QED
        BY <1>1, <1>2, <1>3, <3>2, <3>5, <3>6, StockAlone
    <2> QED
      BY <1>5, <2>1, <2>2, <2>3 DEF StocksRight
  <1>8. CASE EditStore(t)
    <2>1. k.pc = "edit" /\ k.item # {} /\ k.item \subseteq Ware
          /\ \A it \in k.item : k.id \in DOMAIN items /\ it = items[k.id]
      BY <1>1, <1>8 DEF EditStore, At, Sound, RequestSound, CopiesSound, Accurate
    <2> DEFINE it == The(k.item)
               row == [it EXCEPT !.price = k.n, !.type = k.type]
    <2>2. it \in Ware /\ k.id \in DOMAIN items /\ it = items[k.id]
      BY <2>1, TheIn
    <2>3. row.stock = it.stock /\ row.frozen = it.frozen
      BY <2>2 DEF Ware
    <2>4. items' = Write(items, k.id, row) /\ UNCHANGED orders
      BY <1>8 DEF EditStore, OnlyItems
    <2> HIDE DEF row, it, k
    <2>5. \A i : NumbersStay(i)
      BY <2>2, <2>3, <2>4 DEF NumbersStay, Write
    <2> QED
      BY <1>5, <2>4, <2>5 DEF StocksRight
  <1>9. CASE SaleStore(t)
    <2> DEFINE j == FirstOf(k.batch)
               row == [k.batch[j] EXCEPT !.discount = k.n]
    <2>1. /\ k.pc = "sale" /\ k.batch # Empty /\ k.batch \in [DOMAIN k.batch -> Ware]
          /\ k.batch = [x \in DOMAIN k.batch |-> k.batch[x]] /\ DOMAIN k.batch \subseteq Nat
          /\ \A i \in DOMAIN k.batch : i \in DOMAIN items /\ k.batch[i] = items[i]
      BY <1>1, <1>9 DEF SaleStore, At, Sound, RequestSound, CopiesSound, Accurate
    <2>2. j \in DOMAIN k.batch
      BY <2>1, FirstLeft
    <2>3. items' = Write(items, j, row) /\ UNCHANGED orders
      BY <1>9 DEF SaleStore, OnlyItems
    <2>4. k.batch[j] \in Ware /\ j \in DOMAIN items /\ k.batch[j] = items[j]
      BY <2>1, <2>2
    <2>5. row.stock = items[j].stock /\ row.frozen = items[j].frozen
      BY <2>4 DEF Ware
    <2> HIDE DEF row, j, k
    <2>6. \A i : NumbersStay(i)
      BY <2>3, <2>4, <2>5 DEF NumbersStay, Write
    <2> QED
      BY <1>5, <2>3, <2>6 DEF StocksRight
  <1>10. CASE Drop(t)
    <2>1. /\ k.pc = "drop" /\ items' = Without(items, k.id) /\ UNCHANGED orders
          /\ <<"item", k.id>> \in Footprint(k)
      BY <1>1, <1>10, FootprintIs DEF Drop, At, OnlyItems, Serves
    <2>2. \A i : i # k.id \/ k.id \notin DOMAIN items => NumbersStay(i)
      BY <2>1 DEF NumbersStay, Without, Keep
    <2>3. ASSUME NEW d \in ItemIds, d = k.id, d \in DOMAIN items
          PROVE  StockRight(d)'
      <3>1. d \notin DOMAIN items'
        BY <2>1, <2>3 DEF Without, Keep
      <3>2. db' # db
        BY <2>3, <3>1 DEF db
      <3>3. \A s \in Threads : s # t => ~Changing(th[s], d)
        BY <2>1, <2>3, <3>2, ChangingAlone
      <3>4. OneUnit(d)'
        BY <1>4, <2>1, <2>3, HoldersSame DEF StocksRight, StockRight
      <3> QED
        BY <1>1, <1>2, <1>3, <3>1, <3>3, <3>4, StockAlone
    <2>4. ASSUME NEW i \in ItemIds
          PROVE  StockRight(i)'
      BY <1>5, <2>1, <2>2, <2>3
    <2> QED
      BY <2>4 DEF StocksRight
  <1>11. \/ UNCHANGED <<items, orders>>
         \/ \E s \in Sellers, price \in Prices, type \in Types : SellerAdd(t, s, price, type)
         \/ EditStore(t) \/ SaleStore(t) \/ Drop(t)
    BY WhatWrites DEF Writing, Delicate, db, TopupStore, AddStore, CartEditStore, Unrow,
       Uncart, OnlyBalance, OnlyCarts
  <1> QED
    BY <1>6, <1>7, <1>8, <1>9, <1>10, <1>11

\* Before a step that changes a row of its own, the item of the row is whole
\* unless the thread itself has started to change it.
LEMMA SeenWhole ==
  ASSUME Base, ThreadsFine, StocksRight, NEW t \in Threads, Step(t), ~raced', db' # db,
         NEW i \in ItemIds, <<"item", i>> \in Footprint(th[t]), ~Changing(th[t], i),
         i \in DOMAIN items
  PROVE  Whole(i)
  <1>1. \A s \in Threads : ~Changing(th[s], i)
    BY ChangingAlone
  <1> QED
    BY <1>1 DEF StocksRight, StockRight

\* Froze, unfroze and sold, and the numbers of the row.
LEMMA Numbers ==
  ASSUME NEW it \in Ware, NEW q \in Size
  PROVE  /\ Froze(it, q).stock = it.stock /\ Froze(it, q).frozen = SizeAdd(it.frozen, q)
         /\ Unfroze(it, q).stock = it.stock /\ Unfroze(it, q).frozen = SizeSub(it.frozen, q)
         /\ Sold(it, q).stock = SizeSub(it.stock, q) /\ Sold(it, q).frozen = it.frozen
         /\ it.stock \in Size /\ it.frozen \in Size
  BY DEF Ware, Froze, Unfroze, Sold

\* A step of t to l that writes the row of the item of the order it works on.
LEMMA ItemStep ==
  ASSUME Base, ThreadsFine, StocksRight, NEW t \in Threads, Step(t), ~raced',
         NEW l, th' = [th EXCEPT ![t] = l], NEW w, Wanted(th[t]) = w, Wanted(l) = w,
         NEW row, items' = Write(items, w.item, row), UNCHANGED orders,
         w.item \in ItemIds, w.item \in DOMAIN items,
         <<"item", w.item>> \in Footprint(th[t]),
         w.quantity = 0 =>
           row.stock = items[w.item].stock /\ row.frozen = items[w.item].frozen,
         w.quantity # 0 =>
           /\ row # items[w.item]
           /\ Changing(l, w.item) => Partial(l, w.item)'
           /\ ~Changing(l, w.item) => Whole(w.item)'
  PROVE  StocksRight'
  <1> DEFINE k == th[t]
  <1>1. DOMAIN th = Threads
    BY ThreadFacts
  <1>2. \A i : HoldersStay(i)
    BY DEF HoldersStay, HoldsUnit
  <1>3. \A i : i # w.item \/ w.quantity = 0 =>
          NumbersStay(i) /\ ~Changing(k, i) /\ ~Changing(l, i)
    BY DEF NumbersStay, Write, Changing
  <1>4. ASSUME NEW i \in ItemIds, i # w.item \/ w.quantity = 0
        PROVE  StockRight(i)'
    BY <1>1, <1>2, <1>3, <1>4, StockUntouched DEF StocksRight
  <1>5. ASSUME w.quantity # 0
        PROVE  StockRight(w.item)'
    <2>1. items'[w.item] = row
      BY DEF Write
    <2>2. db' # db
      BY <1>5, <2>1 DEF db
    <2>3. \A s \in Threads : s # t => ~Changing(th[s], w.item)
      BY <2>2, ChangingAlone
    <2>4. OneUnit(w.item)'
      BY <1>2, HoldersSame DEF StocksRight, StockRight
    <2> QED
      BY <1>1, <1>5, <2>3, <2>4, StockAlone
  <1> QED
    BY <1>4, <1>5 DEF StocksRight

LEMMA FreezeStock ==
  ASSUME Base, ThreadsFine, StocksRight, NEW t \in Threads, Step(t), Freeze(t), ~raced'
  PROVE  StocksRight'
  <1> DEFINE k == th[t]
             l == [k EXCEPT !.pc = "insert", !.item = {}, !.dirty = TRUE]
  <1>1. /\ ~raced /\ DOMAIN k = Fields /\ Serves(k) /\ Accurate(k) /\ Sound(Int, Order, k)
        /\ k.pc = "freeze" /\ items \in [DOMAIN items -> Ware] /\ DOMAIN th = Threads
    BY ThreadFacts DEF Step, History, Freeze, At, Base, TablesSound
  <1>2. PICK w : w = Wanted(k)
    OBVIOUS
  <1>3. w.item \in ItemIds /\ w.quantity \in Size /\ <<"item", w.item>> \in Footprint(k)
    BY <1>1, <1>2, Handling
  <1>4. w.item \in DOMAIN items /\ The(k.item) = items[w.item] /\ items[w.item] \in Ware
    BY <1>1, <1>2, TheIn DEF Sound, RequestSound, Accurate
  <1>5. /\ l.pc = "insert" /\ l.does = k.does /\ l.order = k.order
        /\ th' = [th EXCEPT ![t] = l]
    BY <1>1 DEF Fields, Freeze, Goes
  <1>6. PICK row : row = Froze(items[w.item], w.quantity)
    OBVIOUS
  <1>7. items' = Write(items, w.item, row) /\ UNCHANGED orders
    BY <1>2, <1>4, <1>6 DEF Freeze, OnlyItems, Wanted
  <1>8. /\ row.stock = items[w.item].stock
        /\ row.frozen = SizeAdd(items[w.item].frozen, w.quantity)
        /\ items[w.item].stock \in Size /\ items[w.item].frozen \in Size
    BY <1>3, <1>4, <1>6, Numbers
  <1>9. row.frozen = items[w.item].frozen <=> w.quantity = 0
    BY <1>3, <1>8, SizeMoves
  <1>10. PICK z : z = l
    OBVIOUS
  <1>11. /\ z.pc = "insert" /\ z.does = k.does /\ z.order = k.order
         /\ th' = [th EXCEPT ![t] = z] /\ Wanted(z) = w
    BY <1>2, <1>5, <1>10 DEF Wanted
  <1> HIDE DEF k, l
  <1>12. ASSUME w.quantity # 0
         PROVE  Changing(z, w.item) /\ Partial(z, w.item)'
    <2>1. items'[w.item] = row /\ w.item \in DOMAIN items'
      BY <1>4, <1>7 DEF Write
    <2>2. db' # db
      BY <1>9, <1>12, <2>1 DEF db
    <2>3. ~Changing(k, w.item)
      BY <1>1 DEF Changing
    <2>4. Whole(w.item)
      BY <1>3, <1>4, <2>2, <2>3, SeenWhole DEF k
    <2>5. SizeSub(items[w.item].stock, items[w.item].frozen) >= w.quantity
      BY <1>1, <1>2, <1>4 DEF Serves, Available
    <2>6. /\ items[w.item].stock = 1 /\ items[w.item].frozen = 0 /\ w.quantity = 1
          /\ \A o \in DOMAIN orders : ~HoldsUnit(o, w.item)
      BY <1>3, <1>8, <1>12, <2>4, <2>5, SizeAssumption DEF Whole, SizeSub, Size
    <2>7. row.stock = 1 /\ row.frozen = 1
      BY <1>8, <2>6, SizeAssumption DEF SizeAdd
    <2>8. k.does # "pay"
      BY <1>1 DEF Serves, PayCalls
    <2>9. \A o \in DOMAIN orders' : ~HoldsUnit(o, w.item)'
      BY <1>7, <2>6 DEF HoldsUnit
    <2>10. Changing(z, w.item)
      BY <1>11, <1>12 DEF Changing
    <2>11. Partial(z, w.item)'
      BY <1>11, <2>1, <2>6, <2>7, <2>8, <2>9 DEF Partial, Wanted
    <2> QED
      BY <2>10, <2>11
  <1> QED
    BY <1>2, <1>3, <1>4, <1>7, <1>8, <1>9, <1>11, <1>12, ItemStep DEF k

\* What a thread at the end of a payment or a cancel knows, if nothing was raced.
LEMMA Ending ==
  ASSUME Base, ThreadsFine, ~raced, NEW t \in Threads,
         th[t].pc \in {"sold", "reload", "unfreeze", "close"}, NEW w, w = Wanted(th[t])
  PROVE  /\ w.item \in ItemIds /\ w.quantity \in Size
         /\ <<"item", w.item>> \in Footprint(th[t])
         /\ th[t].id \in DOMAIN orders /\ w = orders[th[t].id]
         /\ th[t].does \in {"pay", "cancel"}
         /\ th[t].pc = "sold" => th[t].does = "pay"
         /\ th[t].pc \in {"sold", "unfreeze"} /\ th[t].item # {} =>
              /\ w.item \in DOMAIN items /\ The(th[t].item) = items[w.item]
              /\ items[w.item] \in Ware
  <1> DEFINE k == th[t]
  <1>1. /\ DOMAIN k = Fields /\ Serves(k) /\ Accurate(k) /\ k.pc \in PayCalls
        /\ items \in [DOMAIN items -> Ware]
    BY ThreadFacts DEF Base, TablesSound, PayCalls
  <1>2. k.id \in DOMAIN orders /\ k.order = {orders[k.id]}
    BY <1>1 DEF Accurate
  <1>3. w = orders[k.id]
    BY <1>2, TheOne DEF Wanted
  <1>4. k.pc \in {"sold", "unfreeze"} /\ k.item # {} =>
           w.item \in DOMAIN items /\ The(k.item) = items[w.item] /\ items[w.item] \in Ware
    BY <1>1, TheIn DEF Accurate
  <1>5. k.does \in {"pay", "cancel"} /\ (k.pc = "sold" => k.does = "pay")
    BY <1>1 DEF Serves, PayCalls
  <1> QED
    BY <1>2, <1>3, <1>4, <1>5, Handling

LEMMA SoldStock ==
  ASSUME Base, ThreadsFine, StocksRight, NEW t \in Threads, Step(t), MarkSold(t), ~Down,
         ~raced'
  PROVE  StocksRight'
  <1> DEFINE k == th[t]
             l == [k EXCEPT !.pc = "reload", !.item = {}]
  <1>1. /\ ~raced /\ DOMAIN k = Fields /\ k.pc = "sold" /\ k.item # {}
    BY ThreadFacts DEF Step, History, MarkSold, At, Fails
  <1>2. PICK w : w = Wanted(k)
    OBVIOUS
  <1>3. /\ w.item \in ItemIds /\ w.quantity \in Size /\ <<"item", w.item>> \in Footprint(k)
        /\ k.id \in DOMAIN orders /\ w = orders[k.id] /\ k.does = "pay"
        /\ w.item \in DOMAIN items /\ The(k.item) = items[w.item] /\ items[w.item] \in Ware
    BY <1>1, <1>2, Ending
  <1>4. PICK z : z = l
    OBVIOUS
  <1>5. z.pc = "reload" /\ z.does = k.does /\ z.order = k.order
    BY <1>1, <1>4 DEF Fields
  <1>6. th' = [th EXCEPT ![t] = z] /\ Wanted(z) = w
    BY <1>1, <1>2, <1>4, <1>5 DEF MarkSold, Goes, Fails, Wanted
  <1>7. PICK row : row = Sold(items[w.item], w.quantity)
    OBVIOUS
  <1>8. items' = Write(items, w.item, row) /\ UNCHANGED orders
    BY <1>1, <1>2, <1>3, <1>7 DEF MarkSold, OnlyItems, Wanted
  <1>9. /\ row.frozen = items[w.item].frozen
        /\ row.stock = SizeSub(items[w.item].stock, w.quantity)
        /\ items[w.item].stock \in Size /\ items[w.item].frozen \in Size
    BY <1>3, <1>7, Numbers
  <1>10. row.stock = items[w.item].stock <=> w.quantity = 0
    BY <1>3, <1>9, SizeMoves
  <1> HIDE DEF k, l
  <1>11. ASSUME w.quantity # 0
         PROVE  Changing(z, w.item) /\ Partial(z, w.item)'
    <2>1. items'[w.item] = row /\ w.item \in DOMAIN items'
      BY <1>3, <1>8 DEF Write
    <2>2. db' # db
      BY <1>10, <1>11, <2>1 DEF db
    <2>3. ~Changing(k, w.item)
      BY <1>1 DEF Changing
    <2>4. Whole(w.item)
      BY <1>3, <2>2, <2>3, SeenWhole DEF k
    <2>5. HoldsUnit(k.id, w.item)
      BY <1>3, <1>11 DEF HoldsUnit
    <2>6. items[w.item].stock = 1 /\ items[w.item].frozen = 1 /\ w.quantity = 1
      BY <1>3, <1>9, <2>4, <2>5, SizeAssumption
         DEF Whole, Size, StocksRight, StockRight, OneUnit
    <2>7. row.stock = 0 /\ row.frozen = 1
      BY <1>9, <2>6, SizeAssumption DEF SizeSub
    <2>8. Changing(z, w.item)
      BY <1>3, <1>5, <1>6, <1>11 DEF Changing
    <2>9. Partial(z, w.item)'
      BY <1>3, <1>5, <2>1, <2>7 DEF Partial
    <2> QED
      BY <2>8, <2>9
  <1> QED
    BY <1>2, <1>3, <1>6, <1>8, <1>9, <1>10, <1>11, ItemStep DEF k

LEMMA UnfreezeStock ==
  ASSUME Base, ThreadsFine, StocksRight, NEW t \in Threads, Step(t), Unfreeze(t), ~raced'
  PROVE  StocksRight'
  <1> DEFINE k == th[t]
             l == [k EXCEPT !.pc = "close", !.item = {}, !.dirty = TRUE]
  <1>1. /\ ~raced /\ DOMAIN k = Fields /\ k.pc = "unfreeze" /\ k.item # {}
    BY ThreadFacts DEF Step, History, Unfreeze, At, Sound, RequestSound
  <1>2. PICK w : w = Wanted(k)
    OBVIOUS
  <1>3. /\ w.item \in ItemIds /\ w.quantity \in Size /\ <<"item", w.item>> \in Footprint(k)
        /\ k.id \in DOMAIN orders /\ w = orders[k.id] /\ k.does \in {"pay", "cancel"}
        /\ w.item \in DOMAIN items /\ The(k.item) = items[w.item] /\ items[w.item] \in Ware
    BY <1>1, <1>2, Ending
  <1>4. PICK z : z = l
    OBVIOUS
  <1>5. z.pc = "close" /\ z.does = k.does /\ z.order = k.order
    BY <1>1, <1>4 DEF Fields
  <1>6. th' = [th EXCEPT ![t] = z] /\ Wanted(z) = w
    BY <1>2, <1>4, <1>5 DEF Unfreeze, Goes, Wanted
  <1>7. PICK row : row = Unfroze(items[w.item], w.quantity)
    OBVIOUS
  <1>8. items' = Write(items, w.item, row) /\ UNCHANGED orders
    BY <1>2, <1>3, <1>7 DEF Unfreeze, OnlyItems, Wanted
  <1>9. /\ row.stock = items[w.item].stock
        /\ row.frozen = SizeSub(items[w.item].frozen, w.quantity)
        /\ items[w.item].stock \in Size /\ items[w.item].frozen \in Size
    BY <1>3, <1>7, Numbers
  <1>10. row.frozen = items[w.item].frozen <=> w.quantity = 0
    BY <1>3, <1>9, SizeMoves
  <1> HIDE DEF k, l
  <1>11. ASSUME w.quantity # 0
         PROVE  Changing(z, w.item) /\ Partial(z, w.item)'
    <2>1. items'[w.item] = row /\ w.item \in DOMAIN items'
      BY <1>3, <1>8 DEF Write
    <2>2. db' # db
      BY <1>10, <1>11, <2>1 DEF db
    <2>3. HoldsUnit(k.id, w.item)
      BY <1>3, <1>11 DEF HoldsUnit
    <2>4. w.quantity = 1
      BY <1>3, <2>3 DEF StocksRight, StockRight, OneUnit
    <2>5. /\ items[w.item].frozen = 1
          /\ items[w.item].stock = IF k.does = "pay" THEN 0 ELSE 1
      <3>1. CASE k.does = "pay"
        <4>1. Changing(k, w.item)
          BY <1>1, <1>2, <1>11, <3>1 DEF Changing
        <4>2. Partial(k, w.item)
          BY <1>3, <4>1 DEF StocksRight, StockRight, k
        <4> QED
          BY <1>1, <3>1, <4>2 DEF Partial
      <3>2. CASE k.does # "pay"
        <4>1. ~Changing(k, w.item)
          BY <1>1, <3>2 DEF Changing
        <4>2. Whole(w.item)
          BY <1>3, <2>2, <4>1, SeenWhole DEF k
        <4> QED
          BY <1>3, <1>9, <2>3, <3>2, <4>2 DEF Whole, Size
      <3> QED
        BY <3>1, <3>2
    <2>6. row.frozen = 0
      BY <1>9, <2>4, <2>5, SizeAssumption DEF SizeSub
    <2>7. Changing(z, w.item)
      BY <1>5, <1>6, <1>11 DEF Changing
    <2>8. Partial(z, w.item)'
      BY <1>5, <1>9, <2>1, <2>5, <2>6 DEF Partial
    <2> QED
      BY <2>7, <2>8
  <1> QED
    BY <1>2, <1>3, <1>6, <1>8, <1>9, <1>10, <1>11, ItemStep DEF k

\* Order::pay's second half loads its item, and a payment moves money only.
LEMMA MoneyStock ==
  ASSUME Base, ThreadsFine, StocksRight, NEW t \in Threads, Step(t),
         Reload(t) \/ Debit(t) \/ Credit(t), ~Down
  PROVE  StocksRight'
  <1> DEFINE k == th[t]
  <1>1. DOMAIN th = Threads /\ DOMAIN k = Fields /\ UNCHANGED <<items, orders>>
    BY ThreadFacts DEF Reload, Debit, Credit, OnlyBalance, Fails, db
  <1>2. \A i : NumbersStay(i) /\ HoldersStay(i)
    BY <1>1 DEF NumbersStay, HoldersStay, HoldsUnit
  <1>3. PICK l : /\ th' = [th EXCEPT ![t] = l] /\ l.does = k.does /\ l.order = k.order
                 /\ \/ k.pc = "reload" /\ l.pc = "unfreeze"
                    \/ k.pc = "debit" /\ l.pc = "credit"
                    \/ k.pc = "credit" /\ l.pc = "sold"
    <2>1. CASE Reload(t)
      <3> DEFINE n == [k EXCEPT !.pc = "unfreeze", !.item = CopyItem(The(k.order).item)]
      <3>1. th' = [th EXCEPT ![t] = n] /\ k.pc = "reload"
        BY <2>1 DEF Reload, Goes, At, Fails
      <3>2. n.pc = "unfreeze" /\ n.does = k.does /\ n.order = k.order
        BY <1>1 DEF Fields
      <3> QED
        BY <3>1, <3>2
    <2>2. CASE Debit(t)
      <3> DEFINE n == [k EXCEPT !.pc = "credit", !.dirty = TRUE]
      <3>1. th' = [th EXCEPT ![t] = n] /\ k.pc = "debit"
        BY <2>2 DEF Debit, Goes, At
      <3>2. n.pc = "credit" /\ n.does = k.does /\ n.order = k.order
        BY <1>1 DEF Fields
      <3> QED
        BY <3>1, <3>2
    <2>3. CASE Credit(t)
      <3> DEFINE n == [k EXCEPT !.pc = "sold"]
      <3>1. th' = [th EXCEPT ![t] = n] /\ k.pc = "credit"
        BY <2>3 DEF Credit, Goes, At
      <3>2. n.pc = "sold" /\ n.does = k.does /\ n.order = k.order
        BY <1>1 DEF Fields
      <3> QED
        BY <3>1, <3>2
    <2> QED
      BY <2>1, <2>2, <2>3
  <1>4. th'[t] = l /\ \A s \in Threads : s # t => th'[s] = th[s]
    BY <1>1, <1>3
  <1> HIDE DEF k
  <1>5. \A i : /\ Changing(k, i) <=> Changing(l, i)
               /\ k.pc \notin {"insert", "close"} /\ l.pc \notin {"insert", "close"}
    BY <1>3 DEF Changing, Wanted
  <1>6. ASSUME NEW i \in ItemIds
        PROVE  StockRight(i)'
    <2>1. \A s \in Threads : Changing(th[s], i) <=> Changing(th'[s], i)
      BY <1>4, <1>5 DEF k
    <2>2. \A s \in Threads : Changing(th[s], i) =>
            \/ th'[s] = th[s]
            \/ /\ th'[s].does = th[s].does
               /\ th[s].pc \notin {"insert", "close"} /\ th'[s].pc \notin {"insert", "close"}
      BY <1>3, <1>4, <1>5 DEF k
    <2> QED
      BY <1>2, <2>1, <2>2, StockStays DEF StocksRight
  <1> QED
    BY <1>6 DEF StocksRight

LEMMA InsertStock ==
  ASSUME Base, ThreadsFine, StocksRight, NEW t \in Threads, Step(t), Insert(t), ~raced'
  PROVE  StocksRight'
  <1> DEFINE k == th[t]
             l == [k EXCEPT !.pc = "unrow", !.order = {}]
  <1>1. /\ DOMAIN th = Threads /\ DOMAIN k = Fields /\ k.pc = "insert"
        /\ lastOrder \in Nat /\ DOMAIN orders \subseteq 1 .. lastOrder
    BY ThreadFacts DEF Insert, At, Base, Ids
  <1>2. PICK w : w = Wanted(k)
    OBVIOUS
  <1>3. w.item \in ItemIds /\ w.quantity \in Size /\ <<"item", w.item>> \in Footprint(k)
    BY <1>1, <1>2, Handling
  <1>4. PICK z : z = l
    OBVIOUS
  <1>5. z.pc = "unrow" /\ th' = [th EXCEPT ![t] = z]
    BY <1>1, <1>4 DEF Insert, Goes, Fields
  <1>6. PICK n : n = lastOrder + 1
    OBVIOUS
  <1>7. UNCHANGED items /\ orders' = Put(orders, n, w)
    BY <1>2, <1>6 DEF Insert, OnlyOrders, FreshOrderId, Wanted
  <1>8. n \notin DOMAIN orders
    BY <1>1, <1>6
  <1>9. /\ DOMAIN orders' = DOMAIN orders \cup {n} /\ orders'[n] = w
        /\ \A o \in DOMAIN orders : orders'[o] = orders[o]
    BY <1>7, <1>8 DEF Put
  <1> HIDE DEF k, l
  <1>10. \A i : ~Changing(z, i)
    BY <1>5 DEF Changing
  <1>11. ASSUME NEW i \in ItemIds, i # w.item \/ w.quantity = 0
         PROVE  StockRight(i)'
    <2>1. NumbersStay(i) /\ ~Changing(k, i)
      BY <1>2, <1>7, <1>11 DEF NumbersStay, Changing
    <2>2. HoldersStay(i)
      BY <1>9, <1>11 DEF HoldersStay
    <2> QED
      BY <1>1, <1>5, <1>10, <2>1, <2>2, StockUntouched DEF StocksRight, k
  <1>12. ASSUME w.quantity # 0
         PROVE  StockRight(w.item)'
    <2>1. db' # db
      BY <1>8, <1>9 DEF db
    <2>2. \A s \in Threads : s # t => ~Changing(th[s], w.item)
      BY <1>3, <2>1, ChangingAlone DEF k
    <2>3. Partial(k, w.item)
      BY <1>1, <1>2, <1>3, <1>12 DEF StocksRight, StockRight, Changing, k
    <2>4. /\ w.item \in DOMAIN items /\ items[w.item].frozen = 1 /\ w.quantity = 1
          /\ \A o \in DOMAIN orders : ~HoldsUnit(o, w.item)
      BY <1>1, <1>2, <2>3 DEF Partial
    <2>5. items[w.item].stock = 1
      <3>1. k.does # "pay"
        BY <1>1, ThreadFacts DEF Serves, PayCalls, k
      <3> QED
        BY <2>3, <3>1 DEF Partial
    <2>6. \A o \in DOMAIN orders' : HoldsUnit(o, w.item)' => o = n
      BY <1>9, <2>4 DEF HoldsUnit
    <2>7. n \in DOMAIN orders' /\ HoldsUnit(n, w.item)'
      BY <1>9, <1>12 DEF HoldsUnit
    <2>8. OneUnit(w.item)'
      BY <1>9, <2>4, <2>6 DEF OneUnit
    <2>9. Whole(w.item)'
      BY <1>7, <2>4, <2>5, <2>7 DEF Whole
    <2> QED
      BY <1>1, <1>5, <1>10, <2>2, <2>8, <2>9, StockAlone
  <1> QED
    BY <1>11, <1>12 DEF StocksRight

LEMMA CloseStock ==
  ASSUME Base, ThreadsFine, StocksRight, NEW t \in Threads, Step(t), Close(t), ~raced'
  PROVE  StocksRight'
  <1> DEFINE k == th[t]
  <1>1. ~raced /\ DOMAIN th = Threads /\ k.pc = "close"
    BY ThreadFacts DEF Step, History, Close, At
  <1>2. PICK w : w = Wanted(k)
    OBVIOUS
  <1>3. PICK n : n = k.id
    OBVIOUS
  <1>4. /\ w.item \in ItemIds /\ w.quantity \in Size /\ <<"item", w.item>> \in Footprint(k)
        /\ n \in DOMAIN orders /\ w = orders[n] /\ k.does \in {"pay", "cancel"}
    BY <1>1, <1>2, <1>3, Ending
  <1>5. UNCHANGED items /\ orders' = Without(orders, n) /\ th' = [th EXCEPT ![t] = Idle]
    BY <1>3 DEF Close, OnlyOrders, Answers
  <1>6. /\ DOMAIN orders' = DOMAIN orders \ {n}
        /\ \A o \in DOMAIN orders' : orders'[o] = orders[o]
    BY <1>5 DEF Without, Keep
  <1> HIDE DEF k
  <1>7. \A i : ~Changing(Idle, i)
    BY DEF Changing, Idle
  <1>8. ASSUME NEW i \in ItemIds, i # w.item \/ w.quantity = 0
        PROVE  StockRight(i)'
    <2>1. NumbersStay(i) /\ ~Changing(k, i)
      BY <1>2, <1>5, <1>8 DEF NumbersStay, Changing
    <2>2. HoldersStay(i)
      BY <1>4, <1>6, <1>8 DEF HoldersStay, HoldsUnit
    <2> QED
      BY <1>1, <1>5, <1>7, <2>1, <2>2, StockUntouched DEF StocksRight, k
  <1>9. ASSUME w.quantity # 0
        PROVE  StockRight(w.item)'
    <2>1. db' # db
      BY <1>4, <1>6 DEF db
    <2>2. \A s \in Threads : s # t => ~Changing(th[s], w.item)
      BY <1>4, <2>1, ChangingAlone DEF k
    <2>3. Partial(k, w.item)
      BY <1>1, <1>2, <1>4, <1>9 DEF StocksRight, StockRight, Changing, k
    <2>4. items[w.item].stock \in {0, 1} /\ items[w.item].frozen = 0
      BY <1>1, <2>3 DEF Partial
    <2>5. HoldsUnit(n, w.item)
      BY <1>4, <1>9 DEF HoldsUnit
    <2>6. \A o \in DOMAIN orders : HoldsUnit(o, w.item) => o = n
      BY <1>4, <2>5 DEF StocksRight, StockRight, OneUnit
    <2>7. \A o \in DOMAIN orders' : ~HoldsUnit(o, w.item)'
      BY <1>6, <2>6 DEF HoldsUnit
    <2>8. OneUnit(w.item)'
      BY <2>7 DEF OneUnit
    <2>9. Whole(w.item)'
      BY <1>5, <2>4, <2>7 DEF Whole
    <2> QED
      BY <1>1, <1>5, <1>7, <2>2, <2>8, <2>9, StockAlone
  <1> QED
    BY <1>8, <1>9 DEF StocksRight

\* Stock and orders are right after every step that is no race and cuts no other
\* request in two.
LEMMA StocksStep ==
  ASSUME Base, ThreadsFine, OrdersPlaced, ~raced /\ ~torn => StocksRight, [Next]_vars
  PROVE  ~raced' /\ ~torn' => StocksRight'
  <1>1. CASE Kill
    <2> SUFFICES ASSUME ~raced', ~torn' PROVE StocksRight'
      OBVIOUS
    <2>1. /\ ~raced /\ StocksRight /\ UNCHANGED db /\ \A s \in Threads : ~th[s].dirty
          /\ \A s \in Threads : th'[s] = Idle
      BY <1>1 DEF Kill, Down
    <2>2. ASSUME NEW s \in Threads, NEW i
          PROVE  ~Changing(th[s], i)
      <3>1. Serves(th[s])
        BY ThreadFacts
      <3> QED
        BY <2>1, <3>1 DEF Changing, Serves
    <2>3. \A i : ~Changing(Idle, i)
      BY DEF Changing, Idle
    <2>4. \A i : (OneUnit(i) => OneUnit(i)') /\ (Whole(i) => Whole(i)')
      BY <2>1 DEF OneUnit, Whole, HoldsUnit, db
    <2>5. \A s \in Threads : \A i : Changing(th[s], i)' <=> Changing(th'[s], i)
      BY DEF Changing, Wanted
    <2> QED
      BY <2>1, <2>2, <2>3, <2>4, <2>5 DEF StocksRight, StockRight, db
  <1>2. CASE Restart \/ UNCHANGED vars
    <2>1. UNCHANGED <<items, orders, th, raced, torn>>
      BY <1>2 DEF Restart, vars, db
    <2>2. \A i : StockRight(i) => StockRight(i)'
      BY <2>1 DEF StockRight, OneUnit, Whole, Partial, Changing, HoldsUnit, Wanted
    <2> QED
      BY <2>1, <2>2 DEF StocksRight
  <1>3. ASSUME NEW t \in Threads, Step(t), ~raced', ~torn'
        PROVE  StocksRight'
    <2>1. StocksRight
      BY <1>3 DEF Step, History
    <2>2. CASE Down
      BY <1>3, <2>1, <2>2, DownStock
    <2>3. CASE ~Down /\ ~Delicate(t)
      BY <1>3, <2>1, <2>3, SellersStock
    <2>4. CASE ~Down /\ Delicate(t)
      BY <1>3, <2>1, <2>4, FreezeStock, InsertStock, MoneyStock, SoldStock, UnfreezeStock,
         CloseStock DEF Delicate
    <2> QED
      BY <2>2, <2>3, <2>4
  <1> QED
    BY <1>1, <1>2, <1>3 DEF Next

-----------------------------------------------------------------------------
(* Requests interfere only through rows they share *)

\* What the tables are as long as nothing was raced or torn, with the requests
\* that are under way.
AsAlone ==
  /\ Base /\ ThreadsFine /\ OrdersPlaced /\ expected \in [Users -> Int]
  /\ ~raced => CartsCoherent
  /\ ~raced /\ ~torn => WalletsRight /\ StocksRight

LEMMA AsAloneAtFirst ==
  ASSUME Init
  PROVE  AsAlone
  <1>1. Base
    BY InitSound, InitBounded DEF Base
  <1>2. ThreadsFine
    BY IdleFine DEF Init, ThreadsFine, Fine
  <1>3. DOMAIN items = {} /\ DOMAIN orders = {} /\ DOMAIN carts = {}
    BY DEF Init, Empty
  <1>4. \A t \in Threads : th[t].pc = "idle" /\ th[t].does = "nothing"
    BY DEF Init, Idle
  <1>5. OrdersPlaced /\ CartsCoherent
    BY <1>3 DEF OrdersPlaced, CartsCoherent
  <1>6. StocksRight
    BY <1>3, <1>4 DEF StocksRight, StockRight, OneUnit, Changing
  <1>7. WalletsRight /\ expected \in [Users -> Int]
    BY <1>4 DEF WalletsRight, WalletRight, Takes, Init
  <1> QED
    BY <1>1, <1>2, <1>5, <1>6, <1>7 DEF AsAlone

LEMMA AsAloneStep ==
  ASSUME AsAlone, [Next]_vars
  PROVE  AsAlone'
  <1>1. Base'
    BY IdsStep, SoundStep, BoundedStep DEF Base, AsAlone, Money
  <1>2. ThreadsFine' /\ OrdersPlaced'
    BY FineStep DEF AsAlone
  <1>3. ~raced' => CartsCoherent'
    <2>1. CASE Kill \/ Restart \/ UNCHANGED vars
      <3>1. UNCHANGED <<carts, raced>>
        BY <2>1 DEF Kill, Restart, vars, db
      <3> QED
        BY <3>1, CartsFewer DEF AsAlone
    <2>2. ASSUME NEW t \in Threads, Step(t), ~raced'
          PROVE  CartsCoherent'
      <3>1. ~raced
        BY <2>2 DEF Step, History
      <3> QED
        BY <2>2, <3>1, CartsStep DEF AsAlone
    <2> QED
      BY <2>1, <2>2 DEF Next
  <1>4. expected' \in [Users -> Int] /\ (~raced' /\ ~torn' => WalletsRight')
    BY WalletsStep DEF AsAlone
  <1>5. ~raced' /\ ~torn' => StocksRight'
    BY StocksStep DEF AsAlone
  <1> QED
    BY <1>1, <1>2, <1>3, <1>4, <1>5 DEF AsAlone

\* As long as no handler wrote while another was using the same user, cart, item
\* or order, and the process never died between two writes of a handler, then
\* whenever no request is under way stock and orders agree, carts have one row per
\* item, and every wallet holds what it would if each top-up and each payment were
\* a single step: whatever the number of threads and the order of their calls,
\* the missing locks and transactions cost nothing to requests that share no row.
THEOREM InterfereOnlyOnSharedRows == Spec => []CoherentWhenApart
  <1>1. AsAlone => CoherentWhenApart
    <2> SUFFICES ASSUME AsAlone, ~raced, ~torn, \A t \in Threads : th[t] = Idle
                 PROVE  StockCoherent /\ CartsCoherent /\ balance = expected
      BY DEF CoherentWhenApart
    <2>1. /\ WalletsRight /\ StocksRight /\ CartsCoherent
          /\ expected \in [Users -> Int] /\ balance \in [Users -> Int]
      BY DEF AsAlone, Base, TablesSound
    <2>2. \A t \in Threads : \A x : ~Takes(th[t], x) /\ ~Changing(th[t], x)
      BY DEF Takes, Changing, Idle
    <2>3. balance = expected
      <3>1. \A u \in Users : balance[u] = expected[u]
        BY <2>1, <2>2 DEF WalletsRight, WalletRight
      <3> QED
        BY <2>1, <3>1
    <2>4. /\ DOMAIN items \subseteq ItemIds
          /\ \A o \in DOMAIN orders : orders[o].item \in ItemIds
      <3>1. /\ DOMAIN items \subseteq 1 .. lastItem /\ lastItem \in 0 .. MaxItems
            /\ \A o \in DOMAIN orders : orders[o].item \in 1 .. lastItem
        BY DEF AsAlone, Base, Ids, Bounded, OrdersPlaced
      <3> QED
        BY <3>1, BoundsAssumption DEF ItemIds
    <2>5. \A i \in DOMAIN items : Whole(i)
      BY <2>1, <2>2, <2>4 DEF StocksRight, StockRight
    <2>6. ASSUME NEW o \in DOMAIN orders, NEW p \in DOMAIN orders,
                 orders[p].quantity # 0, HoldsUnit(o, orders[p].item)
          PROVE  o = p
      <3>1. HoldsUnit(p, orders[p].item) /\ OneUnit(orders[p].item)
        BY <2>1, <2>4, <2>6 DEF StocksRight, StockRight, HoldsUnit
      <3> QED
        BY <2>6, <3>1 DEF OneUnit
    <2>7. StockCoherent
      BY <2>5, <2>6 DEF StockCoherent, Whole
    <2> QED
      BY <2>1, <2>3, <2>7
  <1> QED
    BY <1>1, AsAloneAtFirst, AsAloneStep, PTL DEF Spec
=============================================================================
