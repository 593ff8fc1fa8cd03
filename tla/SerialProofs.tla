---------------------------- MODULE SerialProofs ----------------------------
(***************************************************************************)
(* With one thread the handlers, storage call by storage call, implement   *)
(* the requests of Market, for every value of the constants: a call that   *)
(* leaves its request half written, or writes nothing, changes nothing     *)
(* Market sees, and the last call does to the tables what the request does *)
(* in Market.                                                              *)
(***************************************************************************)
EXTENDS MarketSerial, ApartProofs

Mine == th[Me]
Ware1 == Wanted(Mine).item      \* the item of the order the thread works on
Row1 == Mine.batch[Mine.id]     \* the row of the checkout it works on

-----------------------------------------------------------------------------
(* What a request under way has been asked and has written *)

\* What the later calls of a request rely on.
Asked ==
  /\ Mine.pc = "add" => Mine.n \in Quantities
  /\ Mine.pc = "cart_edit" => Mine.n \in Quantities \cup {0}
  /\ Mine.pc \in {"edit", "uncart", "drop"} =>
       Mine.id \in ItemIds /\ Readable(items, Mine.id)
  /\ Mine.pc = "edit" =>
       /\ Mine.type \in Types \cup {items[Mine.id].type}
       /\ \E stock \in Stocks : AsSize(stock) >= items[Mine.id].frozen

\* A checkout has still to visit rows of the cart, takes the first of them, and
\* makes of it the order Market makes.
Visiting ==
  Mine.does = "checkout" =>
    /\ \A r \in DOMAIN Mine.batch : r \in DOMAIN pre[4] /\ pre[4][r] = Mine.batch[r]
    /\ Mine.pc # "row" =>
         /\ \A r \in DOMAIN Mine.batch : Mine.id <= r
         /\ Readable(pre[2], Row1.item)
    /\ Mine.pc \in {"create", "freeze", "insert"} =>
         Wanted(Mine) = NewOrder(Mine.user, Row1, pre[2][Row1.item])

\* The unit is frozen, the order perhaps inserted, the row still in the cart.
HalfOrdered ==
  Mine.pc \in {"insert", "unrow"} =>
    /\ balance = pre[1] /\ carts = pre[4] /\ lastItem = pre[5] /\ lastRow = pre[7]
    /\ Available(pre[2][Row1.item]) >= Row1.quantity
    /\ items = [pre[2] EXCEPT ![Row1.item] = Froze(@, Row1.quantity)]
    /\ Mine.pc = "insert" => orders = pre[3] /\ lastOrder = pre[6]
    /\ Mine.pc = "unrow" =>
         /\ pre[6] = lastOrder - 1
         /\ orders = Put(pre[3], pre[6] + 1, NewOrder(Mine.user, Row1, pre[2][Row1.item]))

\* Only wallets and items differ from what they were.
RestStays ==
  /\ orders = pre[3] /\ carts = pre[4]
  /\ lastItem = pre[5] /\ lastOrder = pre[6] /\ lastRow = pre[7]

\* The money has left one wallet, reached the other, the unit is sold and no
\* longer frozen, the order still open.
HalfPaid ==
  LET w == Wanted(Mine)
      price == Price(Mine)
  IN /\ Mine.pc \in {"debit", "credit", "sold"} /\ Mine.item = {} => ~Readable(items, w.item)
     /\ Mine.does = "pay" /\ Mine.dirty =>
          /\ RestStays
          /\ pre[1][w.customer] >= price
          /\ Mine.pc = "credit" =>
               /\ balance = [pre[1] EXCEPT ![w.customer] = pre[1][w.customer] - price]
               /\ Mine.sell = pre[1][w.seller]
          /\ Mine.pc # "credit" =>
               balance = [pre[1] EXCEPT ![w.customer] = pre[1][w.customer] - price,
                                        ![w.seller] = pre[1][w.seller] + price]
          /\ Mine.pc \in {"credit", "sold"} => items = pre[2]
          /\ Mine.pc \in {"reload", "unfreeze", "close"} => Readable(pre[2], w.item)
          /\ Mine.pc \in {"reload", "unfreeze"} =>
               items = [pre[2] EXCEPT ![w.item] = Sold(@, w.quantity)]
          /\ Mine.pc = "close" =>
               items = [pre[2] EXCEPT ![w.item] = Unfroze(Sold(@, w.quantity), w.quantity)]

\* The item can be read; then the unit is no longer frozen, the order still open.
HalfCancelled ==
  Mine.does = "cancel" /\ Mine.pc \in {"unfreeze", "close"} =>
    /\ Readable(pre[2], Ware1)
    /\ Mine.pc = "close" =>
         /\ RestStays /\ balance = pre[1]
         /\ items = [pre[2] EXCEPT ![Ware1] = Unfroze(@, Wanted(Mine).quantity)]

\* The item is in no cart any more and still in the table.
HalfRemoved ==
  Mine.pc = "drop" =>
    /\ balance = pre[1] /\ items = pre[2] /\ orders = pre[3]
    /\ lastItem = pre[5] /\ lastOrder = pre[6] /\ lastRow = pre[7]
    /\ carts = Keep(pre[4], {r \in DOMAIN pre[4] : pre[4][r].item # Mine.id})

\* The items that are no longer in the batch have the new discount.
Chosen(s, type) == {i \in DOMAIN pre[2] : pre[2][i].seller = s /\ pre[2][i].type = type}
HalfOnSale ==
  Mine.pc = "sale" =>
    /\ RestStays /\ balance = pre[1]
    /\ \E s \in Sellers, type \in Types :
         /\ DOMAIN Mine.batch \subseteq Chosen(s, type)
         /\ Chosen(s, type) # {} => type \in LegalTypes
         /\ items = [i \in DOMAIN pre[2] |->
                       IF i \in Chosen(s, type) \ DOMAIN Mine.batch
                         THEN [pre[2][i] EXCEPT !.discount = Mine.n] ELSE pre[2][i]]

\* The tables are those Market sees, but for what the request has written.
Underway ==
  /\ ~Mine.dirty => pre = db
  /\ Mine.dirty => \/ Mine.pc \in {"insert", "unrow", "credit", "sold", "close", "drop", "sale"}
                   \/ Mine.does = "pay" /\ Mine.pc \in {"reload", "unfreeze"}
  /\ Asked /\ Visiting
  /\ HalfOrdered /\ HalfPaid /\ HalfCancelled /\ HalfRemoved /\ HalfOnSale

\* The inductive invariant.
Serial == AsAlone /\ ~raced /\ ~torn /\ Underway

-----------------------------------------------------------------------------
(* The thread *)

LEMMA OneThread == Threads = {Me}
  <1>1. PICK t : Threads = {t}
    BY OneThreadAssumption, ThreadsAssumption, FS_Singleton
  <1> QED
    BY <1>1 DEF Me

\* What every step may rely on.
LEMMA MyFacts ==
  ASSUME Serial
  PROVE  /\ DOMAIN th = {Me} /\ DOMAIN Mine = Fields
         /\ Sound(Int, Order, Mine) /\ Placed(Mine)
         /\ Serves(Mine) /\ Known(Mine) /\ Accurate(Mine)
         /\ Ids /\ TablesSound(Int) /\ (~up => Mine = Idle)
         /\ lastItem \in 0 .. MaxItems
  BY OneThread, ThreadFacts DEF Serial, AsAlone, Mine, Base, Bounded

\* The thread goes on as l, answers, or ends with the process.
LEMMA MyStep ==
  ASSUME DOMAIN th = {Me}
  PROVE  /\ \A l : Goes(Me, l) => Mine' = l /\ up' = up /\ reply' = reply
         /\ \A r : Answers(Me, r) => Mine' = Idle /\ up' = up /\ reply' = r
         /\ Down => Mine' = Idle /\ up' = FALSE /\ reply' = "none"
  BY OneThread DEF Mine, Goes, Answers, Down

\* A thread that is idle has written nothing that Market does not see.
LEMMA IdleUnderway ==
  ASSUME Mine' = Idle, pre' = db'
  PROVE  Underway'
  BY DEF Underway, Idle, Asked, Visiting, HalfOrdered, HalfPaid, HalfCancelled, HalfRemoved,
         HalfOnSale

-----------------------------------------------------------------------------
(* Steps of Market *)

\* Market counts with the same Cardinality.
LEMMA SameCount == \A S : M!Cardinality(S) = Cardinality(S)
  BY DEF M!Cardinality, Cardinality

\* A step Market allows.
Allowed == M!Next \/ UNCHANGED M!vars

\* A step that writes nothing Market sees, outside a checkout.
LEMMA Unseen ==
  ASSUME pre' = pre, up' = up, reply' = reply,
         Mine.does # "checkout", Mine'.does # "checkout"
  PROVE  Allowed
  BY DEF Allowed, M!vars, M!db, M!run, CheckingOut, Mine

\* The same in the loop of a checkout.
LEMMA UnseenInLoop ==
  ASSUME pre' = pre, up' = up,
         Mine.does = "checkout", Mine'.does = "checkout", Mine'.user = Mine.user,
         DOMAIN Mine'.batch = DOMAIN Mine.batch, Mine'.ok = Mine.ok
  PROVE  Allowed
  BY DEF Allowed, M!vars, M!db, M!run, CheckingOut, Mine

\* An answer to a request that is no checkout.
LEMMA MarketAnswers ==
  ASSUME up, up' = up, Mine.does # "checkout", Mine' = Idle
  PROVE  M!Ready /\ M!Answer(reply')
  BY DEF M!Ready, M!Answer, M!run, CheckingOut, Mine, Idle, Nobody, M!Nobody

\* The process ends.
LEMMA MarketCrashes ==
  ASSUME Mine' = Idle, up' = FALSE, reply' = "none"
  PROVE  M!Crash
  BY DEF M!Crash, CheckingOut, Mine, Idle, Nobody, M!Nobody

\* A request that has written nothing answers.
LEMMA AnswersOnly ==
  ASSUME up, up' = up, Mine.does # "checkout", Mine' = Idle, pre' = pre,
         reply' \in {"success", "failure"}
  PROVE  Allowed
  <1>1. M!Ready /\ M!Answer(reply') /\ UNCHANGED M!db
    BY MarketAnswers DEF M!db
  <1>2. M!WalletShow \/ M!InvalidInput
    BY <1>1 DEF M!WalletShow, M!ReadItems, M!InvalidInput
  <1> QED
    BY <1>2 DEF Allowed, M!Next

\* A request that has written nothing ends the process.
LEMMA CrashesOnly ==
  ASSUME up, Mine' = Idle, up' = FALSE, reply' = "none", pre' = pre
  PROVE  Allowed
  <1>1. M!Kill
    BY MarketCrashes DEF M!Kill, M!db
  <1> QED
    BY <1>1 DEF Allowed, M!Next

-----------------------------------------------------------------------------
(* Requests start *)

\* What is hidden after a step.
Hides == pre' = IF Mine'.dirty THEN pre ELSE db'

\* A thread that loads, and the tables it loads from.
LEMMA Idles ==
  ASSUME Serial, At(Me, "idle")
  PROVE  /\ up /\ Mine = Idle /\ pre = db /\ Mine.does # "checkout"
         /\ balance = pre[1] /\ items = pre[2] /\ orders = pre[3] /\ carts = pre[4]
         /\ lastItem = pre[5] /\ lastOrder = pre[6] /\ lastRow = pre[7]
  <1>1. up /\ Mine = Idle
    BY MyFacts DEF At, Placed, Mine
  <1>2. pre = db
    BY <1>1 DEF Serial, Underway, Idle
  <1> QED
    BY <1>1, <1>2 DEF Idle, db

\* A request other than a checkout loads.
LEMMA Loads ==
  ASSUME Serial, Hides, At(Me, "idle"), UNCHANGED db,
         NEW l, Goes(Me, l), ~l.dirty, l.does # "checkout"
  PROVE  Mine' = l /\ pre' = pre /\ pre' = db' /\ Allowed
  <1>1. Mine' = l /\ up' = up /\ reply' = reply
    BY MyFacts, MyStep
  <1>2. pre' = db' /\ pre' = pre
    BY <1>1, Idles DEF Hides
  <1> QED
    BY <1>1, <1>2, Idles, Unseen

\* A request answers or ends the process at once, or after reading only.
LEMMA Refuses ==
  ASSUME Serial, Hides, up, Mine.does # "checkout", ~Mine.dirty, UNCHANGED db,
         Down \/ Answers(Me, "success") \/ Answers(Me, "failure")
  PROVE  Underway' /\ Allowed
  <1>1. /\ Mine' = Idle
        /\ \/ up' = FALSE /\ reply' = "none"
           \/ up' = up /\ reply' \in {"success", "failure"}
    BY MyFacts, MyStep
  <1>2. pre' = db' /\ pre' = pre
    BY <1>1 DEF Hides, Idle, Serial, Underway
  <1> QED
    BY <1>1, <1>2, IdleUnderway, AnswersOnly, CrashesOnly

\* A state at a call of which Underway says nothing.
LEMMA NothingWritten ==
  ASSUME pre' = db', Mine'.does # "checkout",
         Mine'.pc \notin CheckoutCalls \cup
           {"add", "cart_edit", "edit", "uncart", "drop", "debit", "credit", "sold",
            "unfreeze", "close", "sale"},
         ~Mine'.dirty
  PROVE  Underway'
  BY DEF Underway, Asked, Visiting, HalfOrdered, HalfPaid, HalfCancelled, HalfRemoved,
         HalfOnSale, CheckoutCalls

LEMMA CustomerAllowed ==
  ASSUME Serial, Hides, At(Me, "idle"), CustomerStart(Me)
  PROVE  Underway' /\ Allowed
  <1>1. ASSUME NEW u \in Users, NEW amount \in Topups, TopupLoad(Me, u, amount)
        PROVE  Underway' /\ Allowed
    <2>1. PICK l : /\ Goes(Me, l) /\ UNCHANGED db
                   /\ l = [Idle EXCEPT !.pc = "topup", !.does = "topup", !.user = u,
                                       !.n = amount, !.cust = balance[u]]
      BY <1>1 DEF TopupLoad
    <2>2. l.pc = "topup" /\ l.does = "topup" /\ ~l.dirty
      BY <2>1 DEF Idle
    <2> QED
      BY <2>1, <2>2, Loads, NothingWritten DEF CheckoutCalls
  <1>2. ASSUME NEW u \in Users, NEW i \in ItemIds, NEW q \in Quantities, AddLoad(Me, u, i, q)
        PROVE  Underway' /\ Allowed
    <2>1. PICK l : /\ Goes(Me, l) /\ UNCHANGED db
                   /\ l = [Idle EXCEPT !.pc = "add", !.does = "cart", !.user = u, !.id = i,
                                       !.n = q, !.batch = RowsOf(u)]
      BY <1>2 DEF AddLoad
    <2>2. l.pc = "add" /\ l.does = "cart" /\ l.n = q /\ ~l.dirty
      BY <2>1 DEF Idle
    <2>3. Mine' = l /\ pre' = db' /\ Allowed
      BY <2>1, <2>2, Loads
    <2> QED
      BY <2>2, <2>3 DEF Underway, Asked, Visiting, HalfOrdered, HalfPaid, HalfCancelled,
         HalfRemoved, HalfOnSale
  <1>3. ASSUME NEW u \in Users, NEW r \in RowIds, NEW q \in Quantities \cup {0},
               CartEditLoad(Me, u, r, q)
        PROVE  Underway' /\ Allowed
    <2>1. CASE Answers(Me, "failure")
      BY <1>3, <2>1, Refuses, Idles DEF CartEditLoad, Idle
    <2>2. CASE ~Answers(Me, "failure")
      <3>1. PICK l : /\ Goes(Me, l) /\ UNCHANGED db
                     /\ l = [Idle EXCEPT !.pc = "cart_edit", !.does = "cart", !.user = u,
                                         !.id = r, !.n = q, !.batch = RowsOf(u)]
        BY <1>3, <2>2 DEF CartEditLoad
      <3>2. l.pc = "cart_edit" /\ l.does = "cart" /\ l.n = q /\ ~l.dirty
        BY <3>1 DEF Idle
      <3>3. Mine' = l /\ pre' = db' /\ Allowed
        BY <3>1, <3>2, Loads
      <3> QED
        BY <3>2, <3>3 DEF Underway, Asked, Visiting, HalfOrdered, HalfPaid, HalfCancelled,
           HalfRemoved, HalfOnSale
    <2> QED
      BY <2>1, <2>2
  <1>4. ASSUME NEW sought, ShowLoad(Me, sought)
        PROVE  Underway' /\ Allowed
    <2>1. PICK l : /\ Goes(Me, l) /\ UNCHANGED db
                   /\ l = [Idle EXCEPT !.pc = "show", !.does = "show", !.todo = sought]
      BY <1>4 DEF ShowLoad
    <2>2. l.pc = "show" /\ l.does = "show" /\ ~l.dirty
      BY <2>1 DEF Idle
    <2> QED
      BY <2>1, <2>2, Loads, NothingWritten DEF CheckoutCalls
  <1>5. ASSUME NEW u \in Users, CheckoutLoad(Me, u)
        PROVE  Underway' /\ Allowed
    <2>1. PICK l : /\ Goes(Me, l) /\ UNCHANGED db
                   /\ l = [Idle EXCEPT !.pc = "row", !.does = "checkout", !.user = u,
                                       !.batch = RowsOf(u)]
      BY <1>5 DEF CheckoutLoad
    <2>2. /\ l.pc = "row" /\ l.does = "checkout" /\ l.user = u /\ l.batch = RowsOf(u)
          /\ l.ok = TRUE /\ ~l.dirty
      BY <2>1 DEF Idle
    <2>3. Mine' = l /\ up' = up /\ reply' = reply
      BY <2>1, MyFacts, MyStep
    <2>4. pre' = db' /\ pre' = pre
      BY <2>1, <2>2, <2>3, Idles DEF Hides
    <2>5. \A r \in DOMAIN l.batch : r \in DOMAIN pre[4] /\ pre[4][r] = l.batch[r]
      BY <2>2, Idles DEF RowsOf, Keep
    <2>6. Underway'
      BY <2>2, <2>3, <2>4, <2>5 DEF Underway, Asked, Visiting, HalfOrdered, HalfPaid,
         HalfCancelled, HalfRemoved, HalfOnSale
    <2>7. M!RowsOf(u) = DOMAIN RowsOf(u)
      BY Idles DEF M!RowsOf, RowsOf, Keep
    <2>8. pre[6] + Cardinality(M!RowsOf(u)) <= MaxOrders
      <3>1. lastOrder + OrdersComing + Cardinality(DOMAIN RowsOf(u)) <= MaxOrders
        BY <1>5 DEF CheckoutLoad
      <3>2. lastOrder \in Nat /\ OrdersComing \in Nat
        <4>1. \A t \in Threads : ToOrder(th[t]) \subseteq RowIds
          BY PlacedToOrder DEF Serial, AsAlone, Base, Bounded
        <4>2. Cardinality(Pairs(th)) \in Nat
          BY <4>1, PairsFinite
        <4>3. OrdersComing = Cardinality(Pairs(th))
          BY DEF OrdersComing, Pairs
        <4>4. lastOrder \in Nat
          BY MyFacts DEF Ids
        <4> QED
          BY <4>2, <4>3, <4>4
      <3>3. Cardinality(DOMAIN RowsOf(u)) \in Nat
        <4>1. DOMAIN RowsOf(u) \subseteq DOMAIN carts
          BY DEF RowsOf, Keep
        <4>2. DOMAIN carts \subseteq 1 .. lastRow /\ lastRow \in Int
          BY MyFacts DEF Ids
        <4>3. IsFiniteSet(1 .. lastRow)
          BY <4>2, FS_Interval
        <4>4. IsFiniteSet(DOMAIN RowsOf(u))
          BY <4>1, <4>2, <4>3, FS_Subset
        <4> QED
          BY <4>4, FS_CardinalityType
      <3> QED
        <4>1. lastOrder + Cardinality(DOMAIN RowsOf(u)) <= MaxOrders
          BY <3>1, <3>2, <3>3, BoundsAssumption
        <4>2. lastOrder = pre[6]
          BY Idles
        <4> QED
          BY <4>1, <4>2, <2>7
    <2>9. ~CheckingOut /\ CheckingOut' /\ th'[Me].user = u /\ th'[Me].ok = TRUE
          /\ DOMAIN th'[Me].batch = M!RowsOf(u)
      BY <2>2, <2>3, <2>7, Idles DEF CheckingOut, Mine
    <2>10. up /\ UNCHANGED <<M!db, up>>
      BY <2>3, <2>4, Idles DEF M!db
    <2>11. M!CheckoutStart(u)
      BY <2>8, <2>9, <2>10, SameCount DEF M!CheckoutStart, M!Ready, Nobody, M!Nobody
    <2> QED
      BY <2>6, <2>11 DEF Allowed, M!Next, M!CustomerNext
  <1> QED
    BY <1>1, <1>2, <1>3, <1>4, <1>5 DEF CustomerStart, CartShow, OrdersShow

LEMMA SellerAllowed ==
  ASSUME Serial, Hides, At(Me, "idle"), SellerStart(Me)
  PROVE  Underway' /\ Allowed
  <1> USE Idles
  <1>0. ~Mine.dirty
    BY DEF Idle
  <1>1. ASSUME NEW s \in Sellers, NEW price \in Prices, NEW type \in Types,
               SellerAdd(Me, s, price, type)
        PROVE  Underway' /\ Allowed
    <2>1. Mine' = Idle /\ up' = up /\ reply' = "success"
      BY <1>1, MyFacts, MyStep DEF SellerAdd
    <2>2. pre' = db'
      BY <2>1 DEF Hides, Idle
    <2>3. M!SellerAdd(s, price, type)
      <3>1. M!Ready /\ M!Answer("success")
        BY <2>1, MarketAnswers
      <3>2. /\ pre[5] < MaxItems
            /\ pre'[2] = Put(pre[2], pre[5] + 1, NewItem(s, price, type))
            /\ pre'[5] = pre[5] + 1
            /\ pre'[1] = pre[1] /\ pre'[3] = pre[3] /\ pre'[4] = pre[4]
            /\ pre'[6] = pre[6] /\ pre'[7] = pre[7]
        BY <1>1, <2>2 DEF SellerAdd, db
      <3> QED
        BY <3>1, <3>2 DEF M!SellerAdd, M!Put, Put, M!NewItem, NewItem, M!NoDiscount, NoDiscount
    <2> QED
      BY <2>1, <2>2, <2>3, IdleUnderway DEF Allowed, M!Next, M!SellerNext
  <1>2. ASSUME NEW s \in Sellers, NEW type \in Types, NEW discount \in Discounts,
               SellerSaleLoad(Me, s, type, discount)
        PROVE  Underway' /\ Allowed
    <2> DEFINE chosen == Keep(items, {i \in DOMAIN items :
                                        items[i].seller = s /\ items[i].type = type})
    <2>1. CASE Down
      BY <1>0, <1>2, <2>1, Refuses DEF SellerSaleLoad
    <2>2. CASE ~Down
      <3>1. PICK l : /\ Goes(Me, l) /\ UNCHANGED db
                     /\ l = [Idle EXCEPT !.pc = "sale", !.does = "sale", !.n = discount,
                                         !.batch = chosen]
                     /\ ~(chosen # Empty /\ type \notin LegalTypes)
        BY <1>2, <2>2 DEF SellerSaleLoad
      <3>2. l.pc = "sale" /\ l.does = "sale" /\ l.n = discount /\ l.batch = chosen
            /\ ~l.dirty
        BY <3>1 DEF Idle
      <3>3. Mine' = l /\ pre' = db' /\ pre' = pre /\ Allowed
        BY <3>1, <3>2, Loads
      <3>4. DOMAIN l.batch = Chosen(s, type)
        BY <3>2 DEF Chosen, Keep
      <3>5. Chosen(s, type) # {} => type \in LegalTypes
        BY <3>1, <3>2, <3>4 DEF Empty
      <3>6. items = [i \in DOMAIN pre[2] |->
                       IF i \in Chosen(s, type) \ DOMAIN l.batch
                         THEN [pre[2][i] EXCEPT !.discount = l.n] ELSE pre[2][i]]
        <4>1. items = [i \in DOMAIN items |-> items[i]]
          BY MyFacts DEF TablesSound
        <4> QED
          BY <3>4, <4>1
      <3>7. HalfOnSale'
        <4>1. Chosen(s, type)' = Chosen(s, type)
          BY <3>3 DEF Chosen
        <4>2. RestStays' /\ balance' = pre'[1] /\ items' = items
          BY <3>1, <3>3 DEF RestStays, db
        <4> QED
          BY <3>2, <3>3, <3>4, <3>5, <3>6, <4>1, <4>2 DEF HalfOnSale
      <3> QED
        BY <3>2, <3>3, <3>7 DEF Underway, Asked, Visiting, HalfOrdered, HalfPaid,
           HalfCancelled, HalfRemoved
    <2> QED
      BY <2>1, <2>2
  <1>3. ASSUME NEW is, ListItems(Me, is)
        PROVE  Underway' /\ Allowed
    BY <1>0, <1>3, Refuses DEF ListItems
  <1> QED
    BY <1>1, <1>2, <1>3 DEF SellerStart

LEMMA AnyoneAllowed ==
  ASSUME Serial, Hides, At(Me, "idle"), AnyoneStart(Me)
  PROVE  Underway' /\ Allowed
  <1> USE Idles
  <1>0. ~Mine.dirty
    BY DEF Idle
  <1>1. ASSUME NEW o \in OrderIds, PayLoad(Me, o) \/ CancelLoad(Me, o)
        PROVE  Underway' /\ Allowed
    <2>1. CASE Down \/ Answers(Me, "failure")
      BY <1>0, <1>1, <2>1, Refuses DEF PayLoad, CancelLoad
    <2>2. CASE ~(Down \/ Answers(Me, "failure"))
      <3>1. PICK l : /\ Goes(Me, l) /\ UNCHANGED db
                     /\ \/ l = [Idle EXCEPT !.pc = "customer", !.does = "pay", !.id = o,
                                            !.order = Copy(orders, o)]
                        \/ l = [Idle EXCEPT !.pc = "reload", !.does = "cancel", !.id = o,
                                            !.order = Copy(orders, o)]
        BY <1>1, <2>2 DEF PayLoad, CancelLoad
      <3>2. /\ l.pc \in {"customer", "reload"} /\ l.does \in {"pay", "cancel"}
            /\ ~l.dirty
        BY <3>1 DEF Idle
      <3>3. Mine' = l /\ pre' = db' /\ Allowed
        BY <3>1, <3>2, Loads
      <3> QED
        BY <3>2, <3>3, NothingWritten DEF CheckoutCalls
    <2> QED
      BY <2>1, <2>2
  <1>2. ASSUME NEW i \in ItemIds, SellerRemoveLoad(Me, i)
        PROVE  Underway' /\ Allowed
    <2>1. CASE Down
      BY <1>0, <1>2, <2>1, Refuses DEF SellerRemoveLoad
    <2>2. CASE ~Down
      <3>1. PICK l : /\ Goes(Me, l) /\ UNCHANGED db /\ CopyItem(i) # {}
                     /\ l = [Idle EXCEPT !.pc = "uncart", !.does = "remove", !.id = i]
        BY <1>2, <2>2 DEF SellerRemoveLoad
      <3>2. l.pc = "uncart" /\ l.does = "remove" /\ l.id = i /\ ~l.dirty
        BY <3>1 DEF Idle
      <3>3. Mine' = l /\ pre' = db' /\ Allowed
        BY <3>1, <3>2, Loads
      <3>4. Readable(items', i)
        BY <3>1 DEF CopyItem, Copy, Readable, db
      <3> QED
        BY <3>2, <3>3, <3>4 DEF Underway, Asked, Visiting, HalfOrdered, HalfPaid,
           HalfCancelled, HalfRemoved, HalfOnSale
    <2> QED
      BY <2>1, <2>2
  <1>3. ASSUME NEW i \in ItemIds, NEW stock \in Stocks,
               NEW price, NEW type \in Types \cup {it.type : it \in Copy(items, i)},
               SellerEditLoad(Me, i, price, type, stock)
        PROVE  Underway' /\ Allowed
    <2>1. CASE Down \/ Answers(Me, "failure")
      BY <1>0, <1>3, <2>1, Refuses DEF SellerEditLoad
    <2>2. CASE ~(Down \/ Answers(Me, "failure"))
      <3> DEFINE it == CopyItem(i)
      <3>1. PICK l : /\ Goes(Me, l) /\ UNCHANGED db
                     /\ it # {} /\ AsSize(stock) >= The(it).frozen
                     /\ l = [Idle EXCEPT !.pc = "edit", !.does = "edit", !.id = i,
                                         !.n = price, !.type = type, !.item = it]
        BY <1>3, <2>2 DEF SellerEditLoad
      <3>2. /\ l.pc = "edit" /\ l.does = "edit" /\ l.id = i /\ l.type = type
            /\ ~l.dirty
        BY <3>1 DEF Idle
      <3>3. Mine' = l /\ pre' = db' /\ Allowed
        BY <3>1, <3>2, Loads
      <3>4. Readable(items, i) /\ The(it) = items[i]
        BY <3>1, TheIn DEF CopyItem, Copy, Readable
      <3>5. type \in Types \cup {items[i].type}
        BY DEF Copy
      <3>6. Readable(items', i) /\ type \in Types \cup {items'[i].type}
            /\ AsSize(stock) >= items'[i].frozen
        BY <3>1, <3>4, <3>5 DEF db
      <3> QED
        BY <3>2, <3>3, <3>6 DEF Underway, Asked, Visiting, HalfOrdered, HalfPaid,
           HalfCancelled, HalfRemoved, HalfOnSale
    <2> QED
      BY <2>1, <2>2
  <1>4. ASSUME \/ \E i : SellerEditInvalid(Me, i)
               \/ \E is : ListItems(Me, is)
               \/ WalletShow(Me) \/ InvalidInput(Me)
        PROVE  Underway' /\ Allowed
    BY <1>0, <1>4, Refuses DEF SellerEditInvalid, ListItems, WalletShow, InvalidInput
  <1> QED
    BY <1>1, <1>2, <1>3, <1>4 DEF AnyoneStart

-----------------------------------------------------------------------------
(* Requests go on: the wallet and the cart *)

\* While nothing is half written the tables are those Market sees.
LEMMA Shown ==
  ASSUME Serial, ~Mine.dirty
  PROVE  /\ pre = db
         /\ balance = pre[1] /\ items = pre[2] /\ orders = pre[3] /\ carts = pre[4]
         /\ lastItem = pre[5] /\ lastOrder = pre[6] /\ lastRow = pre[7]
  BY DEF Serial, Underway, db

\* The last call of a request that is no checkout, and its answer.
LEMMA Concludes ==
  ASSUME Serial, Hides, up, Mine.does # "checkout", NEW r, Answers(Me, r)
  PROVE  /\ pre' = db' /\ Underway' /\ M!Ready /\ M!Answer(r)
         /\ pre'[1] = balance' /\ pre'[2] = items' /\ pre'[3] = orders' /\ pre'[4] = carts'
         /\ pre'[5] = lastItem' /\ pre'[6] = lastOrder' /\ pre'[7] = lastRow'
  <1>1. Mine' = Idle /\ up' = up /\ reply' = r
    BY MyFacts, MyStep
  <1>2. pre' = db'
    BY <1>1 DEF Hides, Idle
  <1> QED
    BY <1>1, <1>2, MarketAnswers, IdleUnderway DEF db

\* A request that goes on to a call of which nothing need be known, without having
\* written.
LEMMA ReadsOn ==
  ASSUME Serial, Hides, up, Mine.does # "checkout", ~Mine.dirty, UNCHANGED db,
         NEW l, Goes(Me, l), ~l.dirty, l.does # "checkout"
  PROVE  Mine' = l /\ pre' = db' /\ pre' = pre /\ Allowed
  <1>1. Mine' = l /\ up' = up /\ reply' = reply
    BY MyFacts, MyStep
  <1>2. pre' = db' /\ pre' = pre
    BY <1>1, Shown DEF Hides
  <1> QED
    BY <1>1, <1>2, Unseen

\* The loops and cart::add take the row with the least id.
LEMMA FirstIsLeast ==
  ASSUME NEW f, DOMAIN f \subseteq Nat, f # Empty, f = [x \in DOMAIN f |-> f[x]]
  PROVE  FirstOf(f) \in DOMAIN f /\ \A k \in DOMAIN f : FirstOf(f) <= k
  <1>1. \E k \in DOMAIN f : \A j \in DOMAIN f : k <= j
    BY FirstLeft, LeastNatural
  <1> QED
    BY <1>1 DEF FirstOf

LEMMA TopupAllowed ==
  ASSUME Serial, Hides, TopupStore(Me), WithinBound'
  PROVE  Underway' /\ Allowed
  <1>1. /\ Mine.pc = "topup" /\ Mine.does = "topup" /\ ~Mine.dirty /\ up
        /\ Mine.user \in Users /\ Mine.n \in Topups /\ Mine.cust = balance[Mine.user]
    BY MyFacts DEF TopupStore, At, Mine, Serves, Accurate, Sound, PaymentSound, Serial, Underway
  <1>2. balance' = [balance EXCEPT ![Mine.user] = Mine.cust + Mine.n] /\ OnlyBalance
        /\ Answers(Me, "success")
    BY DEF TopupStore, Mine
  <1>3. M!Bounded(pre'[1])
    BY <1>1, <1>2, Concludes DEF WithinBound, M!Bounded
  <1>4. /\ pre'[1] = [pre[1] EXCEPT ![Mine.user] = @ + Mine.n]
        /\ pre'[2] = pre[2] /\ pre'[3] = pre[3] /\ pre'[4] = pre[4]
        /\ pre'[5] = pre[5] /\ pre'[6] = pre[6] /\ pre'[7] = pre[7]
    BY <1>1, <1>2, Shown, Concludes DEF OnlyBalance
  <1>5. M!WalletTopup(Mine.user, Mine.n)
    BY <1>1, <1>2, <1>3, <1>4, Concludes DEF M!WalletTopup
  <1> QED
    BY <1>1, <1>2, <1>5, Concludes DEF Allowed, M!Next, M!CustomerNext

LEMMA AddAllowed ==
  ASSUME Serial, AsAlone', Hides, AddStore(Me)
  PROVE  Underway' /\ Allowed
  <1> DEFINE l == Mine
             same == Keep(l.batch, {r \in DOMAIN l.batch : l.batch[r].item = l.id})
             r == FirstOf(same)
  <1>1. /\ l.pc = "add" /\ l.does = "cart" /\ ~l.dirty /\ up
        /\ l.user \in Users /\ l.id \in ItemIds /\ l.n \in Quantities
        /\ l.batch = RowsOf(l.user)
    BY MyFacts DEF AddStore, At, Mine, Serves, Accurate, Sound, RequestSound, Serial, Underway,
       Asked
  <1>2. /\ IF same = Empty
             THEN /\ carts' = Put(carts, lastRow + 1, CartRow(l.user, l.id, l.n))
                  /\ lastRow' = lastRow + 1
             ELSE /\ carts' = Write(carts, r, [same[r] EXCEPT !.quantity = SizeAdd(@, l.n)])
                  /\ UNCHANGED lastRow
        /\ OnlyCarts /\ Answers(Me, "success")
    BY DEF AddStore, Mine
  <1>3. /\ pre'[1] = pre[1] /\ pre'[2] = pre[2] /\ pre'[3] = pre[3]
        /\ pre'[5] = pre[5] /\ pre'[6] = pre[6]
        /\ pre'[4] = carts' /\ pre'[7] = lastRow' /\ pre[4] = carts /\ pre[7] = lastRow
    BY <1>1, <1>2, Shown, Concludes DEF OnlyCarts
  <1>4. /\ DOMAIN same = M!RowsFor(l.user, l.id)
        /\ \A x \in DOMAIN same : x \in DOMAIN carts /\ same[x] = carts[x]
    BY <1>1, <1>3 DEF M!RowsFor, M!RowsOf, RowsOf, Keep
  <1>5. same = [x \in DOMAIN same |-> same[x]] /\ DOMAIN same \subseteq Nat
    BY <1>1, MyFacts DEF Keep, Sound, CopiesSound
  <1> HIDE DEF l, same, r
  <1>6. M!AddRow(l.user, l.id, l.n)
    <2>1. CASE same = Empty
      <3>1. M!RowsFor(l.user, l.id) = {}
        BY <1>4, <2>1 DEF Empty
      <3>2. lastRow < MaxRows
        <4>1. \E n \in Nat : lastRow' + n <= MaxRows
          <5>1. Bounded'
            BY DEF Serial, AsAlone, Base
          <5>2. Cardinality(Adding(th')) \in Nat
            BY <5>1, AddingChanges, OneThread DEF Bounded
          <5> QED
            BY <5>1, <5>2 DEF Bounded, RowsComing, Adding
        <4>2. lastRow \in Nat /\ lastRow' = lastRow + 1
          BY <1>2, <2>1, MyFacts DEF Ids
        <4> QED
          BY <4>1, <4>2, BoundsAssumption
      <3> QED
        BY <1>2, <1>3, <2>1, <3>1, <3>2
        DEF M!AddRow, M!Put, Put, M!CartRow, CartRow
    <2>2. CASE same # Empty
      <3>1. r \in DOMAIN same /\ \A s \in DOMAIN same : r <= s
        BY <1>5, <2>2, FirstIsLeast DEF r
      <3>2. carts' = [carts EXCEPT ![r].quantity = SizeAdd(@, l.n)]
        BY <1>2, <1>4, <2>2, <3>1 DEF Write
      <3>3. pre'[4] = [pre[4] EXCEPT ![r].quantity = M!SizeAdd(@, l.n)]
        BY <1>3, <3>2 DEF M!SizeAdd, SizeAdd
      <3>4. r \in M!RowsFor(l.user, l.id) /\ \A s \in M!RowsFor(l.user, l.id) : r <= s
        BY <1>4, <3>1
      <3>5. UNCHANGED pre[7]
        BY <1>2, <1>3, <2>2
      <3> QED
        BY <3>3, <3>4, <3>5 DEF M!AddRow
    <2> QED
      BY <2>1, <2>2
  <1>7. M!AddToCart(l.user, l.id, l.n)
    BY <1>1, <1>2, <1>3, <1>6, Concludes DEF M!AddToCart, l
  <1> QED
    BY <1>1, <1>2, <1>7, Concludes DEF Allowed, M!Next, M!CustomerNext, M!ItemIds, ItemIds, l

LEMMA CartEditAllowed ==
  ASSUME Serial, Hides, CartEditStore(Me)
  PROVE  Underway' /\ Allowed
  <1> DEFINE l == Mine
  <1>1. /\ l.pc = "cart_edit" /\ l.does = "cart" /\ ~l.dirty /\ up
        /\ l.user \in Users /\ l.n \in Quantities \cup {0}
        /\ l.id \in DOMAIN l.batch /\ l.batch = RowsOf(l.user)
    BY MyFacts DEF CartEditStore, At, Mine, Serves, Accurate, Sound, RequestSound, Serial,
       Underway, Asked
  <1>2. /\ carts' = IF l.n = 0 THEN Without(carts, l.id)
                    ELSE Write(carts, l.id, [l.batch[l.id] EXCEPT !.quantity = l.n])
        /\ OnlyCarts /\ UNCHANGED lastRow /\ Answers(Me, "success")
    BY DEF CartEditStore, Mine
  <1>3. /\ pre'[1] = pre[1] /\ pre'[2] = pre[2] /\ pre'[3] = pre[3]
        /\ pre'[5] = pre[5] /\ pre'[6] = pre[6] /\ pre'[7] = pre[7]
        /\ pre'[4] = carts' /\ pre[4] = carts
    BY <1>1, <1>2, Shown, Concludes DEF OnlyCarts
  <1>4. l.id \in M!RowsOf(l.user) /\ l.id \in DOMAIN carts /\ l.batch[l.id] = carts[l.id]
    BY <1>1, <1>3 DEF M!RowsOf, RowsOf, Keep
  <1>5. l.id \in M!RowIds
    <2>1. lastRow + RowsComing <= MaxRows /\ RowsComing \in Nat /\ lastRow \in Nat
      <3>1. Cardinality(Adding(th)) \in Nat
        BY MyFacts, AddingChanges, OneThread
      <3> QED
        BY <3>1 DEF Serial, AsAlone, Base, Bounded, RowsComing, Adding
    <2>2. lastRow <= MaxRows /\ lastRow \in Nat
      BY <2>1, BoundsAssumption
    <2>3. DOMAIN carts \subseteq 1 .. lastRow
      BY MyFacts DEF Ids
    <2> QED
      BY <1>4, <2>2, <2>3, BoundsAssumption DEF M!RowIds
  <1> HIDE DEF l
  <1>6. carts' = IF l.n = 0 THEN Keep(carts, DOMAIN carts \ {l.id})
                 ELSE [carts EXCEPT ![l.id].quantity = l.n]
    BY <1>2, <1>4 DEF Without, Write
  <1>7. M!CartEdit(l.user, l.id, l.n)
    BY <1>1, <1>2, <1>3, <1>4, <1>6, Concludes DEF M!CartEdit, M!Keep, Keep, l
  <1>8. \/ \E r \in M!RowIds : M!CartRemove(l.user, r)
        \/ \E r \in M!RowIds, q \in Quantities : M!CartEdit(l.user, r, q)
    BY <1>1, <1>5, <1>7 DEF M!CartRemove
  <1> QED
    BY <1>1, <1>2, <1>8, Concludes DEF Allowed, M!Next, M!CustomerNext, l

LEMMA ShowAllowed ==
  ASSUME Serial, Hides, ShowNext(Me) \/ ShowDone(Me)
  PROVE  Underway' /\ Allowed
  <1>1. Mine.pc = "show" /\ up /\ UNCHANGED db
    BY DEF ShowNext, ShowDone, At, Mine, Fails
  <1>2. Mine.does # "checkout" /\ ~Mine.dirty
    <2>1. Mine.does \notin {"checkout", "pay"}
      BY <1>1, MyFacts DEF Placed, Serves, CheckoutCalls, PayCalls
    <2> QED
      BY <1>1, <2>1 DEF Serial, Underway
  <1>3. CASE Down \/ Answers(Me, "success")
    BY <1>1, <1>2, <1>3, Refuses
  <1>4. CASE ~(Down \/ Answers(Me, "success"))
    <2>1. PICK l : Goes(Me, l) /\ l = [Mine EXCEPT !.todo = Tail(@)]
      BY <1>4 DEF ShowNext, ShowDone, Fails, Mine
    <2>3. l.pc = "show" /\ l.does # "checkout" /\ ~l.dirty
      BY <1>1, <1>2, <2>1, MyFacts DEF Fields
    <2>4. Mine' = l /\ pre' = db' /\ Allowed
      BY <1>1, <1>2, <2>1, <2>3, ReadsOn
    <2> QED
      BY <2>3, <2>4, NothingWritten DEF CheckoutCalls
  <1> QED
    BY <1>3, <1>4

-----------------------------------------------------------------------------
(* Requests go on: the seller *)

LEMMA EditAllowed ==
  ASSUME Serial, Hides, EditStore(Me)
  PROVE  Underway' /\ Allowed
  <1> DEFINE l == Mine
  <1>1. /\ l.pc = "edit" /\ l.does = "edit" /\ ~l.dirty /\ up
        /\ l.id \in ItemIds /\ Readable(items, l.id) /\ l.n \in Prices
        /\ l.type \in Types \cup {items[l.id].type}
        /\ \E stock \in Stocks : AsSize(stock) >= items[l.id].frozen
        /\ l.item # {} /\ (\A it \in l.item : it = items[l.id])
    BY MyFacts DEF EditStore, At, Mine, Serves, Accurate, Sound, RequestSound, Serial, Underway,
       Asked
  <1>2. /\ items' = Write(items, l.id, [The(l.item) EXCEPT !.price = l.n, !.type = l.type])
        /\ OnlyItems /\ Answers(Me, "success")
    BY DEF EditStore, Mine
  <1>3. /\ pre'[1] = pre[1] /\ pre'[3] = pre[3] /\ pre'[4] = pre[4]
        /\ pre'[5] = pre[5] /\ pre'[6] = pre[6] /\ pre'[7] = pre[7]
        /\ pre'[2] = items' /\ pre[2] = items
    BY <1>1, <1>2, Shown, Concludes DEF OnlyItems
  <1>4. The(l.item) = items[l.id]
    BY <1>1, TheIn
  <1> HIDE DEF l
  <1>5. items' = [items EXCEPT ![l.id].price = l.n, ![l.id].type = l.type]
    <2>1. items' = [items EXCEPT ![l.id] = [items[l.id] EXCEPT !.price = l.n, !.type = l.type]]
      BY <1>1, <1>2, <1>4 DEF Write, Readable
    <2> QED
      BY <2>1
  <1>6. PICK stock \in Stocks : AsSize(stock) >= items[l.id].frozen
    BY <1>1
  <1>7. items[l.id].frozen \in Int /\ AsSize(stock) \in Int
    BY <1>1, MyFacts, SizeAssumption DEF Readable, TablesSound, Ware, Size, AsSize
  <1>8. M!SellerEdit(l.id, l.n, l.type, stock)
    <2>1. ~(AsSize(stock) < items[l.id].frozen)
      BY <1>6, <1>7
    <2> QED
      BY <1>1, <1>2, <1>3, <1>5, <2>1, Concludes
      DEF M!SellerEdit, M!Readable, Readable, M!LegalTypes, LegalTypes, M!AsSize, AsSize, l
  <1>9. M!EditNext(l.id)
    BY <1>1, <1>3, <1>8 DEF M!EditNext, Readable
  <1> QED
    BY <1>1, <1>2, <1>9, Concludes DEF Allowed, M!Next, M!ItemIds, ItemIds, l

LEMMA UncartAllowed ==
  ASSUME Serial, Hides, Uncart(Me)
  PROVE  Underway' /\ Allowed
  <1> DEFINE k == Mine
  <1>1. /\ k.pc = "uncart" /\ k.does = "remove" /\ ~k.dirty /\ up
        /\ k.id \in ItemIds /\ Readable(items, k.id)
    BY MyFacts DEF Uncart, At, Mine, Serves, Serial, Underway, Asked
  <1>2. /\ carts' = Keep(carts, {r \in DOMAIN carts : carts[r].item # k.id})
        /\ OnlyCarts /\ UNCHANGED lastRow
    BY DEF Uncart, Mine
  <1>3. PICK l : Goes(Me, l) /\ l = [k EXCEPT !.pc = "drop", !.dirty = TRUE]
    BY DEF Uncart, Mine
  <1>4. l.pc = "drop" /\ l.does = "remove" /\ l.id = k.id /\ l.dirty
    BY <1>1, <1>3, MyFacts DEF Fields
  <1>5. Mine' = l /\ up' = up /\ reply' = reply
    BY <1>3, MyFacts, MyStep
  <1>6. pre' = pre
    BY <1>4, <1>5 DEF Hides
  <1> HIDE DEF k
  <1>7. HalfRemoved'
    BY <1>1, <1>2, <1>4, <1>5, <1>6, Shown DEF HalfRemoved, OnlyCarts, k
  <1>8. Readable(items', k.id)
    BY <1>1, <1>2 DEF OnlyCarts
  <1>9. Underway'
    BY <1>1, <1>4, <1>5, <1>7, <1>8 DEF Underway, Asked, Visiting, HalfOrdered, HalfPaid,
       HalfCancelled, HalfOnSale
  <1> QED
    BY <1>1, <1>4, <1>5, <1>6, <1>9, Unseen DEF k

LEMMA DropAllowed ==
  ASSUME Serial, Hides, Drop(Me)
  PROVE  Underway' /\ Allowed
  <1> DEFINE l == Mine
  <1>1. /\ l.pc = "drop" /\ l.does = "remove" /\ up
        /\ l.id \in ItemIds /\ Readable(items, l.id) /\ HalfRemoved
    BY MyFacts DEF Drop, At, Mine, Serves, Serial, Underway, Asked
  <1>2. items' = Without(items, l.id) /\ OnlyItems /\ Answers(Me, "success")
    BY DEF Drop, Mine
  <1>3. /\ pre'[1] = pre[1] /\ pre'[3] = pre[3]
        /\ pre'[5] = pre[5] /\ pre'[6] = pre[6] /\ pre'[7] = pre[7]
        /\ pre'[2] = items' /\ pre[2] = items
        /\ pre'[4] = Keep(pre[4], {r \in DOMAIN pre[4] : pre[4][r].item # l.id})
    BY <1>1, <1>2, Concludes DEF OnlyItems, HalfRemoved
  <1>4. M!SellerRemove(l.id)
    BY <1>1, <1>2, <1>3, Concludes
    DEF M!SellerRemove, M!RowsWithoutItem, M!Readable, Readable, M!LegalTypes, LegalTypes,
        M!Keep, Keep, Without
  <1> QED
    BY <1>1, <1>2, <1>4, Concludes DEF Allowed, M!Next, M!ItemIds, ItemIds

LEMMA SaleStoreAllowed ==
  ASSUME Serial, Hides, SaleStore(Me)
  PROVE  Underway' /\ Allowed
  <1> DEFINE k == Mine
             i == FirstOf(k.batch)
  <1>1. k.pc = "sale" /\ k.does = "sale" /\ up /\ HalfOnSale /\ k.batch # Empty
    BY MyFacts DEF SaleStore, At, Mine, Serves, Serial, Underway
  <1>2. /\ items' = Write(items, i, [k.batch[i] EXCEPT !.discount = k.n])
        /\ OnlyItems
    BY DEF SaleStore, Mine
  <1>3. PICK l : /\ Goes(Me, l)
                 /\ l = [k EXCEPT !.batch = Without(@, i), !.dirty = TRUE]
    BY DEF SaleStore, Mine
  <1>4. l.pc = "sale" /\ l.does = "sale" /\ l.n = k.n /\ l.batch = Without(k.batch, i) /\ l.dirty
    BY <1>1, <1>3, MyFacts DEF Fields
  <1>5. Mine' = l /\ up' = up /\ reply' = reply
    BY <1>3, MyFacts, MyStep
  <1>6. pre' = pre
    BY <1>4, <1>5 DEF Hides
  <1>7. i \in DOMAIN k.batch
    BY <1>1, MyFacts, FirstIsLeast DEF Sound, CopiesSound
  <1>8. i \in DOMAIN items /\ k.batch[i] = items[i]
    BY <1>1, <1>7, MyFacts DEF Accurate
  <1>9. DOMAIN l.batch = DOMAIN k.batch \ {i}
    BY <1>4 DEF Without, Keep
  <1>10. PICK s \in Sellers, type \in Types :
           /\ DOMAIN k.batch \subseteq Chosen(s, type)
           /\ Chosen(s, type) # {} => type \in LegalTypes
           /\ items = [x \in DOMAIN pre[2] |->
                         IF x \in Chosen(s, type) \ DOMAIN k.batch
                           THEN [pre[2][x] EXCEPT !.discount = k.n] ELSE pre[2][x]]
    BY <1>1 DEF HalfOnSale
  <1> HIDE DEF k, i
  <1>11. items' = [items EXCEPT ![i] = [items[i] EXCEPT !.discount = k.n]]
    BY <1>2, <1>8 DEF Write
  <1>12. items' = [x \in DOMAIN pre[2] |->
                     IF x \in Chosen(s, type) \ DOMAIN l.batch
                       THEN [pre[2][x] EXCEPT !.discount = l.n] ELSE pre[2][x]]
    <2>1. DOMAIN items' = DOMAIN pre[2] /\ i \in DOMAIN pre[2]
      BY <1>8, <1>10, <1>11
    <2>2. items[i] = pre[2][i]
      BY <1>7, <1>10, <2>1
    <2>3. ASSUME NEW x \in DOMAIN pre[2]
          PROVE  items'[x] = IF x \in Chosen(s, type) \ DOMAIN l.batch
                               THEN [pre[2][x] EXCEPT !.discount = l.n] ELSE pre[2][x]
      <3>1. CASE x = i
        BY <1>4, <1>7, <1>8, <1>9, <1>10, <1>11, <2>2, <3>1
      <3>2. CASE x # i
        BY <1>4, <1>9, <1>10, <1>11, <3>2
      <3> QED
        BY <3>1, <3>2
    <2>4. items' = [x \in DOMAIN items' |-> items'[x]]
      BY <1>11
    <2> QED
      BY <2>1, <2>3, <2>4
  <1>13. HalfOnSale'
    <2>1. Chosen(s, type)' = Chosen(s, type)
      BY <1>6 DEF Chosen
    <2>2. RestStays' /\ balance' = pre'[1]
      BY <1>1, <1>2, <1>6 DEF RestStays, OnlyItems, HalfOnSale, k
    <2>3. DOMAIN Mine'.batch \subseteq Chosen(s, type)'
          /\ (Chosen(s, type)' # {} => type \in LegalTypes)
      BY <1>5, <1>9, <1>10, <2>1
    <2>4. items' = [x \in DOMAIN pre'[2] |->
                     IF x \in Chosen(s, type)' \ DOMAIN Mine'.batch
                       THEN [pre'[2][x] EXCEPT !.discount = Mine'.n] ELSE pre'[2][x]]
      BY <1>5, <1>6, <1>12, <2>1
    <2> QED
      BY <2>1, <2>2, <2>3, <2>4 DEF HalfOnSale
  <1>14. Underway'
    BY <1>4, <1>5, <1>13 DEF Underway, Asked, Visiting, HalfOrdered, HalfPaid,
       HalfCancelled, HalfRemoved
  <1> QED
    BY <1>1, <1>4, <1>5, <1>6, <1>14, Unseen DEF k

LEMMA SaleDoneAllowed ==
  ASSUME Serial, Hides, SaleDone(Me)
  PROVE  Underway' /\ Allowed
  <1> DEFINE l == Mine
  <1>1. /\ l.pc = "sale" /\ l.does = "sale" /\ up /\ HalfOnSale /\ l.batch = Empty
        /\ l.n \in Discounts
    BY MyFacts DEF SaleDone, At, Mine, Serves, Sound, RequestSound, Serial, Underway
  <1>2. UNCHANGED db /\ Answers(Me, "success")
    BY DEF SaleDone, Mine
  <1>3. /\ pre'[1] = pre[1] /\ pre'[3] = pre[3] /\ pre'[4] = pre[4]
        /\ pre'[5] = pre[5] /\ pre'[6] = pre[6] /\ pre'[7] = pre[7]
        /\ pre'[2] = items
    BY <1>1, <1>2, Concludes DEF RestStays, HalfOnSale, db
  <1>4. PICK s \in Sellers, type \in Types :
          /\ Chosen(s, type) # {} => type \in LegalTypes
          /\ items = [i \in DOMAIN pre[2] |->
                        IF i \in Chosen(s, type)
                          THEN [pre[2][i] EXCEPT !.discount = l.n] ELSE pre[2][i]]
    BY <1>1 DEF HalfOnSale, Empty
  <1> HIDE DEF l
  <1> DEFINE chosen == {i \in M!ItemsOf(s) : pre[2][i].type = type}
  <1>5. chosen = Chosen(s, type)
    BY DEF M!ItemsOf, Chosen
  <1>6. \A i \in chosen : M!Readable(pre[2], i)
    BY <1>4, <1>5 DEF Chosen, M!Readable, LegalTypes, M!LegalTypes
  <1>7. pre'[2] = [i \in DOMAIN pre[2] |->
                     IF i \in chosen THEN [pre[2][i] EXCEPT !.discount = l.n] ELSE pre[2][i]]
    BY <1>3, <1>4, <1>5
  <1> HIDE DEF chosen
  <1>8. M!SellerSale(s, type, l.n)
    BY <1>1, <1>2, <1>3, <1>6, <1>7, Concludes DEF M!SellerSale, chosen, l
  <1> QED
    BY <1>1, <1>2, <1>8, Concludes DEF Allowed, M!Next, M!SellerNext, l

-----------------------------------------------------------------------------
(* The loop of a checkout *)

\* What Underway comes to in the loop.
LEMMA UnderwayInLoop ==
  ASSUME Mine'.pc \in CheckoutCalls, Mine'.does = "checkout", ~Mine'.dirty => pre' = db',
         Mine'.dirty => Mine'.pc \in {"insert", "unrow"}, Visiting', HalfOrdered'
  PROVE  Underway'
  BY DEF Underway, Asked, HalfPaid, HalfCancelled, HalfRemoved, HalfOnSale, CheckoutCalls

\* What every call of the loop may rely on.
LEMMA LoopFacts ==
  ASSUME Serial, up, Mine.pc \in CheckoutCalls
  PROVE  /\ Mine.does = "checkout" /\ DOMAIN Mine = Fields
         /\ Mine.user \in Users /\ Mine.user # Nobody
         /\ Visiting /\ HalfOrdered
         /\ Mine.dirty => Mine.pc \in {"insert", "unrow"}
         /\ Mine.pc # "row" =>
              /\ Mine.id \in DOMAIN Mine.batch /\ Row1 \in Row
              /\ Row1.quantity \in Size /\ Mine.id \in DOMAIN pre[4] /\ pre[4][Mine.id] = Row1
  <1>1. Mine.does = "checkout" /\ DOMAIN Mine = Fields
    BY MyFacts DEF Placed
  <1>2. Mine.user \in Users /\ Mine.user # Nobody
    BY MyFacts, UsersAssumption DEF Sound, RequestSound, Nobody
  <1>3. Visiting /\ HalfOrdered /\ (Mine.dirty => Mine.pc \in {"insert", "unrow"})
    BY <1>1 DEF Serial, Underway, CheckoutCalls
  <1>4. ASSUME Mine.pc # "row"
        PROVE  /\ Mine.id \in DOMAIN Mine.batch /\ Row1 \in Row
               /\ Row1.quantity \in Size /\ Mine.id \in DOMAIN pre[4] /\ pre[4][Mine.id] = Row1
    <2>1. Mine.id \in DOMAIN Mine.batch
      BY <1>4, MyFacts DEF Placed
    <2>2. Row1 \in Row
      BY <2>1, MyFacts DEF Sound, RequestSound, Row1
    <2> QED
      BY <1>1, <1>3, <2>1, <2>2 DEF Visiting, Row1, Row
  <1> QED
    BY <1>1, <1>2, <1>3, <1>4

\* A call of the loop that writes nothing Market sees.
LEMMA LoopGoes ==
  ASSUME Serial, Hides, up, Mine.does = "checkout",
         NEW l, Goes(Me, l), l.does = "checkout", l.user = Mine.user,
         DOMAIN l.batch = DOMAIN Mine.batch, l.ok = Mine.ok,
         l.dirty \/ (~Mine.dirty /\ UNCHANGED db)
  PROVE  Mine' = l /\ pre' = pre /\ Allowed
  <1>1. Mine' = l /\ up' = up
    BY MyFacts, MyStep
  <1>2. pre' = pre
    BY <1>1, Shown DEF Hides
  <1> QED
    BY <1>1, <1>2, UnseenInLoop

\* A call of the loop that finds nothing to read ends the process.
LEMMA LoopFails ==
  ASSUME Serial, Hides, up, ~Mine.dirty, UNCHANGED db, Down
  PROVE  Underway' /\ Allowed
  <1>1. Mine' = Idle /\ up' = FALSE /\ reply' = "none"
    BY MyFacts, MyStep
  <1>2. pre' = db' /\ pre' = pre
    BY <1>1, Shown DEF Hides, Idle
  <1> QED
    BY <1>1, <1>2, IdleUnderway, CrashesOnly

LEMMA RowAllowed ==
  ASSUME Serial, Hides, CheckoutRow(Me)
  PROVE  Underway' /\ Allowed
  <1> DEFINE k == Mine
             r == FirstOf(k.batch)
             it == CopyItem(k.batch[r].item)
  <1> USE DEF CheckoutCalls
  <1>1. k.pc = "row" /\ up /\ k.batch # Empty /\ UNCHANGED db
    BY DEF CheckoutRow, At, Mine, Fails
  <1>2. k.does = "checkout" /\ DOMAIN k = Fields /\ Visiting /\ ~k.dirty
    BY <1>1, LoopFacts
  <1>3. CASE Down
    BY <1>1, <1>2, <1>3, LoopFails
  <1>4. CASE ~Down
    <2>1. PICK l : /\ Goes(Me, l) /\ it # {}
                   /\ l = [k EXCEPT !.pc = "create", !.id = r,
                             !.order = {NewOrder(k.user, k.batch[r], The(it))}]
      BY <1>4 DEF CheckoutRow, Fails, Mine
    <2>2. /\ l.pc = "create" /\ l.does = "checkout" /\ l.id = r /\ l.user = k.user
          /\ l.batch = k.batch /\ l.ok = k.ok /\ ~l.dirty
          /\ l.order = {NewOrder(k.user, k.batch[r], The(it))}
      BY <1>2, <2>1 DEF Fields
    <2>3. Mine' = l /\ pre' = pre /\ Allowed
      BY <1>1, <1>2, <2>1, <2>2, LoopGoes
    <2>4. r \in DOMAIN k.batch /\ \A s \in DOMAIN k.batch : r <= s
      BY <1>1, MyFacts, FirstIsLeast DEF Sound, CopiesSound
    <2>5. pre = db /\ pre[2] = items
      BY <1>2, Shown
    <2>6. Readable(items, k.batch[r].item) /\ The(it) = items[k.batch[r].item]
      BY <2>1, TheIn DEF CopyItem, Copy, Readable
    <2>7. Wanted(l) = NewOrder(k.user, k.batch[r], items[k.batch[r].item])
      BY <2>2, <2>6, TheOne DEF Wanted
    <2> HIDE DEF k, r, it
    <2>8. Visiting'
      BY <1>2, <2>2, <2>3, <2>4, <2>5, <2>6, <2>7 DEF Visiting, Row1, k
    <2>9. pre' = db'
      BY <1>1, <2>3, <2>5
    <2> QED
      BY <2>2, <2>3, <2>8, <2>9, UnderwayInLoop DEF HalfOrdered
  <1> QED
    BY <1>3, <1>4

LEMMA CreateAllowed ==
  ASSUME Serial, Hides, Create(Me)
  PROVE  Underway' /\ Allowed
  <1> DEFINE k == Mine
             new == Wanted(k)
             it == CopyItem(new.item)
  <1> USE DEF CheckoutCalls
  <1>1. k.pc = "create" /\ up /\ UNCHANGED db
    BY DEF Create, At, Mine, Fails
  <1>2. k.does = "checkout" /\ DOMAIN k = Fields /\ Visiting /\ ~k.dirty
    BY <1>1, LoopFacts
  <1>3. pre = db /\ pre[2] = items /\ pre[4] = carts
    BY <1>2, Shown
  <1>4. CASE Down
    BY <1>1, <1>2, <1>4, LoopFails
  <1>5. ASSUME NEW l, Goes(Me, l), l = [k EXCEPT !.pc = "freeze", !.item = it]
        PROVE  Underway' /\ Allowed
    <2>1. /\ l.pc = "freeze" /\ l.does = "checkout" /\ l.id = k.id /\ l.user = k.user
          /\ l.batch = k.batch /\ l.ok = k.ok /\ ~l.dirty /\ l.order = k.order
      BY <1>2, <1>5 DEF Fields
    <2>2. Mine' = l /\ pre' = pre /\ Allowed
      BY <1>1, <1>2, <1>5, <2>1, LoopGoes
    <2>3. Visiting'
      BY <1>1, <1>2, <2>1, <2>2 DEF Visiting, Row1, Wanted
    <2> QED
      BY <1>1, <1>3, <2>1, <2>2, <2>3, UnderwayInLoop DEF HalfOrdered
  <1>6. ASSUME NEW l, Goes(Me, l), it # {}, Available(The(it)) < new.quantity,
               l = [k EXCEPT !.pc = "row", !.id = 0, !.order = {}, !.ok = FALSE,
                             !.batch = Without(@, k.id)]
        PROVE  Underway' /\ Allowed
    <2>1. /\ l.pc = "row" /\ l.does = "checkout" /\ l.user = k.user /\ l.ok = FALSE
          /\ l.batch = Without(k.batch, k.id) /\ ~l.dirty
      BY <1>2, <1>6 DEF Fields
    <2>2. Mine' = l /\ up' = up
      BY <1>6, MyFacts, MyStep
    <2>3. pre' = db' /\ pre' = pre
      BY <1>1, <1>3, <2>1, <2>2 DEF Hides
    <2>4. Visiting'
      BY <1>2, <2>1, <2>2, <2>3, BatchLeft DEF Visiting
    <2>5. Underway'
      BY <2>1, <2>2, <2>3, <2>4, UnderwayInLoop DEF HalfOrdered
    <2>6. /\ k.id \in DOMAIN k.batch /\ (\A s \in DOMAIN k.batch : k.id <= s)
          /\ pre[4][k.id] = Row1 /\ Readable(items, Row1.item)
          /\ new = NewOrder(k.user, Row1, items[Row1.item])
      BY <1>1, <1>2, <1>3, LoopFacts DEF Visiting
    <2>7. new.item = Row1.item /\ new.quantity = Row1.quantity
      BY <2>6 DEF NewOrder
    <2>8. Available(items[Row1.item]) < Row1.quantity
      BY <1>6, <2>7, TheIn DEF CopyItem, Copy
    <2>9. CheckingOut /\ CheckingOut' /\ DOMAIN th'[Me].batch = DOMAIN th[Me].batch \ {k.id}
          /\ th'[Me].ok = FALSE /\ th'[Me].user = th[Me].user
      BY <1>2, <2>1, <2>2 DEF CheckingOut, Mine, Without, Keep
    <2> HIDE DEF k, new, it
    <2>10. M!RowShort(k.id)
      BY <1>3, <2>2, <2>3, <2>6, <2>8, <2>9
      DEF M!RowShort, M!Readable, Readable, M!LegalTypes, LegalTypes, M!Available, Available,
          M!SizeSub, SizeSub, M!db
    <2>11. M!CheckoutRow
      BY <1>1, <2>6, <2>9, <2>10 DEF M!CheckoutRow, k, Mine
    <2> QED
      BY <2>5, <2>11 DEF Allowed, M!Next
  <1> QED
    BY <1>4, <1>5, <1>6 DEF Create, Fails, Wanted, Mine

LEMMA FreezeAllowed ==
  ASSUME Serial, Hides, Freeze(Me)
  PROVE  Underway' /\ Allowed
  <1> DEFINE k == Mine
             new == Wanted(k)
  <1> USE DEF CheckoutCalls
  <1>1. /\ k.pc = "freeze" /\ up
        /\ items' = Write(items, new.item, Froze(The(k.item), new.quantity)) /\ OnlyItems
    BY DEF Freeze, At, Mine, Wanted
  <1>2. /\ k.does = "checkout" /\ DOMAIN k = Fields /\ Visiting /\ ~k.dirty
        /\ k.id \in DOMAIN k.batch
    BY <1>1, LoopFacts
  <1>3. PICK l : Goes(Me, l) /\ l = [k EXCEPT !.pc = "insert", !.item = {}, !.dirty = TRUE]
    BY DEF Freeze, Mine
  <1>4. /\ l.pc = "insert" /\ l.does = "checkout" /\ l.id = k.id /\ l.user = k.user
        /\ l.batch = k.batch /\ l.ok = k.ok /\ l.dirty /\ l.order = k.order
    BY <1>2, <1>3 DEF Fields
  <1>5. Mine' = l /\ pre' = pre /\ Allowed
    BY <1>1, <1>2, <1>3, <1>4, LoopGoes
  <1>6. Visiting'
    BY <1>1, <1>2, <1>4, <1>5 DEF Visiting, Row1, Wanted
  <1>7. new = NewOrder(k.user, Row1, pre[2][Row1.item])
    BY <1>1, <1>2 DEF Visiting
  <1>8. new.item = Row1.item /\ new.quantity = Row1.quantity
    BY <1>7 DEF NewOrder
  <1>9. /\ Row1.item \in DOMAIN items /\ The(k.item) = items[Row1.item]
        /\ Available(items[Row1.item]) >= Row1.quantity
    <2>1. k.item # {} /\ Available(The(k.item)) >= new.quantity
          /\ \A it \in k.item : new.item \in DOMAIN items /\ it = items[new.item]
      BY <1>1, MyFacts DEF Sound, RequestSound, Serves, Accurate
    <2> QED
      BY <1>8, <2>1, TheIn
  <1>10. Row1' = Row1
    BY <1>4, <1>5 DEF Row1
  <1> HIDE DEF k, new
  <1>11. items' = [items EXCEPT ![Row1.item] = Froze(items[Row1.item], Row1.quantity)]
    BY <1>1, <1>8, <1>9 DEF Write
  <1>12. HalfOrdered'
    <2>1. /\ balance = pre[1] /\ items = pre[2] /\ orders = pre[3] /\ carts = pre[4]
          /\ lastItem = pre[5] /\ lastOrder = pre[6] /\ lastRow = pre[7]
      BY <1>2, Shown DEF k
    <2>2. items' = [pre'[2] EXCEPT ![Row1'.item] = Froze(@, Row1'.quantity)]
          /\ Available(pre'[2][Row1'.item]) >= Row1'.quantity
      BY <1>5, <1>9, <1>10, <1>11, <2>1
    <2>3. /\ balance' = pre'[1] /\ orders' = pre'[3] /\ carts' = pre'[4]
          /\ lastItem' = pre'[5] /\ lastOrder' = pre'[6] /\ lastRow' = pre'[7]
      BY <1>1, <1>5, <2>1 DEF OnlyItems
    <2> QED
      BY <1>4, <1>5, <2>2, <2>3 DEF HalfOrdered
  <1> QED
    BY <1>4, <1>5, <1>6, <1>12, UnderwayInLoop

LEMMA InsertAllowed ==
  ASSUME Serial, Hides, Insert(Me)
  PROVE  Underway' /\ Allowed
  <1> DEFINE k == Mine
             new == NewOrder(k.user, Row1, pre[2][Row1.item])
  <1> USE DEF CheckoutCalls
  <1>1. /\ k.pc = "insert" /\ up
        /\ orders' = Put(orders, lastOrder + 1, Wanted(k)) /\ lastOrder' = lastOrder + 1
        /\ OnlyOrders
    BY DEF Insert, At, Mine, Wanted, FreshOrderId
  <1>2. /\ k.does = "checkout" /\ DOMAIN k = Fields /\ Visiting /\ HalfOrdered
        /\ Wanted(k) = new
    BY <1>1, LoopFacts DEF Visiting
  <1>3. PICK l : Goes(Me, l) /\ l = [k EXCEPT !.pc = "unrow", !.order = {}]
    BY DEF Insert, Mine
  <1>4. /\ l.pc = "unrow" /\ l.does = "checkout" /\ l.id = k.id /\ l.user = k.user
        /\ l.batch = k.batch /\ l.ok = k.ok /\ l.dirty
    <2>1. k.dirty
      BY <1>1, MyFacts DEF Serves
    <2> QED
      BY <1>2, <1>3, <2>1 DEF Fields
  <1>5. Mine' = l /\ pre' = pre /\ Allowed
    BY <1>1, <1>2, <1>3, <1>4, LoopGoes
  <1>6. Visiting'
    BY <1>1, <1>2, <1>4, <1>5 DEF Visiting, Row1
  <1>7. Row1' = Row1
    BY <1>4, <1>5 DEF Row1
  <1>8. HalfOrdered'
    <2>1. /\ balance = pre[1] /\ carts = pre[4] /\ lastItem = pre[5] /\ lastRow = pre[7]
          /\ Available(pre[2][Row1.item]) >= Row1.quantity
          /\ items = [pre[2] EXCEPT ![Row1.item] = Froze(@, Row1.quantity)]
          /\ orders = pre[3] /\ lastOrder = pre[6]
      BY <1>1, <1>2 DEF HalfOrdered
    <2>2. orders' = Put(pre'[3], pre'[6] + 1,
                        NewOrder(Mine'.user, Row1', pre'[2][Row1'.item]))
      BY <1>1, <1>2, <1>4, <1>5, <1>7, <2>1
    <2>3. lastOrder \in Nat
      BY MyFacts DEF Ids
    <2>4. pre'[6] = lastOrder' - 1
      BY <1>1, <1>5, <2>1, <2>3
    <2> HIDE DEF k, new
    <2> QED
      BY <1>1, <1>4, <1>5, <1>7, <2>1, <2>2, <2>4 DEF HalfOrdered, OnlyOrders
  <1> QED
    BY <1>4, <1>5, <1>6, <1>8, UnderwayInLoop

LEMMA UnrowAllowed ==
  ASSUME Serial, Hides, Unrow(Me)
  PROVE  Underway' /\ Allowed
  <1> DEFINE k == Mine
             new == NewOrder(k.user, Row1, pre[2][Row1.item])
  <1> USE DEF CheckoutCalls
  <1>1. k.pc = "unrow" /\ up /\ carts' = Without(carts, k.id) /\ OnlyCarts /\ UNCHANGED lastRow
    BY DEF Unrow, At, Mine
  <1>2. /\ k.does = "checkout" /\ DOMAIN k = Fields /\ Visiting /\ HalfOrdered
        /\ k.id \in DOMAIN k.batch /\ pre[4][k.id] = Row1
        /\ k.user \in Users /\ k.user # Nobody
    BY <1>1, LoopFacts
  <1>3. PICK l : /\ Goes(Me, l)
                 /\ l = [k EXCEPT !.pc = "row", !.id = 0, !.dirty = FALSE,
                                  !.batch = Without(@, k.id)]
    BY DEF Unrow, Mine
  <1>4. /\ l.pc = "row" /\ l.does = "checkout" /\ l.user = k.user /\ l.ok = k.ok
        /\ l.batch = Without(k.batch, k.id) /\ ~l.dirty
    BY <1>2, <1>3 DEF Fields
  <1>5. Mine' = l /\ up' = up
    BY <1>3, MyFacts, MyStep
  <1>6. pre' = db'
    BY <1>4, <1>5 DEF Hides
  <1>7. /\ balance = pre[1] /\ carts = pre[4] /\ lastItem = pre[5] /\ lastRow = pre[7]
        /\ Available(pre[2][Row1.item]) >= Row1.quantity
        /\ items = [pre[2] EXCEPT ![Row1.item] = Froze(@, Row1.quantity)]
        /\ pre[6] = lastOrder - 1
        /\ orders = Put(pre[3], pre[6] + 1, new)
    BY <1>1, <1>2 DEF HalfOrdered
  <1>8. (\A s \in DOMAIN k.batch : k.id <= s) /\ Readable(pre[2], Row1.item)
    BY <1>1, <1>2 DEF Visiting
  <1> HIDE DEF k, new
  <1>9. /\ pre'[1] = pre[1] /\ pre'[5] = pre[5] /\ pre'[7] = pre[7]
        /\ pre'[2] = [pre[2] EXCEPT ![Row1.item] = Froze(@, Row1.quantity)]
        /\ pre'[3] = Put(pre[3], pre[6] + 1, new) /\ pre'[6] = pre[6] + 1
        /\ pre'[4] = Without(pre[4], k.id)
    <2>1. lastOrder = pre[6] + 1
      BY <1>7, MyFacts DEF Ids
    <2> QED
      BY <1>1, <1>6, <1>7, <2>1 DEF OnlyCarts, db
  <1>10. Visiting'
    <2>1. \A r \in DOMAIN l.batch : r \in DOMAIN k.batch /\ r # k.id /\ l.batch[r] = k.batch[r]
      BY <1>4, BatchLeft
    <2>2. \A r \in DOMAIN k.batch : r \in DOMAIN pre[4] /\ pre[4][r] = k.batch[r]
      BY <1>2 DEF Visiting, k
    <2>3. \A r \in DOMAIN l.batch : r \in DOMAIN pre'[4] /\ pre'[4][r] = l.batch[r]
      BY <1>9, <2>1, <2>2 DEF Without, Keep
    <2> QED
      BY <1>4, <1>5, <2>3 DEF Visiting
  <1>11. Underway'
    BY <1>4, <1>5, <1>6, <1>10, UnderwayInLoop DEF HalfOrdered
  <1>12. pre[6] < MaxOrders
    <2>1. \A t \in Threads : ToOrder(th[t]) \subseteq RowIds
      BY PlacedToOrder DEF Serial, AsAlone, Base, Bounded
    <2>2. Cardinality(Pairs(th)) \in Nat
      BY <2>1, PairsFinite
    <2>3. \E n \in Nat : lastOrder + n <= MaxOrders
      BY <2>2 DEF Serial, AsAlone, Base, Bounded, OrdersComing, Pairs
    <2>4. lastOrder \in Nat
      BY MyFacts DEF Ids
    <2> QED
      BY <1>7, <2>3, <2>4, BoundsAssumption
  <1>13. /\ CheckingOut /\ CheckingOut' /\ th[Me].user = k.user /\ th'[Me].user = th[Me].user
         /\ th'[Me].ok = th[Me].ok
         /\ DOMAIN th'[Me].batch = DOMAIN th[Me].batch \ {k.id}
         /\ DOMAIN th[Me].batch = DOMAIN k.batch
    BY <1>2, <1>4, <1>5 DEF CheckingOut, Mine, Without, Keep, k
  <1>14. M!CreateOrder(k.id)
    BY <1>2, <1>7, <1>9, <1>12, <1>13
    DEF M!CreateOrder, M!Available, Available, M!SizeSub, SizeSub, M!Froze, Froze, M!SizeAdd,
        SizeAdd, M!Put, Put, M!NewOrder, NewOrder, M!OrderPrice, OrderPrice, M!Discounted,
        Discounted, new
  <1>15. M!ClearRow(k.id)
    BY <1>9 DEF M!ClearRow, M!Keep, Without, Keep
  <1>16. M!RowOrdered(k.id)
    BY <1>2, <1>5, <1>8, <1>9, <1>13, <1>14, <1>15
    DEF M!RowOrdered, M!Readable, Readable, M!LegalTypes, LegalTypes
  <1>17. M!CheckoutRow
    BY <1>1, <1>2, <1>8, <1>13, <1>16 DEF M!CheckoutRow
  <1> QED
    BY <1>11, <1>17 DEF Allowed, M!Next

LEMMA CheckoutDoneAllowed ==
  ASSUME Serial, Hides, CheckoutDone(Me)
  PROVE  Underway' /\ Allowed
  <1> DEFINE k == Mine
  <1> USE DEF CheckoutCalls
  <1>1. k.pc = "row" /\ up /\ k.batch = Empty /\ UNCHANGED db /\ Answers(Me, "success")
    BY DEF CheckoutDone, At, Mine
  <1>2. k.does = "checkout" /\ k.user # Nobody /\ ~k.dirty
    BY <1>1, LoopFacts
  <1>3. Mine' = Idle /\ up' = up /\ reply' = "success"
    BY <1>1, MyFacts, MyStep
  <1>4. pre' = db' /\ pre' = pre
    BY <1>1, <1>2, <1>3, Shown DEF Hides, Idle
  <1>5. CheckingOut /\ ~CheckingOut' /\ th[Me].user # Nobody /\ DOMAIN th[Me].batch = {}
    BY <1>1, <1>2, <1>3 DEF CheckingOut, Mine, Idle, Empty
  <1>6. M!CheckoutDone
    BY <1>1, <1>3, <1>4, <1>5 DEF M!CheckoutDone, M!db, Nobody, M!Nobody
  <1> QED
    BY <1>3, <1>4, <1>6, IdleUnderway DEF Allowed, M!Next

-----------------------------------------------------------------------------
(* Payments and cancellations *)

\* What every call of orders_pay and orders_cancel may rely on.
LEMMA PayFacts ==
  ASSUME Serial, up, Mine.pc \in PayCalls, NEW w, w = Wanted(Mine)
  PROVE  /\ Mine.does \in {"pay", "cancel"} /\ DOMAIN Mine = Fields
         /\ Mine.id \in DOMAIN orders /\ Mine.id \in OrderIds /\ w = orders[Mine.id]
         /\ w \in Order /\ Price(Mine) = Signed(w.price) /\ Price(Mine) \in Int
         /\ Mine.pc \notin {"reload", "unfreeze", "close"} => Mine.does = "pay"
         /\ HalfPaid /\ HalfCancelled
         /\ Mine.does = "pay" /\ Mine.pc \in {"credit", "sold", "reload", "unfreeze", "close"} =>
              Mine.dirty
         /\ Mine.dirty => \/ Mine.pc \in {"credit", "sold", "close"}
                          \/ Mine.does = "pay" /\ Mine.pc \in {"reload", "unfreeze"}
  <1>1. /\ Mine.does \in {"pay", "cancel"} /\ DOMAIN Mine = Fields
        /\ Mine.id \in DOMAIN orders /\ Mine.order = {orders[Mine.id]}
        /\ Mine.pc \notin {"reload", "unfreeze", "close"} => Mine.does = "pay"
        /\ Mine.does = "pay" /\ Mine.pc \in {"credit", "sold", "reload", "unfreeze", "close"} =>
             Mine.dirty
    BY MyFacts DEF Serves, Accurate, PayCalls
  <1>2. w = orders[Mine.id]
    BY <1>1, TheOne DEF Wanted
  <1>3. w \in Order
    BY <1>1, <1>2, MyFacts DEF TablesSound
  <1>4. Price(Mine) = Signed(w.price)
    BY DEF Price, Wanted
  <1>5. Signed(w.price) \in Int
    BY <1>3, MoneyAssumption DEF Order, Signed
  <1>6. Mine.id \in OrderIds
    <2>1. \A t \in Threads : ToOrder(th[t]) \subseteq RowIds
      BY PlacedToOrder DEF Serial, AsAlone, Base, Bounded
    <2>2. Cardinality(Pairs(th)) \in Nat
      BY <2>1, PairsFinite
    <2>3. \E n \in Nat : lastOrder + n <= MaxOrders
      BY <2>2 DEF Serial, AsAlone, Base, Bounded, OrdersComing, Pairs
    <2>4. lastOrder \in Nat /\ Mine.id \in 1 .. lastOrder
      BY <1>1, MyFacts DEF Ids
    <2> QED
      BY <2>3, <2>4, BoundsAssumption DEF OrderIds
  <1>7. HalfPaid /\ HalfCancelled
        /\ (Mine.dirty => \/ Mine.pc \in {"credit", "sold", "close"}
                          \/ Mine.does = "pay" /\ Mine.pc \in {"reload", "unfreeze"})
    BY DEF Serial, Underway, PayCalls
  <1> QED
    BY <1>1, <1>2, <1>3, <1>4, <1>5, <1>6, <1>7

\* What Underway comes to in a payment or a cancellation.
LEMMA UnderwayInPay ==
  ASSUME Mine'.does \in {"pay", "cancel"}, Mine'.pc \in PayCalls, ~Mine'.dirty => pre' = db',
         Mine'.dirty => \/ Mine'.pc \in {"credit", "sold", "close"}
                        \/ Mine'.does = "pay" /\ Mine'.pc \in {"reload", "unfreeze"},
         HalfPaid', HalfCancelled'
  PROVE  Underway'
  BY DEF Underway, Asked, Visiting, HalfOrdered, HalfRemoved, HalfOnSale, PayCalls

\* A call of a payment or a cancellation that Market does not see.
LEMMA PayGoes ==
  ASSUME Serial, Hides, up, Mine.does \in {"pay", "cancel"},
         NEW l, Goes(Me, l), l.does \in {"pay", "cancel"},
         l.dirty \/ (~Mine.dirty /\ UNCHANGED db)
  PROVE  Mine' = l /\ pre' = pre /\ Allowed
  <1>1. Mine' = l /\ up' = up /\ reply' = reply
    BY MyFacts, MyStep
  <1>2. pre' = pre
    BY <1>1, Shown DEF Hides
  <1> QED
    BY <1>1, <1>2, Unseen

\* The three looks at the rows of a payment.
LEMMA PayReadsAllowed ==
  ASSUME Serial, Hides, PayCustomer(Me) \/ PaySeller(Me) \/ PayItem(Me)
  PROVE  Underway' /\ Allowed
  <1> DEFINE k == Mine
             w == Wanted(k)
  <1> USE DEF PayCalls
  <1>1. k.pc \in {"customer", "seller", "item"} /\ up /\ UNCHANGED db
    BY DEF PayCustomer, PaySeller, PayItem, At, Mine
  <1>2. k.does = "pay" /\ ~k.dirty /\ DOMAIN k = Fields
    BY <1>1, PayFacts
  <1>3. ASSUME NEW l, Goes(Me, l), l.pc \in {"seller", "item"}, l.does = "pay", ~l.dirty
        PROVE  Underway' /\ Allowed
    <2>1. Mine' = l /\ pre' = db' /\ Allowed
      BY <1>1, <1>2, <1>3, ReadsOn
    <2> QED
      BY <1>3, <2>1, NothingWritten DEF CheckoutCalls
  <1>4. CASE PayCustomer(Me) \/ PaySeller(Me)
    <2>1. PICK l : /\ Goes(Me, l)
                   /\ \/ l = [k EXCEPT !.pc = "seller", !.cust = balance[w.customer]]
                      \/ l = [k EXCEPT !.pc = "item", !.sell = balance[w.seller]]
      BY <1>4 DEF PayCustomer, PaySeller, Mine, Wanted
    <2>2. l.pc \in {"seller", "item"} /\ l.does = "pay" /\ ~l.dirty
      BY <1>2, <2>1 DEF Fields
    <2> QED
      BY <1>3, <2>1, <2>2
  <1>5. CASE PayItem(Me) /\ Answers(Me, "failure")
    BY <1>1, <1>2, <1>5, Refuses
  <1>6. CASE PayItem(Me) /\ ~Answers(Me, "failure")
    <2>1. PICK l : Goes(Me, l) /\ l = [k EXCEPT !.pc = "debit", !.item = CopyItem(w.item)]
      BY <1>6 DEF PayItem, Mine, Wanted
    <2>2. /\ l.pc = "debit" /\ l.does = "pay" /\ ~l.dirty /\ l.item = CopyItem(w.item)
          /\ l.order = k.order
      BY <1>2, <2>1 DEF Fields
    <2>3. Mine' = l /\ pre' = db' /\ Allowed
      BY <1>1, <1>2, <2>1, <2>2, ReadsOn
    <2>4. Wanted(Mine)' = w
      BY <2>2, <2>3 DEF Wanted
    <2>5. CopyItem(w.item) = {} => ~Readable(items', w.item)
      BY <1>1 DEF CopyItem, Copy, Readable, db
    <2> HIDE DEF k, w
    <2>6. HalfPaid' /\ HalfCancelled'
      BY <2>2, <2>3, <2>4, <2>5 DEF HalfPaid, HalfCancelled
    <2> QED
      BY <2>2, <2>3, <2>6, UnderwayInPay
  <1> QED
    BY <1>4, <1>5, <1>6

\* The two wallets are written.
LEMMA DebitAllowed ==
  ASSUME Serial, Hides, Debit(Me)
  PROVE  Underway' /\ Allowed
  <1> DEFINE k == Mine
             w == Wanted(k)
             price == Price(k)
  <1> USE DEF PayCalls
  <1>1. /\ k.pc = "debit" /\ up
        /\ balance' = [balance EXCEPT ![w.customer] = k.cust - price] /\ OnlyBalance
    BY DEF Debit, At, Mine, Wanted
  <1>2. /\ k.does = "pay" /\ ~k.dirty /\ DOMAIN k = Fields
        /\ k.item = {} => ~Readable(items, w.item)
    BY <1>1, PayFacts DEF HalfPaid
  <1>3. PICK l : Goes(Me, l) /\ l = [k EXCEPT !.pc = "credit", !.dirty = TRUE]
    BY DEF Debit, Mine
  <1>4. /\ l.pc = "credit" /\ l.does = "pay" /\ l.dirty /\ l.order = k.order
        /\ l.item = k.item /\ l.sell = k.sell
    BY <1>2, <1>3 DEF Fields
  <1>5. Mine' = l /\ pre' = pre /\ Allowed
    BY <1>1, <1>2, <1>3, <1>4, PayGoes
  <1>6. k.cust = balance[w.customer] /\ k.sell = balance[w.seller] /\ k.cust >= price
    BY <1>1, MyFacts DEF Accurate, Sound, PaymentSound
  <1>7. Wanted(Mine)' = w /\ Price(Mine)' = price
    BY <1>4, <1>5 DEF Wanted, Price
  <1>8. /\ balance = pre[1] /\ items = pre[2] /\ orders = pre[3] /\ carts = pre[4]
        /\ lastItem = pre[5] /\ lastOrder = pre[6] /\ lastRow = pre[7]
    BY <1>2, Shown
  <1> HIDE DEF k, w, price
  <1>9. RestStays' /\ items' = pre'[2]
    BY <1>1, <1>5, <1>8 DEF RestStays, OnlyBalance
  <1>10. balance' = [pre'[1] EXCEPT ![w.customer] = pre'[1][w.customer] - price]
         /\ k.sell = pre'[1][w.seller] /\ pre'[1][w.customer] >= price
    BY <1>1, <1>5, <1>6, <1>8
  <1>11. l.item = {} => ~Readable(items', w.item)
    BY <1>2, <1>4, <1>5, <1>8, <1>9
  <1>12. HalfPaid' /\ HalfCancelled'
    BY <1>4, <1>5, <1>7, <1>9, <1>10, <1>11 DEF HalfPaid, HalfCancelled
  <1> QED
    BY <1>4, <1>5, <1>12, UnderwayInPay

LEMMA CreditAllowed ==
  ASSUME Serial, Hides, Credit(Me)
  PROVE  Underway' /\ Allowed
  <1> DEFINE k == Mine
             w == Wanted(k)
             price == Price(k)
  <1> USE DEF PayCalls
  <1>1. /\ k.pc = "credit" /\ up
        /\ balance' = [balance EXCEPT ![w.seller] = k.sell + price] /\ OnlyBalance
    BY DEF Credit, At, Mine, Wanted
  <1>2. k.does = "pay" /\ k.dirty /\ DOMAIN k = Fields /\ HalfPaid
    BY <1>1, PayFacts
  <1>3. PICK l : Goes(Me, l) /\ l = [k EXCEPT !.pc = "sold"]
    BY DEF Credit, Mine
  <1>4. /\ l.pc = "sold" /\ l.does = "pay" /\ l.dirty /\ l.order = k.order /\ l.item = k.item
    BY <1>2, <1>3 DEF Fields
  <1>5. Mine' = l /\ pre' = pre /\ Allowed
    BY <1>1, <1>2, <1>3, <1>4, PayGoes
  <1>6. Wanted(Mine)' = w /\ Price(Mine)' = price
    BY <1>4, <1>5 DEF Wanted, Price
  <1>7. /\ k.item = {} => ~Readable(items, w.item)
        /\ RestStays /\ pre[1][w.customer] >= price /\ items = pre[2]
        /\ balance = [pre[1] EXCEPT ![w.customer] = pre[1][w.customer] - price]
        /\ k.sell = pre[1][w.seller]
    BY <1>1, <1>2 DEF HalfPaid
  <1> HIDE DEF k, w, price
  <1>8. RestStays' /\ items' = pre'[2]
    BY <1>1, <1>5, <1>7 DEF RestStays, OnlyBalance
  <1>9. balance' = [pre'[1] EXCEPT ![w.customer] = pre'[1][w.customer] - price,
                                   ![w.seller] = pre'[1][w.seller] + price]
    BY <1>1, <1>5, <1>7
  <1>10. l.item = {} => ~Readable(items', w.item)
    BY <1>4, <1>5, <1>7, <1>8
  <1>11. HalfPaid' /\ HalfCancelled'
    BY <1>4, <1>5, <1>6, <1>7, <1>8, <1>9, <1>10 DEF HalfPaid, HalfCancelled
  <1> QED
    BY <1>4, <1>5, <1>11, UnderwayInPay

\* What a payment has written when its order is still open.
LEMMA PaidFacts ==
  ASSUME Serial, up, Mine.does = "pay", Mine.pc \in {"sold", "reload", "unfreeze", "close"},
         NEW w, w = Wanted(Mine), NEW price, price = Price(Mine)
  PROVE  /\ RestStays /\ pre[1][w.customer] >= price
         /\ balance = [pre[1] EXCEPT ![w.customer] = pre[1][w.customer] - price,
                                     ![w.seller] = pre[1][w.seller] + price]
         /\ Mine.pc = "sold" => items = pre[2] /\ (Mine.item = {} => ~Readable(items, w.item))
         /\ Mine.pc # "sold" => Readable(pre[2], w.item)
         /\ Mine.pc \in {"reload", "unfreeze"} =>
              items = [pre[2] EXCEPT ![w.item] = Sold(@, w.quantity)]
         /\ Mine.pc = "close" =>
              items = [pre[2] EXCEPT ![w.item] = Unfroze(Sold(@, w.quantity), w.quantity)]
  <1>1. Mine.dirty /\ HalfPaid
    BY PayFacts DEF PayCalls
  <1> QED
    BY <1>1 DEF HalfPaid

\* A payment whose order is closed, or whose item cannot be read, is Market's.
LEMMA MarketPays ==
  ASSUME Serial, up, Mine.does = "pay", Mine.pc \in {"sold", "close"}, Mine' = Idle,
         pre' = db', WithinBound', OnlyOrders, UNCHANGED lastOrder,
         NEW w, w = Wanted(Mine),
         IF Mine.pc = "close"
           THEN up' = up /\ reply' = "success" /\ orders' = Without(orders, Mine.id)
           ELSE /\ Mine.item = {} /\ up' = FALSE /\ reply' = "none" /\ UNCHANGED orders
  PROVE  Allowed
  <1> USE DEF PayCalls
  <1> DEFINE o == Mine.id
             price == Price(Mine)
  <1>1. /\ o \in DOMAIN orders /\ o \in OrderIds /\ w = orders[o] /\ price = Signed(w.price)
        /\ RestStays /\ pre[1][w.customer] >= price
        /\ balance = [pre[1] EXCEPT ![w.customer] = pre[1][w.customer] - price,
                                    ![w.seller] = pre[1][w.seller] + price]
    BY PayFacts, PaidFacts
  <1>2. /\ pre'[1] = balance /\ pre'[2] = items /\ pre'[3] = orders' /\ pre'[4] = pre[4]
        /\ pre'[5] = pre[5] /\ pre'[6] = pre[6] /\ pre'[7] = pre[7] /\ pre[3] = orders
    BY <1>1 DEF db, OnlyOrders, RestStays
  <1>3. Mine.does # "checkout" /\ M!Ready
    BY DEF M!Ready, CheckingOut, Mine, Nobody, M!Nobody
  <1>4. M!CanPay(w.customer, M!Signed(w.price))
    BY <1>1 DEF M!CanPay, M!Signed, Signed
  <1>5. pre'[1] = M!Transfer(pre[1], w.customer, w.seller, M!Signed(w.price))
    BY <1>1, <1>2 DEF M!Transfer, M!Signed, Signed
  <1>6. M!Bounded(pre'[1])
    BY <1>2 DEF M!Bounded, WithinBound, OnlyOrders
  <1>7. CASE Mine.pc = "close"
    <2>1. /\ Readable(pre[2], w.item)
          /\ items = [pre[2] EXCEPT ![w.item] = Unfroze(Sold(@, w.quantity), w.quantity)]
      BY <1>7, PaidFacts
    <2>2. M!Answer("success")
      BY <1>3, <1>7, MarketAnswers
    <2>3. M!Readable(pre[2], w.item)
      BY <2>1 DEF M!Readable, Readable, M!LegalTypes, LegalTypes
    <2>4. M!CloseOrder(o, M!Sold(pre[2][w.item], w.quantity))
      <3>1. items = [pre[2] EXCEPT ![w.item] =
                       Unfroze(Sold(pre[2][w.item], w.quantity), w.quantity)]
        BY <2>1
      <3>2. Unfroze(Sold(pre[2][w.item], w.quantity), w.quantity)
              = M!Unfroze(M!Sold(pre[2][w.item], w.quantity), w.quantity)
        BY DEF M!Unfroze, Unfroze, M!Sold, Sold, M!SizeSub, SizeSub
      <3>3. orders' = M!Keep(orders, DOMAIN orders \ {o})
        BY <1>7 DEF M!Keep, Keep, Without
      <3> QED
        BY <1>1, <1>2, <3>1, <3>2, <3>3 DEF M!CloseOrder
    <2>5. M!PayAccepted(o)
      BY <1>1, <1>2, <1>3, <1>4, <1>5, <1>6, <2>2, <2>3, <2>4 DEF M!PayAccepted
    <2> QED
      BY <1>1, <2>5 DEF Allowed, M!Next, M!OrdersPay, M!OrderIds, OrderIds
  <1>8. CASE Mine.pc = "sold"
    <2>1. items = pre[2] /\ ~Readable(items, w.item)
      BY <1>8, PaidFacts
    <2>2. M!Crash
      BY <1>8, MarketCrashes
    <2>3. ~M!Readable(pre[2], w.item)
      BY <2>1 DEF M!Readable, Readable, M!LegalTypes, LegalTypes
    <2>4. M!PayAccepted(o)
      BY <1>1, <1>2, <1>3, <1>4, <1>5, <1>6, <1>8, <2>1, <2>2, <2>3 DEF M!PayAccepted
    <2> QED
      BY <1>1, <2>4 DEF Allowed, M!Next, M!OrdersPay, M!OrderIds, OrderIds
  <1> QED
    BY <1>7, <1>8

LEMMA MarkSoldAllowed ==
  ASSUME Serial, Hides, MarkSold(Me), WithinBound'
  PROVE  Underway' /\ Allowed
  <1> DEFINE k == Mine
             w == Wanted(k)
             price == Price(k)
  <1> USE DEF PayCalls
  <1>1. k.pc = "sold" /\ up
    BY DEF MarkSold, At, Mine
  <1>2. /\ k.does = "pay" /\ k.dirty /\ DOMAIN k = Fields
        /\ k.id \in DOMAIN orders
    BY <1>1, PayFacts
  <1>3. /\ items = pre[2] /\ (k.item = {} => ~Readable(items, w.item))
        /\ RestStays /\ pre[1][w.customer] >= price
        /\ balance = [pre[1] EXCEPT ![w.customer] = pre[1][w.customer] - price,
                                    ![w.seller] = pre[1][w.seller] + price]
    BY <1>1, <1>2, PaidFacts
  <1>4. CASE k.item = {}
    <2>1. Down /\ UNCHANGED db
      BY <1>4 DEF MarkSold, Fails, Mine
    <2>2. Mine' = Idle /\ up' = FALSE /\ reply' = "none"
      BY <2>1, MyFacts, MyStep
    <2>3. pre' = db'
      BY <2>2 DEF Hides, Idle
    <2>4. Allowed
      BY <1>1, <1>2, <1>4, <2>1, <2>2, <2>3, MarketPays DEF OnlyOrders, db
    <2> QED
      BY <2>2, <2>3, <2>4, IdleUnderway
  <1>5. CASE k.item # {}
    <2>1. /\ items' = Write(items, w.item, Sold(The(k.item), w.quantity)) /\ OnlyItems
      BY <1>5 DEF MarkSold, Mine, Wanted
    <2>2. PICK l : Goes(Me, l) /\ l = [k EXCEPT !.pc = "reload", !.item = {}]
      BY <1>5 DEF MarkSold, Mine
    <2>3. /\ l.pc = "reload" /\ l.does = "pay" /\ l.dirty /\ l.order = k.order
      BY <1>2, <2>2 DEF Fields
    <2>4. Mine' = l /\ pre' = pre /\ Allowed
      BY <1>1, <1>2, <2>2, <2>3, PayGoes
    <2>5. Wanted(Mine)' = w /\ Price(Mine)' = price
      BY <2>3, <2>4 DEF Wanted, Price
    <2>6. /\ w.item \in DOMAIN items /\ The(k.item) = items[w.item]
          /\ items[w.item].type \in LegalTypes
      BY <1>1, <1>5, MyFacts, TheIn DEF Accurate, Serves
    <2> HIDE DEF k, w, price
    <2>7. Readable(pre[2], w.item)
      BY <1>3, <2>6 DEF Readable
    <2>8. items' = [pre[2] EXCEPT ![w.item] = Sold(@, w.quantity)]
      BY <1>3, <2>1, <2>6 DEF Write
    <2>9. RestStays' /\ balance' = balance
      BY <1>3, <2>1, <2>4 DEF RestStays, OnlyItems
    <2>10. HalfPaid' /\ HalfCancelled'
      BY <1>3, <2>3, <2>4, <2>5, <2>7, <2>8, <2>9 DEF HalfPaid, HalfCancelled
    <2> QED
      BY <2>3, <2>4, <2>10, UnderwayInPay
  <1> QED
    BY <1>4, <1>5

-----------------------------------------------------------------------------
(* order::cancel, on its own and at the end of a payment *)

LEMMA ReloadAllowed ==
  ASSUME Serial, Hides, Reload(Me)
  PROVE  Underway' /\ Allowed
  <1> DEFINE k == Mine
             w == Wanted(k)
  <1> USE DEF PayCalls
  <1>1. k.pc = "reload" /\ up /\ UNCHANGED db
    BY DEF Reload, Fails, At, Mine
  <1>2. /\ k.does \in {"pay", "cancel"} /\ DOMAIN k = Fields
        /\ k.dirty <=> k.does = "pay"
    BY <1>1, PayFacts
  <1>3. CASE CopyItem(w.item) = {}
    <2>1. Down
      BY <1>3 DEF Reload, Fails, Mine, Wanted
    <2>2. k.does = "cancel" /\ ~k.dirty
      BY <1>1, <1>2, <1>3, MyFacts DEF Accurate
    <2> QED
      BY <1>1, <2>1, <2>2, Refuses
  <1>4. CASE CopyItem(w.item) # {}
    <2>1. PICK l : Goes(Me, l) /\ l = [k EXCEPT !.pc = "unfreeze", !.item = CopyItem(w.item)]
      BY <1>4 DEF Reload, Mine, Wanted
    <2>2. /\ l.pc = "unfreeze" /\ l.does = k.does /\ l.dirty = k.dirty /\ l.order = k.order
      BY <1>2, <2>1 DEF Fields
    <2>3. CASE k.does = "cancel"
      <3>1. Mine' = l /\ pre' = db' /\ Allowed
        BY <1>1, <1>2, <2>1, <2>2, <2>3, ReadsOn
      <3>2. items = pre[2]
        BY <1>2, <2>3, Shown
      <3>3. Wanted(Mine)' = w /\ Ware1' = w.item
        BY <2>2, <3>1 DEF Wanted, Ware1
      <3>4. Readable(pre'[2], w.item)
        BY <1>1, <1>4, <3>1, <3>2 DEF CopyItem, Copy, Readable, db
      <3> HIDE DEF k, w
      <3>5. HalfPaid' /\ HalfCancelled'
        BY <2>2, <2>3, <3>1, <3>3, <3>4 DEF HalfPaid, HalfCancelled
      <3> QED
        BY <1>2, <2>2, <2>3, <3>1, <3>5, UnderwayInPay
    <2>4. CASE k.does = "pay"
      <3>1. Mine' = l /\ pre' = pre /\ Allowed
        BY <1>1, <1>2, <2>1, <2>2, <2>4, PayGoes
      <3> DEFINE price == Price(k)
      <3>2. /\ RestStays /\ pre[1][w.customer] >= price /\ Readable(pre[2], w.item)
            /\ balance = [pre[1] EXCEPT ![w.customer] = pre[1][w.customer] - price,
                                        ![w.seller] = pre[1][w.seller] + price]
            /\ items = [pre[2] EXCEPT ![w.item] = Sold(@, w.quantity)]
        BY <1>1, <2>4, PaidFacts
      <3>3. Wanted(Mine)' = w /\ Price(Mine)' = price
        BY <2>2, <3>1 DEF Wanted, Price
      <3> HIDE DEF k, w, price
      <3>4. RestStays' /\ balance' = balance /\ items' = items
        BY <1>1, <3>1, <3>2 DEF RestStays, db
      <3>5. HalfPaid' /\ HalfCancelled'
        BY <2>2, <2>4, <3>1, <3>2, <3>3, <3>4 DEF HalfPaid, HalfCancelled
      <3> QED
        BY <1>2, <2>2, <2>4, <3>1, <3>5, UnderwayInPay
    <2> QED
      BY <1>2, <2>3, <2>4
  <1> QED
    BY <1>3, <1>4

LEMMA UnfreezeAllowed ==
  ASSUME Serial, Hides, Unfreeze(Me)
  PROVE  Underway' /\ Allowed
  <1> DEFINE k == Mine
             w == Wanted(k)
             price == Price(k)
  <1> USE DEF PayCalls
  <1>1. /\ k.pc = "unfreeze" /\ up /\ OnlyItems
        /\ items' = Write(items, w.item, Unfroze(The(k.item), w.quantity))
    BY DEF Unfreeze, At, Mine, Wanted
  <1>2. /\ k.does \in {"pay", "cancel"} /\ DOMAIN k = Fields
        /\ k.dirty <=> k.does = "pay"
    BY <1>1, PayFacts
  <1>3. PICK l : Goes(Me, l) /\ l = [k EXCEPT !.pc = "close", !.item = {}, !.dirty = TRUE]
    BY DEF Unfreeze, Mine
  <1>4. /\ l.pc = "close" /\ l.does = k.does /\ l.dirty /\ l.order = k.order
    BY <1>2, <1>3 DEF Fields
  <1>5. Mine' = l /\ pre' = pre /\ Allowed
    BY <1>1, <1>2, <1>3, <1>4, PayGoes
  <1>6. Wanted(Mine)' = w /\ Price(Mine)' = price
    BY <1>4, <1>5 DEF Wanted, Price
  <1>7. w.item \in DOMAIN items /\ The(k.item) = items[w.item]
    <2>1. k.item # {} /\ k.item \subseteq Ware
      BY <1>1, MyFacts DEF Sound, RequestSound, CopiesSound
    <2>2. The(k.item) \in k.item
      BY <2>1, TheIn
    <2>3. ASSUME NEW it \in k.item
          PROVE  w.item \in DOMAIN items /\ it = items[w.item]
      BY <1>1, <2>3, MyFacts DEF Accurate
    <2> QED
      BY <2>2, <2>3
  <1>8. items' = [items EXCEPT ![w.item] = Unfroze(@, w.quantity)]
    BY <1>1, <1>7 DEF Write
  <1>9. CASE k.does = "cancel"
    <2>1. /\ balance = pre[1] /\ items = pre[2] /\ orders = pre[3] /\ carts = pre[4]
          /\ lastItem = pre[5] /\ lastOrder = pre[6] /\ lastRow = pre[7]
      BY <1>2, <1>9, Shown
    <2>2. Readable(pre[2], w.item)
      BY <1>1, <1>9, PayFacts DEF HalfCancelled, Ware1
    <2>3. Ware1' = w.item
      BY <1>6 DEF Ware1
    <2> HIDE DEF k, w, price
    <2>4. RestStays' /\ balance' = pre'[1]
      BY <1>1, <1>5, <2>1 DEF RestStays, OnlyItems
    <2>5. HalfPaid' /\ HalfCancelled'
      BY <1>4, <1>5, <1>6, <1>8, <1>9, <2>1, <2>2, <2>3, <2>4 DEF HalfPaid, HalfCancelled
    <2> QED
      BY <1>4, <1>5, <1>9, <2>5, UnderwayInPay
  <1>10. CASE k.does = "pay"
    <2>1. /\ RestStays /\ pre[1][w.customer] >= price /\ Readable(pre[2], w.item)
          /\ balance = [pre[1] EXCEPT ![w.customer] = pre[1][w.customer] - price,
                                      ![w.seller] = pre[1][w.seller] + price]
          /\ items = [pre[2] EXCEPT ![w.item] = Sold(@, w.quantity)]
      BY <1>1, <1>10, PaidFacts
    <2> HIDE DEF k, w, price
    <2>2. RestStays' /\ balance' = balance
      BY <1>1, <1>5, <2>1 DEF RestStays, OnlyItems
    <2>3. items' = [pre'[2] EXCEPT ![w.item] = Unfroze(Sold(@, w.quantity), w.quantity)]
      BY <1>5, <1>7, <1>8, <2>1 DEF Readable
    <2>4. HalfPaid' /\ HalfCancelled'
      BY <1>4, <1>5, <1>6, <1>10, <2>1, <2>2, <2>3 DEF HalfPaid, HalfCancelled
    <2> QED
      BY <1>4, <1>5, <1>10, <2>4, UnderwayInPay
  <1> QED
    BY <1>2, <1>9, <1>10

LEMMA CloseAllowed ==
  ASSUME Serial, Hides, Close(Me), WithinBound'
  PROVE  Underway' /\ Allowed
  <1> DEFINE k == Mine
             w == Wanted(k)
             o == k.id
  <1> USE DEF PayCalls
  <1>1. /\ k.pc = "close" /\ up /\ Answers(Me, "success")
        /\ orders' = Without(orders, o) /\ OnlyOrders /\ UNCHANGED lastOrder
    BY DEF Close, At, Mine
  <1>2. /\ k.does \in {"pay", "cancel"} /\ o \in DOMAIN orders /\ o \in OrderIds
        /\ w = orders[o] /\ HalfCancelled
    BY <1>1, PayFacts
  <1>3. Mine' = Idle /\ up' = up /\ reply' = "success"
    BY <1>1, MyFacts, MyStep
  <1>4. pre' = db' /\ Underway' /\ M!Ready /\ M!Answer("success")
    BY <1>1, <1>2, Concludes
  <1>5. CASE k.does = "pay"
    BY <1>1, <1>3, <1>4, <1>5, MarketPays
  <1>6. CASE k.does = "cancel"
    <2>1. /\ RestStays /\ balance = pre[1] /\ Readable(pre[2], w.item)
          /\ items = [pre[2] EXCEPT ![w.item] = Unfroze(@, w.quantity)]
      BY <1>1, <1>2, <1>6 DEF HalfCancelled, Ware1
    <2>2. /\ pre'[1] = pre[1] /\ pre'[2] = items /\ pre'[3] = orders' /\ pre'[4] = pre[4]
          /\ pre'[5] = pre[5] /\ pre'[6] = pre[6] /\ pre'[7] = pre[7] /\ pre[3] = orders
      BY <1>1, <1>4, <2>1 DEF db, OnlyOrders, RestStays
    <2>3. M!Readable(pre[2], w.item)
      BY <2>1 DEF M!Readable, Readable, M!LegalTypes, LegalTypes
    <2>4. M!CloseOrder(o, pre[2][w.item])
      <3>1. items = [pre[2] EXCEPT ![w.item] = M!Unfroze(pre[2][w.item], w.quantity)]
        BY <2>1 DEF M!Unfroze, Unfroze, M!SizeSub, SizeSub
      <3>2. orders' = M!Keep(orders, DOMAIN orders \ {o})
        BY <1>1 DEF M!Keep, Keep, Without
      <3> QED
        BY <1>2, <2>2, <3>1, <3>2 DEF M!CloseOrder
    <2>5. M!CancelFound(o)
      BY <1>2, <1>4, <2>2, <2>3, <2>4 DEF M!CancelFound
    <2> QED
      BY <1>2, <1>4, <2>5 DEF Allowed, M!Next, M!OrdersCancel, M!OrderIds, OrderIds
  <1> QED
    BY <1>2, <1>4, <1>5, <1>6

-----------------------------------------------------------------------------
(* A step of the thread is a step of Market, or one it does not see *)

LEMMA StartAllowed ==
  ASSUME Serial, Hides, Start(Me)
  PROVE  Underway' /\ Allowed
  <1>1. At(Me, "idle")
    BY DEF Start, Starts
  <1> QED
    BY <1>1, CustomerAllowed, SellerAllowed, AnyoneAllowed DEF Start

LEMMA ContinueAllowed ==
  ASSUME Serial, Hides, Continue(Me), AsAlone', WithinBound'
  PROVE  Underway' /\ Allowed
  <1>1. CASE TopupStore(Me) \/ AddStore(Me) \/ CartEditStore(Me)
    BY <1>1, TopupAllowed, AddAllowed, CartEditAllowed
  <1>2. CASE ShowNext(Me) \/ ShowDone(Me)
    BY <1>2, ShowAllowed
  <1>3. CASE CheckoutRow(Me) \/ Create(Me) \/ Freeze(Me) \/ Insert(Me) \/ Unrow(Me)
             \/ CheckoutDone(Me)
    BY <1>3, RowAllowed, CreateAllowed, FreezeAllowed, InsertAllowed, UnrowAllowed,
       CheckoutDoneAllowed
  <1>4. CASE PayCustomer(Me) \/ PaySeller(Me) \/ PayItem(Me) \/ Debit(Me) \/ Credit(Me)
    BY <1>4, PayReadsAllowed, DebitAllowed, CreditAllowed
  <1>5. CASE MarkSold(Me) \/ Reload(Me) \/ Unfreeze(Me) \/ Close(Me)
    BY <1>5, MarkSoldAllowed, ReloadAllowed, UnfreezeAllowed, CloseAllowed
  <1>6. CASE EditStore(Me) \/ Uncart(Me) \/ Drop(Me) \/ SaleStore(Me) \/ SaleDone(Me)
    BY <1>6, EditAllowed, UncartAllowed, DropAllowed, SaleStoreAllowed, SaleDoneAllowed
  <1> QED
    BY <1>1, <1>2, <1>3, <1>4, <1>5, <1>6 DEF Continue

LEMMA RestartAllowed ==
  ASSUME Serial, Hides, Restart
  PROVE  Underway' /\ Allowed
  <1>1. ~up /\ up' = TRUE /\ UNCHANGED <<db, th, reply>>
    BY DEF Restart
  <1>2. Mine = Idle /\ Mine' = Idle
    BY <1>1, MyFacts DEF Mine
  <1>3. pre' = db' /\ pre' = pre
    BY <1>1, <1>2 DEF Hides, Serial, Underway, Idle
  <1>4. ~CheckingOut /\ ~CheckingOut'
    BY <1>2 DEF CheckingOut, Mine, Idle
  <1>5. M!Restart
    BY <1>1, <1>3, <1>4 DEF M!Restart, M!db
  <1> QED
    BY <1>2, <1>3, <1>5, IdleUnderway DEF Allowed, M!Next

\* The only thread finds no other whose rows it could write to, or whose writes it
\* could cut short.
LEMMA NoneOther ==
  ASSUME ~raced, ~torn, [SerialNext]_<<vars, pre>>
  PROVE  ~raced' /\ ~torn'
  <1>1. Threads \ {Me} = {}
    BY OneThread
  <1>2. CASE Restart \/ UNCHANGED <<vars, pre>>
    BY <1>2 DEF Restart, vars
  <1>3. CASE Step(Me)
    BY <1>1, <1>3 DEF Step, History
  <1> QED
    BY <1>2, <1>3, OneThread, OneThreadAssumption DEF SerialNext, Next, Kill

LEMMA SerialStep ==
  ASSUME Serial, [SerialNext]_<<vars, pre>>, WithinBound'
  PROVE  Serial' /\ [M!Next]_(M!vars)
  <1>1. AsAlone'
    BY AsAloneStep DEF Serial, SerialNext
  <1>2. ~raced' /\ ~torn'
    BY NoneOther DEF Serial
  <1>3. CASE UNCHANGED <<vars, pre>>
    <2>1. UNCHANGED <<Mine, up, reply, db, pre>>
      BY <1>3 DEF vars, Mine
    <2>2. Underway'
      BY <2>1 DEF Serial, Underway, Asked, Visiting, HalfOrdered, HalfPaid, HalfCancelled,
         HalfRemoved, HalfOnSale, RestStays, Chosen, Row1, Ware1, db
    <2>3. UNCHANGED M!vars
      BY <2>1 DEF M!vars, M!db, M!run, CheckingOut, Mine
    <2> QED
      BY <1>1, <1>2, <2>2, <2>3 DEF Serial
  <1>4. CASE SerialNext
    <2>1. Hides
      BY <1>4 DEF SerialNext, Hides, Mine
    <2>2. CASE Restart
      BY <1>1, <1>2, <2>1, <2>2, RestartAllowed DEF Serial, Allowed
    <2>3. ASSUME Step(Me)
          PROVE  Serial' /\ [M!Next]_(M!vars)
      <3>1. Underway' /\ Allowed
        BY <1>1, <2>1, <2>3, StartAllowed, ContinueAllowed DEF Step
      <3> QED
        BY <1>1, <1>2, <3>1 DEF Serial, Allowed
    <2> QED
      BY <1>4, <2>2, <2>3, OneThread, OneThreadAssumption DEF SerialNext, Next, Kill
  <1> QED
    BY <1>3, <1>4

LEMMA SerialAtFirst ==
  ASSUME SerialInit
  PROVE  Serial /\ M!Init
  <1>1. Mine = Idle /\ pre = db
    BY OneThread DEF SerialInit, Init, Mine
  <1>2. Underway
    BY <1>1 DEF Underway, Idle, Asked, Visiting, HalfOrdered, HalfPaid, HalfCancelled,
       HalfRemoved, HalfOnSale
  <1>3. Serial
    BY <1>2, AsAloneAtFirst DEF Serial, SerialInit, Init
  <1>4. ~CheckingOut
    BY <1>1 DEF CheckingOut, Mine, Idle
  <1>5. M!Init
    BY <1>1, <1>4 DEF M!Init, SerialInit, Init, db, Empty, M!Empty, Nobody, M!Nobody
  <1> QED
    BY <1>3, <1>5

\* With one thread that is not killed, the handlers of server_interface.h, each a
\* sequence of storage calls with no transaction around it, implement the requests
\* of Market, each a single step, for every value of the constants, as long as the
\* wallets stay within the bound Market puts on them.  What holds of Market holds
\* of such a server whenever its handler is between two requests, and a null
\* pointer that ends the process between two writes leaves the tables as Market's
\* Crash does.
THEOREM OneClientSeesMarket == SerialSpec /\ []WithinBound => ImplementsMarket
  <1>1. SerialInit => Serial /\ M!Init
    BY SerialAtFirst
  <1>2. Serial /\ [SerialNext]_<<vars, pre>> /\ WithinBound' =>
          Serial' /\ [M!Next]_(M!vars)
    BY SerialStep
  <1> QED
    BY <1>1, <1>2, PTL DEF SerialSpec, ImplementsMarket, M!Spec

\* One client at a time is never in its own way: whenever its handler is between two
\* requests, also after a null pointer ended the process in the middle of one, stock
\* and orders agree, carts have one row per item, and every wallet holds what its
\* top-ups and payments come to, with no bound on the wallets.
THEOREM OneClientCoherent ==
  SerialSpec => [](Mine = Idle => StockCoherent /\ CartsCoherent /\ balance = expected)
  <1> DEFINE Apart == ~raced /\ ~torn
  <1>1. SerialInit => Init /\ Apart
    BY DEF SerialInit, Init
  <1>2. [SerialNext]_<<vars, pre>> => [Next]_vars
    BY DEF SerialNext
  <1>3. Apart /\ [SerialNext]_<<vars, pre>> => Apart'
    BY NoneOther
  <1>4. Apart /\ CoherentWhenApart =>
          (Mine = Idle => StockCoherent /\ CartsCoherent /\ balance = expected)
    BY OneThread DEF CoherentWhenApart, Mine
  <1> HIDE DEF Apart
  <1> QED
    BY <1>1, <1>2, <1>3, <1>4, InterfereOnlyOnSharedRows, PTL DEF SerialSpec, Spec
=====
