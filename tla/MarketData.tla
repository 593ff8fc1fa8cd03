----------------------------- MODULE MarketData -----------------------------
(***************************************************************************)
(* The rows the server keeps in its four SQLite tables and the pure        *)
(* arithmetic of the handler classes (server_interface.h): prices,         *)
(* discounts, stock and the fixed widths of size_t and long long.          *)
(* A table is a function from the ids present to their rows.               *)
(***************************************************************************)
EXTENDS Integers, FiniteSets

CONSTANTS
  Users,       \* ids of the registered accounts (rows of "users" are never deleted)
  Sellers,     \* the accounts whose client shows the seller menu
  Prices,      \* prices in cents; the client accepts negative ones
  Discounts,   \* discounts in halves: 2 is the factor 1, 1 is the factor 0.5
  Quantities,  \* quantities typed by a customer, already converted to size_t
  Stocks,      \* stocks typed by a seller, an int
  Topups,      \* amounts of a top-up; the client accepts negative ones
  Types,       \* item types typed by a seller; 0, 1, 2 are the legal ones
  SizeMod,     \* 2^w of size_t
  MoneyMod,    \* 2^w of unsigned long long
  MaxItems,    \* bound: items ever added
  MaxOrders,   \* bound: orders ever created
  MaxRows,     \* bound: cart rows ever inserted
  MaxBalance   \* bound: absolute value of a balance

\* Ids are unsigned, start at 1, and 0 stands for nobody (current_user == 0).
ASSUME UsersAssumption == Users \subseteq Nat \ {0} /\ Sellers \subseteq Users
ASSUME MoneyAssumption ==
  /\ Prices \subseteq Int /\ Discounts \subseteq Int /\ Topups \subseteq Int
  /\ MoneyMod \in Nat \ {0}
ASSUME SizeAssumption ==
  /\ SizeMod \in Nat \ {0, 1}
  /\ Quantities \subseteq 0 .. (SizeMod - 1)
  /\ Stocks \subseteq Int
ASSUME TypesAssumption == Types \subseteq Int
ASSUME BoundsAssumption ==
  /\ MaxItems \in Nat /\ MaxOrders \in Nat /\ MaxRows \in Nat
  /\ MaxBalance \in Nat

Nobody == 0

\* The discount a new item gets, the factor 1.
NoDiscount == 2

-----------------------------------------------------------------------------
(* Tables *)

\* Write row v under key k: an INSERT of a new key or an UPDATE of a full row.
Put(f, k, v) == [x \in DOMAIN f \cup {k} |-> IF x = k THEN v ELSE f[x]]

\* Keep only the rows of keys: a DELETE of all the others.
Keep(f, keys) == [x \in DOMAIN f \cap keys |-> f[x]]

Empty == [x \in {} |-> 0]

-----------------------------------------------------------------------------
(* Widths *)

Size == 0 .. (SizeMod - 1)

\* size_t addition and subtraction: one wrap is enough for two size_t.
SizeAdd(a, b) == IF a + b < SizeMod THEN a + b ELSE a + b - SizeMod
SizeSub(a, b) == IF a >= b THEN a - b ELSE a - b + SizeMod

\* An int converted to size_t for a comparison.
AsSize(n) == n % SizeMod

\* unsigned long long to long long, as order::pay hands the price to
\* base_user::pay and base_user::topup.
Signed(n) == IF 2 * n < MoneyMod THEN n ELSE n - MoneyMod

-----------------------------------------------------------------------------
(* Prices *)

\* The conversion of price * discount to long long drops the fraction towards 0.
Discounted(it) ==
  LET twice == it.price * it.discount
  IN IF twice >= 0 THEN twice \div 2 ELSE -((-twice) \div 2)

\* itemp->getPrice() * item.quantity, an unsigned long long.
OrderPrice(it, q) == (Discounted(it) * q) % MoneyMod

-----------------------------------------------------------------------------
(* Items *)

LegalTypes == 0 .. 2

\* base_item::get gives an object, not a null pointer: the row is there and
\* its type is one of ITEM_TYPE.
Readable(its, i) == i \in DOMAIN its /\ its[i].type \in LegalTypes

NewItem(seller, price, type) ==
  [seller |-> seller, price |-> price, type |-> type,
   discount |-> NoDiscount, stock |-> 1, frozen |-> 0]

\* Faults: available_stock that forgets what is frozen, froze, unfroze and
\* sold that do not do their part.
AvailableIgnoresFrozen(it) == it.stock
FrozeNothing(it, q) == it
UnfrozeNothing(it, q) == it
SoldNothing(it, q) == it

Available(it) == SizeSub(it.stock, it.frozen)
Froze(it, q) == [it EXCEPT !.frozen = SizeAdd(@, q)]
Unfroze(it, q) == [it EXCEPT !.frozen = SizeSub(@, q)]
Sold(it, q) == [it EXCEPT !.stock = SizeSub(@, q)]

-----------------------------------------------------------------------------
(* Orders and cart rows *)

NewOrder(user, row, it) ==
  [item |-> row.item, quantity |-> row.quantity, customer |-> user,
   seller |-> it.seller, price |-> OrderPrice(it, row.quantity)]

CartRow(user, item, quantity) ==
  [user |-> user, item |-> item, quantity |-> quantity]

Item == [seller : Users, price : Int, type : Int, discount : Int,
         stock : Size, frozen : Size]
Order == [item : 1 .. MaxItems, quantity : Size,
          customer : Users, seller : Users, price : Int]
Row == [user : Users, item : 1 .. MaxItems, quantity : Size]
=============================================================================
