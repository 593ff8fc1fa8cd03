# A verification project for cpp-emarket

cpp-emarket is a small market. A client shows menus on a terminal and sends one
request per command over TCP; a server keeps accounts, items, carts and orders in
SQLite and answers. This directory holds TLA+ models of the server, the client and
what passes between them, configurations that model-check them with TLC, and proofs
that TLAPS checks.

Contents

1. The system: components, state, operations, interactions
2. What is hard about it
3. Plan: modules, order, abstract specifications, runs, theorems
4. What is modelled and how it corresponds to the code
5. The runs, their bounds and the fairness they assume
6. What is proved
7. Disagreements between the code and its own words
8. What is not modelled

## 1. The system

| component | source | state | operations |
|---|---|---|---|
| storage | `server_interface.cpp:14-47`, `sqlite_orm.h` | tables `users`, `items`, `orders`, `item_cart`; AUTOINCREMENT counters | insert, get, update of a full row, remove |
| user wallet | `base_user`, `server_interface.h:15-106` | a copy of a user row | `topup`, `pay` |
| accounts | `base_user`, `server_session.cpp:119-140, 242-252` | name, password, type of a user row | `login`, `signup`, `passwd` |
| items | `base_item`, `server_interface.h:136-256` | a copy of an item row | `insert`, `edit`, `sale`, `froze`, `unfroze`, `sold`, `remove`, `query` |
| cart | `cart`, `server_interface.cpp:218-303` | copies of all rows of a user | `add`, `edit`, `remove`, `checkout`, `list` |
| orders | `order`, `server_interface.cpp:305-372` | a copy of an order row | `create`, `pay`, `cancel`, listing |
| dispatch | `server_session.cpp:30-100` | none | one handler per request type |
| server threads | `server_session.cpp:15-28, 102-117` | one socket and one handler each | accept, serve, answer |
| wire format | `data_type.cpp:8-70` | bytes on a stream | `send`, `recv` field by field |
| payload | `data_type.cpp:86-114` | none | `split`, `join` |
| price texts | `getPriceStr`, `get_price`, `get_balance` | none | cents to text |
| client session | `client_session.cpp` | `current_user`, `user_type`, the stack of cli sessions | the menu commands, `feed` |
| cli library | `include/cli/` | current menu, history | `Start`, `Feed`, `Exit` |
| sockpp | `src/sockpp/` | a handle and its last error | `read`, `write`, `accept`, `connect`, `close`, move, destruction |
| connection holder | `sqlite_orm.h:7054-7118` | the count of users of one connection | `retain`, `release` |

How they interact. `client_session::feed` opens a connection, sends one request,
reads one answer and closes. `session::Start` accepts and gives each connection a
detached thread; `serve` reads the request, `exec` dispatches it to a handler, the
answer is sent and the thread ends. Handlers share nothing but the tables. They
load rows into copies, compute on the copies and write whole rows back with
`storage.update`. There is no lock and no transaction, so a handler of five storage
calls is five separate steps as far as other threads are concerned. Built as the
README's offline version, `feed` calls `exec` directly and there is one thread.

A request names its user by id, and the server believes it. Items, orders and cart
rows are named by numbers a person types; `orders_pay`, `orders_cancel`,
`seller_edit` and `seller_remove` do not look at who asks.

What makes each component correct:

- storage: a row that was removed does not come back, an id is not given twice;
- wallet: no balance below zero, money leaves only for an order and closes it;
- items and orders: what is frozen is exactly what open orders hold, a unit is
  promised to one order, an order leaves by being paid or by being cancelled and
  never by half of each;
- cart: one row per item, removed items leave it, a checkout orders all it can;
- threads: every request ends, and requests on different rows do not disturb each
  other;
- accounts: one account per name, the password last set is the one checked;
- wire: a request is executed as it was sent unless a read came short, an answer is
  the server's, both ends come to an end;
- sockets: a descriptor has one owner, and is closed once;
- connection holder: the database is open, once, exactly while somebody uses it;
- client session: the menu shown, `current_user` and the login agree, and a session
  that was freed reads nothing.

## 2. What is hard about it

`PROJECT.json` lists each hazard at its line. In short: check-then-act on copies
(`order::create`, `base_user::pay`, `cart::add`, `signup`), writes of whole rows
from stale copies (every `update()`), requests made of several writes that a null
pointer or a kill can cut anywhere (`order::pay`, the loop of `cart::checkout`),
references from orders and carts to items that are gone, unsigned arithmetic on
stock and prices, and on the other side of the wire short reads into fields that
were never written and sessions of the client that nest.

## 3. Plan

| order | module | about | status |
|---|---|---|---|
| 1 | `MarketData` | rows, widths, prices, changes to one item row | done |
| 2 | `StockLedger` | abstract: where the unit of each item is | done |
| 3 | `Market` | requests one at a time; implements `StockLedger` | done |
| 4 | `MarketThreads`, `ThreadsProofs`, `ApartProofs` | the same handlers one storage call at a time, many threads | done |
| 5 | `MarketSerial`, `SerialProofs` | `MarketThreads` with one thread implements `Market` | done |
| 6 | `MarketProofs` | theorems about `Market` | done |
| 7 | `Accounts`, `AccountsProofs` | names, passwords, two-call signup, shared user row | done |
| 8 | `ServerLoop`, `ServerProofs` | who owns a descriptor; the count of users of one SQLite connection | done |
| 9 | `Payload`, `Wire`, `WireProofs` | fields on a stream that may end anywhere, `serve` and `feed` | done |
| 10 | `ClientSession`, `ClientProofs` | the nested sessions, login and logout | done |

The abstract specifications are the ledger of units and the market of one-step
requests, which the threaded server implements when it has one thread. `Accounts` and
`Wire` carry what they promise in history variables instead (`due`, `sent`,
`answered`), because the code keeps the promise only under a condition (no crossing
requests, no short read) that the properties have to name.

Which module stands next to which. `Wire` delivers requests and answers; what is in
them is `Market`'s or `Accounts`'. `ClientSession` says which requests a person can
make, and for whom. `ServerLoop` has the threads and the connection that
`MarketThreads` and `Accounts` take for granted: their storage calls are atomic, and
`ServerLoop` shows under which condition a call finds the database at all.

Every safety property, every action property and both refinements that the passing runs
check are also theorems; section 6 says along which argument, and what stays with TLC.

## 4. What is modelled

**`MarketData`** has the data both market modules share. A table is a function from
the ids present to rows. `Put` is an insert, `Keep` a delete. `size_t` is
arithmetic modulo `SizeMod` (`SizeAdd`, `SizeSub`), an order's price is an unsigned
number modulo `MoneyMod` and `Signed` is its conversion back, as `order::pay` makes
it. Discounts are in halves, so that the truncation of `getPrice` is there.
`Readable` says when `base_item::get` returns an object rather than null: the row
exists and its type is one of the three of `ITEM_TYPE`. Names, descriptions and the
texts of answers are left out; an answer is `"success"` or `"failure"`.

**`Market`** has one action per request, named as its handler: `WalletTopup`,
`AddToCart`, `CartEdit`, `CartRemove`, `CheckoutStart`, `CheckoutRow`,
`CheckoutDone`, `OrdersPay`, `OrdersCancel`, `SellerAdd`, `SellerEdit`,
`SellerRemove`, `SellerSale`, and the requests that only read, `CartShow`,
`OrdersShow`, `SellerList`, `Search`, `WalletShow`. The loop of `cart::checkout`
takes one step per row. A dereferenced null pointer is `Crash`: the process ends
without an answer, what was written before it stays (`PayAccepted` keeps the moved
money), and `Restart` opens the same file. `Kill` ends the process from outside.
Sellers use the customer's commands too, because their menu has them. `SellerEdit`
stands for a request whose numbers parse: a blank price or type is that of the row.

| `Market` | code |
|---|---|
| `balance`, `items`, `orders`, `carts` | the four tables |
| `lastItem`, `lastOrder`, `lastRow` | AUTOINCREMENT |
| `up` | the process is alive |
| `busy`, `pending`, `allOk` | the running `cart::checkout`: user, rows left, `all_success` |
| `reply` | the last answer |

**`StockLedger`** knows items as single units: `seller_add` sets the stock to 1 and
`seller_edit` never changes it. A unit is listed, held by one order under a new id,
and released or sold from there; withdrawing an item takes the unit away and leaves
the order. `Market!ImplementsLedger` maps the tables to it.

**`MarketThreads`** has the same handlers split at every storage call. `th[t]` is the
local state of thread `t`: which call it makes next (`pc`), what was asked, and the
copies it holds. `order::pay` is `PayLoad`, `PayCustomer`, `PaySeller`, `PayItem`,
`Debit`, `Credit`, `MarkSold`, `Reload`, `Unfreeze`, `Close`; a row of a checkout is
`CheckoutRow`, `Create`, `Freeze`, `Insert`, `Unrow`. `Write` is `storage.update`,
which changes nothing if the row is gone. When one thread dereferences null all of
them end (`Down`). Three history variables say whether handlers wrote rows in use by
others (`raced`), whether the process ended between two writes (`torn`), and what each
wallet should hold if every top-up and every payment were a single step (`expected`).

**`MarketSerial`** adds the variable `pre`, the tables when last no handler was
between two writes, and maps the threaded server with one thread to `Market` through
it. Every early return, crash and loop of the handlers has to match for this to hold.
`ImplementsMarket` is the safety part of `Market`, `CheckoutGoesOn` its fairness.

**`Accounts`** has the table `users` whole, and `signup`, `login`, `passwd`,
`wallet_topup` and `wallet_show` one storage call at a time. `SignupTest` is
`base_user::exist` and `SignupInsert` the `storage.insert` after it, `PasswdLoad` and
`TopupLoad` are `base_user::get`, and `Store` is `base_user::update`, which writes
name, type, password and balance from the copy. `Found` is `match[0]` of the rows of
a name. A signup's target is any number, so that accounts exist which
`base_user::get` cannot make an object of: for those `login` and `passwd` answer and
`wallet_topup` and `wallet_show` dereference null (`Down`). Histories: `rivals` are
names inserted while another signup had tested them, `crossed` are accounts written
while another request held a copy, `due` is what the answers promise.

**`Payload`** has `Join` and `Split` as `base_data::join` and `base_data::split` compute
them, over sequences of bytes: `Glue` is the body of the loop over the fields, `Cut` of
the loop over the bytes, and the two are recursive functions over a prefix.

**`Wire`** is one request on one connection. Each end has a list of pieces to write
(`RequestPieces`, `ResponsePieces`) and of fields to read (`RequestFields`,
`ResponseFields`); `Write`, `ReadInt`, `ReadLen` and `ReadText` do one `send` or `recv`
each. A `recv` returns any number of the bytes that are there, and nothing at the end
of the stream; the message object keeps what it had, for an int that means bytes
never written (`Junk`), which later read as any byte. `ReadLen` resizes the buffer by
a length that may be such junk; from `HugeLen` on `resize` throws (`Throws`), which
ends the server (`ServeThrows`) and is caught in the client (`FeedThrows`).
TCP is external: a closed end gives the other the end of the stream, or a reset when
bytes were left unread or arrive afterwards; a reset loses bytes, is reported once, and
a write after it raises SIGPIPE.

| `Wire` | code |
|---|---|
| `end[x].pc`, `out`, `fields` | where `feed` or `serve` is in its `send` and `recv` |
| `end[x].got`, `end[x].text` | the message object |
| `inq`, `gone`, `rst` | the two streams of the connection |
| `Connect`, `ConnectFails`, `Awaits`, `Returns`, `FeedThrows` | `client_session::feed` |
| `Exec`, `Done`, `ServeThrows`, `ServePipe` | `session::serve` |
| `Dies`, `Restart` | the server's process |

**`ClientSession`** has the stack of running loops. `login` and `logout` are commands of
a session: they tell it to exit, replace it (which frees it) and run the loop of the
new one inside the command. An element of `stack` is a loop: its session's menu tree
and owner, the menu it is in, its exit flag and the command that started it. Only the
top one's session still exists. `FeedLine` is `CliSession::Feed`: `help` and `exit`
first, then `Menu::ScanCmds` of the current menu (`Scan`, `ExecMenu`, `ExecLeaf`,
`RunsIn`), which also reaches commands of a submenu or of the parent by name.
`LoopEnds` pops a loop into the one below, whose session was freed: what is read there
is the flag as it was left, or anything (`pc = "wild"`). `Login` has all three outcomes
of an answer, the one that never came included (`LoginOnJunk`). `user_type` starts as
anything, because the constructor does not set it.

**`ServerLoop`** has what the threads share besides the rows. `main` and `conn` are the
loop of `session::Start` and the socket in it, `sock[t]` the socket of a thread, `fds` the
process's descriptors. A storage call is the list of things it does with the
connection (`StatementCall` for `prepare` and `execute`, `ViewCall` for `iterate`);
`++_retain_count`, its test and `sqlite3_open` are separate steps (`Reads`, `Adds`,
`Added`, `Opens`), and so are those of `release`. The test may look at the value that was
written or at the count as it is then (`Seen`): both are what a compiler makes of
`++n; if(1 == n)` on a plain int. `Opens` fails when no descriptor is left, and `Prepares`
and `Steps` may fail at any time: a write needs a descriptor for its journal even
while the database is open, and a disk can be full. `Throws` is the exception. The
handlers of `cart.add` and `cart.edit` catch that of their second and last call, not that
of the constructor of `cart` before it, and nothing else is caught (`tried`); `Unwinds` is
what the destructors on its way still do. `fate` says how the storage ended the server,
if it did (`Fates`). `Closes` has the four cases of `sqlite3_close`: a null handle, one
with statements left, one that can be closed, and one closed before (`"wild"`).

**`MCMarket`, `MCThreads`, `MCSerial`, `MCAccounts`, `MCWire`, `MCClient`, `MCServer`** give
the constants values.

Definitions marked as faults in the modules (`CrashKeepsRequest`, `SoldNothing`,
`WriteRevives`, ...) are not used by any specification. Each is a plausible mistake
in the definition after it, kept to show which property notices it.

## 5. The runs

Bounds are constants: `MaxItems`, `MaxOrders`, `MaxRows` on ids ever given,
`MaxBalance` on wallets, `MaxRequests` on requests of a threaded run. They appear
only as guards. Account 1 buys; account 2 sells and may buy from itself. One price
(2), one top-up (2) and one discount (a half) are enough for every branch of pay and
sale; an item costs 2 or, on sale, 1. Types are 0, which is legal, and 3, which is
not. `SizeMod` is 2 in `market` and 3 elsewhere, small enough for two additions to a
cart to wrap to 0 and for a subtraction below 0 to wrap to a stock that looks
available.

| run | what it shows |
|---|---|
| `market` | Two items, two orders, two rows, with crashes, kills and restarts. Two orders are enough for a unit to be ordered, given back and ordered again; two rows for a checkout that is cut between them. Quantity 0 comes from a wrap. |
| `threads` | Two threads, three requests, killed at any moment, from two databases the market can be in: both accounts want the only item; or one has ordered it and there is another. Three requests let two interfere and a third follow. |
| `serial` | One thread, six requests from the empty database: enough to add, top up, put in a cart, check out, pay, and do one thing more. `MaxBalance` is more than six top-ups can reach, so that the bound `Market` has on wallets never stops it. |
| `accounts` | Two threads, three accounts, two names of which two people want one, five requests (`MaxRequests`), killed at any moment. Two signups of one name and a third request that looks at the result; a passwd and a topup that cross, and one on another account. |
| `wire` | Bytes 0, 1 and 2, ints of two bytes (`Width`, `ByteMod`): the order of the bytes and a half-read int both matter. Three requests: with an empty field, with no field, with the delimiter typed into a field. Lengths from 6 on throw (`HugeLen`); those below include all that junk can make shorter or longer than the text. |
| `client` | A customer and a seller, seven loops (`MaxDepth`): three logins with the logouts between them. The lines include each kind the cli tells apart: a command, one of a submenu by name, a menu, the parent's, wrong numbers of words, a word that is no number. |
| `server` | Two serving threads while the loop accepts a third connection, three descriptors, two storage calls per request (`MaxCalls`), which is what `cart.add` makes: one outside and one inside of its try block. Enough for two sockets and the database, and for no database when a third connection waits. `MaxCount` bounds how far lost updates may take the count; 5 is more than the references of both threads. Threads are interchangeable, and so are descriptors (`SYMMETRY`; the run has no liveness property). |
| `find_money`, `find_cancel`, `find_stock`, `find_oversell`, `find_pipe` | The disagreements of section 7. |

Properties of `market`:
`OneUnitReserved` (stock and orders agree), `OneRowPerItem`, `RemovalLeavesNoRow`,
`CheckoutOutcome` (what a checkout leaves in the cart is what it could not order),
`MoneyTakenClosesOrder`, `OrderLeavesOneWay`, `NoOverdraft`, `ImplementsLedger`,
`CheckoutEnds`.

Properties of `threads`:
`NoOverdraft` (true under every interleaving, because what is written was computed
from the copy that was tested), `OrderCopyIsThatOrder` (AUTOINCREMENT is what makes a
late pay or cancel harmless to other orders), `NothingRevives`, `CoherentWhenApart`
(requests that share no row, or do not overlap, keep everything in agreement
whatever their interleaving), `RequestsEnd`, `CallsRunOut` (what a handler has still to do
was settled when it loaded its rows: each of its calls brings its end nearer, and
nothing other threads write meanwhile adds one).

Properties of `serial`: `ImplementsMarket`, `CheckoutGoesOn`.

Properties of `accounts`: `UniqueNames` (a name has two accounts only if their signups
crossed), `NameKeepsAccount` (even then it leads to the first, for ever),
`LossOnlyByCrossing` (a password or a balance is lost only by two requests that crossed
on that account).

Properties of `wire`: `ExecutedAsSent`, `FieldsArrive` (what the handler sees is what was
typed, unless the delimiter was), `AnswerIsTheServers`, `FeedEnds` and `ServeEnds` (two
ends that misread each other still come to an end: each field is one `recv`, which does
not insist on its bytes; with `read_n` they would wait for each other).

Properties of `client`: `RequestsAreTheOwners`, `SellerMenuIsASellers`, `FreedNeverRead`
(every loop under the top one was told to exit, which is all that keeps freed memory
from reading lines), `LoginsAgree`, `QuitEnds`.

Properties of `server`: `HandlesOwned`; `SharedByAll`; `HarmOnlyByRace` (a failed open,
prepare or step can end the server by its own exception, but leads no thread to use or
close a connection that is gone, nor to close one with a statement left; only overlapping
sections do); `ShortageIsForGood`.

The threaded server does not keep stock and orders in agreement when two requests
use the same rows, and the models do not pretend it: `CoherentWhenApart` states how
far the agreement goes, and `NoOversell` is refuted.

Fairness. `Market!FairSpec` asks that the loop of a running checkout goes on, and
`MarketThreads!FairSpec` that a thread inside a handler takes its next step. The
operating system schedules runnable threads and no handler waits for another, so
this is what the code has. Nothing is assumed of clients: no request ever has to be
made, and the process need not be started again. `Wire!FairSpec` asks that both programs
go on while they can and that the network delivers a reset; a server that is down need
not come back, and a person need not leave. `ClientSession!FairSpec` asks that a loop that
was told to exit, or whose input ended, ends; no line has to be typed. `Accounts` and
`ServerLoop` state no liveness: their requests have no loops.

Deadlock is checked in `market` and `threads`. `serial` and `find_oversell` are not
ended from outside and stop when their requests are used up. `client` ends when the person
leaves, and `server` when the storage ends the process, which nothing here restarts.

## 6. What is proved

`MarketProofs` proves for every value of the constants, with only the assumptions
named in `MarketData` (ids are positive, prices are integers, `SizeMod` is at least 2
and quantities are below it):

- `TypeCorrect`: `Spec => []TypeOK`. `TypeOK` is inductive. Beyond types it says that
  ids lie within the AUTOINCREMENT counters, that an order names an item that was
  once added, and that the loop of a checkout holds only rows of its user that are
  still in the table. The last is why `CheckoutRow` may use a row loaded before.
- `StockCorrect`: `Spec => []OneUnitReserved`. The invariant is inductive relative to
  `TypeOK`. It says that a frozen item has an order that holds its unit, that an
  unfrozen one has none, and that two orders never hold the same unit even after the
  item was removed. Each part needs the others: without uniqueness a cancel could
  unfreeze a unit that another order still holds; without `frozen <= stock` the
  subtraction of `available_stock` could wrap and let a second order in; without the
  bound on an order's quantity `froze` could pass the stock; and without `TypeOK`'s
  link of order to item counter a new item could meet an old order.

The proof of each step goes action by action. `ItemChanges`, `CreateOrderType`,
`CloseOrderType`, `CreateReserves`, `CloseReleases` and `AddReserves` are the lemmas
about the operations several actions share.

`LedgerCorrect`, in the same module: the tables implement the ledger, `Spec => ImplementsLedger`.
`OneUnitReserved` makes the holder of a unit a function of the tables (`HolderIs`), so
it is enough to show that each request moves at most one unit: `order::create` takes
a free one under a new id (`CreateMoves`), `order::cancel` frees it or, after `sold`,
takes it away (`CloseMoves`), `seller_add` and `base_item::remove` list and withdraw
one (`AddMoves`, `RemoveMoves`), and everything else moves none (`NoUnitMoves`). An
order for no unit only uses up an id.

The last part of `MarketProofs` has the properties of single requests, from the same invariant:

- `CartsCorrect`: `OneRowPerItem`, which is inductive with `TypeOK`.
- `RemovalCorrect`: `RemovalLeavesNoRow`. The lemma `WhatRemoves` says that only
  `base_item::remove` takes items away and only pay and cancel take orders away.
- `OrdersLeaveWhole`: `OrderLeavesOneWay`. `CloseNumbers` shows that the subtractions of
  `sold`, `unfroze` and `available_stock` do not wrap, which is where
  `OneUnitReserved` is needed.
- `MoneyCorrect` and `WalletsCovered`: `MoneyTakenClosesOrder` and `NoOverdraft`, for
  every price. They assume that no top-up is negative (`Topups \subseteq Nat`), which
  the code does not check: a negative top-up takes money from a wallet for no order.

- `CheckoutCorrect`: `CheckoutOutcome`. `LoopInv` says of the rows that the loop has visited
  and not ordered that each is short of stock, and that `all_success` knows whether there
  are any. It needs `OneRowPerItem`: an order changes the stock of one item, which no
  other row of the user asks for.

`AccountsProofs` proves all four properties of `Accounts`, for any number of threads,
names and accounts, from `AccountsAssumption` (amounts are integers). The inductive
invariant `Inv` adds to `TypeOK` what the copies are: the copy a thread holds of an
account has that account's name and type, and is the row itself unless the account was
crossed (`CopiesTrue`); and a name that a thread is about to insert is nobody's unless it
is one of `rivals` (`InsertsFresh`). The first gives `LossOnlyByCrossing`, because a copy
that is still the row can be written back without harm, and `NameKeepsAccount`, because
no write changes a name; the second gives `UniqueNames`.

`ServerProofs` proves all properties of `ServerLoop`, for any threads and any descriptors.

- `DescriptorsOwned`: `Spec => []HandlesOwned`. `Inv` adds when there is a socket at all:
  the accepting loop has one only between `accept` and the move, a thread only while it
  serves (`NothingLost`), so that no handle is overwritten; `StorageApart` shows that the
  storage touches only descriptors that are free or the database's, even when its count
  is wrong, which is why the race of the count never reaches a connection.
- `ServerTypes`, `ConnectionShared`, `HarmNeedsRace`, `ShortageStays`: `TypeOK`,
  `SharedByAll`, `HarmOnlyByRace` and `ShortageIsForGood`. `SharedByAll` speaks only of the
  moments when no thread is inside `retain` or `release`, and is not inductive. What is,
  says of each thread how many references it has from what is left of its storage call
  (`Stage`, which follows the `Script` of the call), and of the count, at each point
  inside a section, by how much it is ahead of or behind the number of references. One
  more or one less reference is one more or one less element of the set `References`
  (`OneMore`, `OneLess`), which needs no sum over the threads. Until two sections
  overlap only one thread is ever between reading the count and storing it, so its
  register is the count; after that the invariant about the count says no more, and the
  theorems say so with `raced`. A call that throws where it is caught goes on as the
  end of a statement's call, which holds as many references (`StageThrows`), or, from a
  step, where one that succeeded would (`StepsKeeps`).

`ClientProofs` proves the five invariants of `ClientSession`, for any accounts, any depth
of nesting and any input. The inductive `Inv` joins what the stack is (`StackInv`: menus of
their trees, every session under the top one told to exit) with `OwnerIsCurrent`: whenever
a line can be read in a session somebody is logged in to, that one is `current_user`.
Without the first, the end of a nested session could land in one that still reads;
without the second a request could be made for the user of another tree. `ScanReaches`
shows that a line, which may go through several menus, stays within the tree of its session, and `ReplaceTop`, `Push` and `Pop` what the three
changes of the stack preserve, so that each command needs only one of them.

`ThreadsProofs` and `ApartProofs` are about `MarketThreads`, for any number of threads
and every interleaving of storage calls, raced or not and wherever the process dies:

- `RemovedForGood`: `NothingRevives`. Ids stay at or below their counters (`Ids`), only
  `seller_add`, `cart_add` and `order::create` add rows, each above its counter, and
  `Write` adds none (`RowsStay`).
- `OrderCopyCorrect`: `OrderCopyIsThatOrder`. `ThreadsHold` says that only a checkout
  replaces the order it holds, and that the order of a pay or cancel is the table's or gone;
  `RowsStay` carries it over the steps of the other threads, because orders are never
  updated and no id is given twice.
- `WalletsCovered`: `NoOverdraft`, if no top-up is negative and no stored order has a
  price that `Signed` makes negative (`OrdersAsk`). Both are assumptions about inputs that
  the code does not check: the price of an order is `price * quantity` modulo 2^64, and a
  race on an item can make its available stock wrap, so that an enormous quantity is
  accepted. That the tables have no negative balance is not inductive, because a thread
  writes the difference of two copies it took earlier. `ThreadsSound` says what the copies
  are at each call: both balances are natural numbers once they are loaded, and the
  customer's is at least the price between the test of `base_user::pay` and the debit. No
  other thread can change a copy, so nothing the others do disturbs it. `LeastNatural`
  and `FirstLeft` show that the loops of checkout and sale always take one of the rows that
  are left.
- `ThreadTypes`: `TypeOK`, for wallets and amounts of any sign (the same `Sound`, with `Int`
  for `Nat`, the two cases of `Money`). That the counters stay within the bounds of the
  model is a count of the rows and orders which the requests under way may still insert
  (`Bounded`): the pairs of a thread and a cart row it has yet to order are finitely many,
  become fewer with each order, and grow only where a checkout starts, which its guard
  allows for. For this `Threads` is assumed finite (`ThreadsAssumption`).
- `InterfereOnlyOnSharedRows`: `CoherentWhenApart`, a statement about every pair of
  handlers that share no row, for any prices, amounts and quantities. The tables between
  requests say nothing of the moments within them, so the invariant `AsAlone` is about the
  threads. First, what a thread knows: `Serves` is what its request has done by the call it
  is at, `Known` what stays true of its rows whatever the others do, and `Accurate` that its
  copies are the rows as they are. The first two hold always, the third until something is
  raced: `StepKeeps` shows that a step changes only rows of its footprint (and an order only
  with the order's item), `Alone` that no other thread has these in its own, and
  `AccurateStays` that no copy is stale then. Second, what the tables are in the middle of a
  handler: a wallet lacks the price that one payment has taken and not yet handed on
  (`Takes`, `WalletRight`), and the numbers of an item are those of a request between two
  writes (`Changing`, `Partial`) or whole (`Whole`), with at most one order for its unit. A
  step that writes finds no other thread in such a stretch on the same row (`TakesAlone`,
  `ChangingAlone`), so the item it loaded is whole and the subtractions of `sold`, `unfroze`
  and `available_stock` do not wrap; an end of the process finds none at all, or is recorded
  in `torn`, because a thread in such a stretch is `dirty` (`NoneCut`). An add to the cart
  has seen all rows of the user, so it makes no second one for an item (`CartsStep`).

- `HandlersRunOut`: `CallsRunOut`. `CallsLeft` counts the calls a handler can still make, five
  for each row of a checkout, which needs the sets of rows it holds to be finite
  (`AllCounted`). This is the half of `RequestsEnd` that is not about time: a number that
  only falls with each step of the thread, and that no other thread raises. That the thread
  takes those steps is the fairness of the scheduler, and stays with TLC.

`SerialProofs` is about `MarketSerial`, for any prices, amounts, quantities and bounds, from
`OneThreadAssumption` (one thread, not ended from outside):

- `OneClientSeesMarket`: `ImplementsMarket`. What `Market` is shown is `pre`, the tables as they
  were before the handler's first write, so a call in the middle of a request must leave
  `pre` alone and the last one must do to it what the request does in `Market`. `Underway` says
  of each call how the tables differ from `pre` (`HalfPaid`, `HalfOrdered`) and what the call
  relies on that was tested earlier (`Asked`, `Visiting`): the wallets lack the debit, then
  have the credit too, then the unit is sold; the unit of a row is frozen, then the order
  inserted. The steps are compared one by one, those that write nothing or end early
  included: a null pointer between `Debit` and `Close` leaves the moved money, which is
  `Market`'s `Crash` of a pay. That copies are the rows as they are, that an item is whole
  where it is loaded and that no subtraction wraps, comes from `AsAlone` of `ApartProofs`:
  with one thread nothing is ever raced or torn. The hypothesis `[]WithinBound` is the
  bound `MaxBalance`, which `Market` has in the guards of the requests that change a wallet and
  `MarketThreads`, like the program, has not.
- `OneClientCoherent`: whenever no request is under way, `StockCoherent`, `CartsCoherent` and
  `balance = expected` hold, with no condition on races: it is `CoherentWhenApart` for a server
  whose requests never overlap, and needs no bound on the wallets.

`WireProofs` proves `TypeOK`, `ExecutedAsSent` and `AnswerIsTheServers` of `Wire` for any
requests, responses and size of a byte, from `WireAssumption` and `MessagesAssumption` (the
fields of a message are ints of two bytes, and texts whose length is one). An invariant
about what was received is not enough: the bytes of a field may be in three places.
`Delivered` says where. There is a number `k` of fields such that the `k` - 1 first were read
and hold what was sent, and the bytes on their way to the end, followed by those its peer
has still to write, are exactly the bytes of the others. If the peer has left, some bytes
are missing, but only at the end of the message. A read that is full takes the first of
these fields (`ReadsOn`, from the cancellation law `CutFirst`), a write moves a piece from
the peer's list to the stream (`FlatFirst`), a reset that arrives cuts the end (`CutLast`),
and a read that is not full is recorded in `short`, from where on nothing is claimed. That
the length is read as it was written is `Spelled`. A client that waits for a server which
has not answered has an empty stream (`Unanswered`), so that what it reads cannot be the
answer to another request; that an answer is made up only where no server was is
`Answered`. The steps of a server that dies, throws or ends are one lemma (`ServerGone`),
those of a client that leaves another (`ClientGone`).

`FieldsAsTyped` proves `FieldsArrive`, for fields of any number and length. With what
`SentIsExecuted` proves it is enough that `Split` undoes `Join` (`SplitJoin`) when no field
holds the delimiter. Both are recursive functions, so this is an induction over the bytes
of a field within one over the fields. The provers cannot use the library's induction
theorems, which take a predicate; `Induction` states the principle about a set of numbers
instead, and is proved from the well-foundedness of `<`.

Assumptions. `MarketData` names those about ids, prices and widths, `AccountsAssumption`,
`WireAssumption`, `MessagesAssumption`, `ThreadsAssumption` and `OneThreadAssumption` stand in the
modules they are about, as do `ServerAssumption` and `ClientAssumption`, and TLC evaluates each
in a run. Hypotheses of single theorems are
in their statements: no negative top-up (`MoneyCorrect`, both `WalletsCovered`), no order with
a negative price (`WalletsCovered` of `ThreadsProofs`), wallets within the bound
(`OneClientSeesMarket`).

Only model-checked: the liveness properties `CheckoutEnds`, `CheckoutGoesOn`, `RequestsEnd`,
`FeedEnds`, `ServeEnds` and `QuitEnds`, because the prover handles neither fairness nor
`ENABLED`. For `RequestsEnd` the part that needs no fairness is proved (`HandlersRunOut`).

## 7. Disagreements

- `find_money`: `order::pay` loads both user rows before it writes either
  (`server_interface.cpp:323-327`). When a seller pays an order for its own item, the
  credit is written from a copy older than the debit, and the price is made out of
  nothing.
- `find_cancel`: `order::cancel` uses the item without looking whether there is one
  (`server_interface.cpp:337-338`). After `seller_remove`, or an edit to type 3, the
  order can be neither cancelled nor closed by paying; each attempt ends the server.
- `find_stock`: the stock asked for by the client (`client_session.cpp:282`) is parsed,
  compared with `frozen`, and dropped (`server_interface.cpp:199-205`). Every item has
  one unit for ever.
- `find_oversell`: two checkouts at the same time both order the one unit
  (`server_interface.cpp:315-317`).
- `find_pipe`: a client that closes its end before the answer is written resets the
  connection, and the second `send` of the answer raises SIGPIPE. `serve` takes a failed
  write for an error of its own thread (`server_session.cpp:112-114`), and
  `socket::initialize` would have ignored the signal (`socket.cpp:97-106`), but nothing
  calls it. One impatient client ends the server.

Two more observations, which contradict no word of the source and have no run of their
own. `retain` raises its count before it opens the database and does not lower it when
the open fails (`sqlite_orm.h:7059-7065`). If the handler hides the exception, as those of
`cart.add` and `cart.edit` do, the count never comes back to 0 and the database is never
opened again: `ShortageIsForGood` states it as what the code does. And two accounts of one
name can be made by two signups at once; the second can never log in (`UniqueNames`,
`NameKeepsAccount`).

## 8. What is not modelled

- Price and balance texts (`getPriceStr`, `get_price`, `get_balance`, and the `x * 100` of the
  client). They turn cents into decimals for people to read, partly in floating point,
  and nothing is computed from the result.
- The market modules have a fixed set of accounts; the table of accounts, which no other
  request changes but for balances, is in `Accounts`.
- Storage calls are atomic and succeed in `Market`, `MarketThreads` and `Accounts`. SQLite
  makes one statement atomic; errors such as a full disk or a locked file end the
  process like any exception no one catches, which `Kill` covers where it matters,
  between two calls. The write of `cart.add` and `cart.edit` is in a try block: when it
  fails, nothing is written and the answer is "invalid input", which leaves those modules
  where they were. That calls fail, and what this does to the connection, is in
  `ServerLoop`. `storage.iterate`, which `order::get_user_orders` and
  `base_item::get_all` use, steps through its rows and is taken as one call that sees
  all of them at once. What two threads do to the connection under the rows is in
  `ServerLoop`, which stops at the first harm: what a use of a closed connection does
  to the rows is not modelled.
- Requests that no client of this repository sends: fields missing from a payload, or
  a type that is none of `REQUEST_TYPE`. A request whose fields were never written, because
  a client left early, is in `Wire` up to the call of `exec`.
- That `accept` keeps failing, so that the loop of `session::Start` spins, and that
  `std::thread` cannot start a thread. Both are the machine's limits, not the program's.
- Negative prices and top-ups: the modules define them (`Signed`, `Discounted`) and the
  theorems hold for them; the runs use positive ones.
- Discounts are halves and prices integers; floating point is not modelled.
- Vendored code the program does not reach (remote and asynchronous cli sessions,
  datagram, unix and inet6 sockets), SQLite itself, build files and images. The three
  files `sqlite_orm.h`, `sqlite3.h` and `sqlite3ext.h` are 70 percent of the lines of the
  repository, and cli and sockpp most of the rest. The program's own code, some 1900 lines
  under `src/src/client`, `src/src/server`, `src/src/data_type.cpp` and their headers, is
  modelled but for the texts above.
