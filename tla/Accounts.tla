------------------------------ MODULE Accounts ------------------------------
(***************************************************************************)
(* The accounts: signup, login, passwd and the requests that move a        *)
(* balance, as the threads of the server make them, one storage call at a  *)
(* time.  signup tests a name in one call and inserts it in the next;      *)
(* passwd and wallet_topup load the row of an account, change one field of *)
(* their copy and write the whole copy back, name, type, password and      *)
(* balance.                                                                *)
(***************************************************************************)
EXTENDS Integers, FiniteSets

CONSTANTS
  Names, Passwords,   \* texts typed by people
  Types,        \* what a signup carries as its target; 0 and 1 are USER_TYPE
  Topups,       \* amounts of a top-up
  Threads,      \* threads that may serve at the same time
  MaxUsers,     \* bound: accounts ever inserted
  MaxRequests   \* bound: requests ever started

ASSUME AccountsAssumption ==
  /\ Types \subseteq Int /\ Topups \subseteq Int
  /\ MaxUsers \in Nat /\ MaxRequests \in Nat

VARIABLES
  users,      \* the table, a function from the ids present to their rows
  lastUser,   \* its AUTOINCREMENT counter
  up,         \* the process is alive
  th,         \* th[t]: the call thread t makes next and the copy it holds
  reply,      \* the last answer: success and user_id
  requests,   \* requests started so far
  rivals,     \* history: names inserted while another signup had tested them
  crossed,    \* history: accounts written while another held a copy
  due         \* history: due[u] is the row that the answers given to u promise

table == <<users, lastUser>>
history == <<rivals, crossed, due>>
vars == <<table, up, th, reply, requests, history>>

UserIds == 1 .. MaxUsers
Empty == [u \in {} |-> 0]
LegalTypes == {0, 1}
NoText == "none"

User(name, passwd, type, balance) ==
  [name |-> name, passwd |-> passwd, type |-> type, balance |-> balance]

\* A thread between two calls: what it does next, the id it loaded, its copy of
\* the row (or the row it will insert), and what it will write into it.
Thread(pc, id, row, passwd, amount) ==
  [pc |-> pc, id |-> id, row |-> row, passwd |-> passwd, amount |-> amount]
Idle == Thread("idle", 0, User(NoText, NoText, 0, 0), NoText, 0)

Init ==
  /\ users = Empty /\ lastUser = 0
  /\ up = TRUE /\ th = [t \in Threads |-> Idle]
  /\ reply = [success |-> 0, user_id |-> 0] /\ requests = 0
  /\ rivals = {} /\ crossed = {} /\ due = Empty

-----------------------------------------------------------------------------
(* Storage calls *)

Put(f, k, v) == [x \in DOMAIN f \cup {k} |-> IF x = k THEN v ELSE f[x]]

Named(name) == {u \in DOMAIN users : users[u].name = name}

\* Fault: the search takes the newest of the accounts that match.
FoundNewest(name) == {u \in Named(name) : \A v \in Named(name) : v <= u}

\* base_user::get(name): match[0] of the rows with this name; rows come in the
\* order of their ids.
Found(name) == {u \in Named(name) : \A v \in Named(name) : u <= v}

\* What base_user::get gives is no null pointer.
Usable(u) == u \in DOMAIN users /\ users[u].type \in LegalTypes

-----------------------------------------------------------------------------
(* Threads *)

At(t, pc) == up /\ th[t].pc = pc
Starts(t) == At(t, "idle") /\ requests < MaxRequests /\ requests' = requests + 1
Goes(t, l) == th' = [th EXCEPT ![t] = l] /\ UNCHANGED <<up, reply>>
Answers(t, success, user) ==
  /\ th' = [th EXCEPT ![t] = Idle]
  /\ reply' = [success |-> success, user_id |-> user]
  /\ UNCHANGED up

\* A null pointer ends the process and with it every thread.
Down ==
  /\ up' = FALSE /\ th' = [t \in Threads |-> Idle]
  /\ UNCHANGED <<table, reply, history>>

-----------------------------------------------------------------------------
(* signup *)

\* Bound: accounts that signups under way may still insert.
RoomLeft == lastUser + Cardinality({t \in Threads : th[t].pc = "insert"}) < MaxUsers

\* Fault: the name is not looked for.
SignupTestSkipped(t, name, passwd, type) ==
  /\ RoomLeft
  /\ Goes(t, Thread("insert", 0, User(name, passwd, type, 0), NoText, 0))
  /\ UNCHANGED <<table, history>>

\* base_user::exist.
SignupTest(t, name, passwd, type) ==
  /\ \/ Named(name) # {} /\ Answers(t, 0, 0)
     \/ /\ Named(name) = {} /\ RoomLeft
        /\ Goes(t, Thread("insert", 0, User(name, passwd, type, 0), NoText, 0))
  /\ UNCHANGED <<table, history>>

\* Fault: the row is stored under the id in the copy, which is 0.
FreshIdOfCopy == 0

\* storage.insert leaves the id to AUTOINCREMENT.
FreshId == lastUser + 1

\* The answer to a signup carries the user_id 0, whatever id was given.
SignupInsert(t) ==
  LET row == th[t].row
      id == FreshId
  IN /\ At(t, "insert")
     /\ users' = Put(users, id, row)
     /\ lastUser' = id
     /\ Answers(t, 1, 0)
     /\ rivals' = rivals \cup
          {name \in {row.name} : \E s \in Threads \ {t} :
                                   th[s].pc = "insert" /\ th[s].row.name = name}
     /\ due' = Put(due, id, row)
     /\ UNCHANGED <<crossed, requests>>

-----------------------------------------------------------------------------
(* login: one call *)

Login(t, name, passwd) ==
  /\ \/ /\ \E u \in Found(name) : Usable(u) /\ users[u].passwd = passwd
        /\ Answers(t, 1, CHOOSE u \in Found(name) : TRUE)
     \/ /\ ~ \E u \in Found(name) : Usable(u) /\ users[u].passwd = passwd
        /\ Answers(t, 0, 0)
  /\ UNCHANGED <<table, history>>

-----------------------------------------------------------------------------
(* passwd, wallet_topup and wallet_show *)

Loads(t, pc, u, passwd, amount) ==
  Goes(t, Thread(pc, u, users[u], passwd, amount))

PasswdLoad(t, u, old, new) ==
  /\ IF Usable(u) /\ users[u].passwd = old
       THEN Loads(t, "passwd", u, new, 0)
       ELSE Answers(t, 0, 0)
  /\ UNCHANGED <<table, history>>

TopupLoad(t, u, amount) ==
  \/ Usable(u) /\ Loads(t, "topup", u, NoText, amount) /\ UNCHANGED <<table, history>>
  \/ ~Usable(u) /\ Down

WalletShow(t, u) ==
  \/ Usable(u) /\ Answers(t, 1, 0) /\ UNCHANGED <<table, history>>
  \/ ~Usable(u) /\ Down

Holds(t, u) == th[t].pc \in {"passwd", "topup"} /\ th[t].id = u
HeldByOthers(t) == {u \in {th[t].id} : \E s \in Threads \ {t} : Holds(s, u)}

\* Fault: the row is sought by the name in the copy, not by its id.
StoreByName(t, row) ==
  /\ users' = [u \in DOMAIN users |-> IF users[u].name = row.name THEN row ELSE users[u]]
  /\ crossed' = crossed \cup HeldByOthers(t)
  /\ Answers(t, 1, 0)
  /\ UNCHANGED <<lastUser, rivals, requests>>

\* base_user::update: the whole copy is written back under its id.
Store(t, row) ==
  /\ users' = [users EXCEPT ![th[t].id] = row]
  /\ crossed' = crossed \cup HeldByOthers(t)
  /\ Answers(t, 1, 0)
  /\ UNCHANGED <<lastUser, rivals, requests>>

PasswdStore(t) ==
  /\ At(t, "passwd")
  /\ Store(t, [th[t].row EXCEPT !.passwd = th[t].passwd])
  /\ due' = [due EXCEPT ![th[t].id].passwd = th[t].passwd]

TopupStore(t) ==
  /\ At(t, "topup")
  /\ Store(t, [th[t].row EXCEPT !.balance = @ + th[t].amount])
  /\ due' = [due EXCEPT ![th[t].id].balance = @ + th[t].amount]

-----------------------------------------------------------------------------
Start(t) ==
  /\ Starts(t)
  /\ \/ \E name \in Names, passwd \in Passwords :
          Login(t, name, passwd) \/ \E type \in Types : SignupTest(t, name, passwd, type)
     \/ \E u \in UserIds :
          \/ \E old, new \in Passwords : PasswdLoad(t, u, old, new)
          \/ \E amount \in Topups : TopupLoad(t, u, amount)
          \/ WalletShow(t, u)

Continue(t) == SignupInsert(t) \/ PasswdStore(t) \/ TopupStore(t)

Kill == up /\ Down /\ UNCHANGED requests
Restart == ~up /\ up' = TRUE /\ UNCHANGED <<table, th, reply, requests, history>>

Next == (\E t \in Threads : Start(t) \/ Continue(t)) \/ Kill \/ Restart

Spec == Init /\ [][Next]_vars

-----------------------------------------------------------------------------
(* Correctness *)

UserRow == [name : Names, passwd : Passwords, type : Types, balance : Int]

\* Types, and what a thread holds at each call.
TypeOK ==
  /\ lastUser \in Nat
  /\ users \in [1 .. lastUser -> UserRow]
  /\ up \in BOOLEAN /\ requests \in Nat
  /\ rivals \subseteq Names /\ crossed \subseteq 1 .. lastUser
  /\ due \in [1 .. lastUser -> UserRow]
  /\ th \in [Threads -> [pc : {"idle", "insert", "passwd", "topup"}, id : Nat,
                         row : UserRow \cup {Idle.row},
                         passwd : Passwords \cup {NoText}, amount : Int]]
  /\ \A t \in Threads :
       /\ th[t].pc # "idle" => th[t].row \in UserRow
       /\ th[t].pc \in {"passwd", "topup"} => th[t].id \in 1 .. lastUser
       /\ th[t].pc = "passwd" => th[t].passwd \in Passwords

\* A name that leads to an account leads to it for ever, and the account keeps
\* its type: neither a signup of the same name that raced with the first, nor
\* the copies passwd and wallet_topup write back, hand it to another account
\* (base_user::get(name) takes match[0], and rows are never deleted).
NameKeepsAccount ==
  [][\A name \in Names : \A u \in Found(name) :
       u \in Found(name)' /\ users'[u].type = users[u].type]_vars

\* Two accounts share a name only if their signups crossed between the test of
\* the name and its insertion (session::signup).
UniqueNames ==
  \A u, v \in DOMAIN users :
    users[u].name = users[v].name /\ users[u].name \notin rivals => u = v

\* An account holds the sum of its top-ups and the password it last chose,
\* unless a request wrote it while another held a copy of it (base_user::update
\* writes password and balance together): a loss never reaches an account
\* whose own requests did not cross, whatever happens to the others.
LossOnlyByCrossing == \A u \in DOMAIN users \ crossed : users[u] = due[u]
=============================================================================
