--------------------------- MODULE AccountsProofs ---------------------------
(* Theorems about Accounts, for any number of threads and accounts. *)
EXTENDS Accounts, TLAPS

-----------------------------------------------------------------------------
(* What a step does to threads and tables, whatever request it belongs to *)

Still == UNCHANGED <<users, lastUser, rivals, crossed, due>>

Rests(t) == th' = [th EXCEPT ![t] = Idle] /\ Still

Tests(t, row) ==
  /\ th' = [th EXCEPT ![t] = Thread("insert", 0, row, NoText, 0)]
  /\ row \in UserRow /\ Named(row.name) = {}
  /\ Still

Takes(t, pc, u, passwd, amount) ==
  /\ pc \in {"passwd", "topup"} /\ u \in DOMAIN users
  /\ amount \in Int /\ passwd \in Passwords \cup {NoText}
  /\ pc = "passwd" => passwd \in Passwords
  /\ th' = [th EXCEPT ![t] = Thread(pc, u, users[u], passwd, amount)]
  /\ Still

Ends == th' = [t \in Threads |-> Idle] /\ Still

\* A step of the server is one of these.
LEMMA StepKinds ==
  ASSUME TypeOK, [Next]_vars
  PROVE  /\ up' \in BOOLEAN /\ requests' \in Nat
         /\ \/ UNCHANGED th /\ Still
            \/ Ends
            \/ \E t \in Threads :
                 \/ Rests(t)
                 \/ \E row \in UserRow : Tests(t, row)
                 \/ \E pc \in {"passwd", "topup"}, u \in DOMAIN users,
                       passwd \in Passwords \cup {NoText}, amount \in Int :
                      Takes(t, pc, u, passwd, amount)
                 \/ SignupInsert(t) \/ PasswdStore(t) \/ TopupStore(t)
  <1>0. up \in BOOLEAN /\ requests \in Nat
    BY DEF TypeOK
  <1>1. CASE UNCHANGED vars
    BY <1>0, <1>1 DEF vars, table, history, Still
  <1>2. CASE Kill \/ Restart
    BY <1>0, <1>2 DEF Kill, Restart, Down, Ends, Still, table, history
  <1>3. ASSUME NEW t \in Threads, Continue(t)
        PROVE  /\ SignupInsert(t) \/ PasswdStore(t) \/ TopupStore(t)
               /\ up' \in BOOLEAN /\ requests' \in Nat
    BY <1>0, <1>3 DEF Continue, SignupInsert, PasswdStore, TopupStore, Store, Answers
  <1>4. ASSUME NEW t \in Threads, Starts(t), NEW name \in Names, NEW passwd \in Passwords,
               Login(t, name, passwd)
        PROVE  Rests(t) /\ up' \in BOOLEAN /\ requests' \in Nat
    BY <1>0, <1>4 DEF Login, Answers, Rests, Still, Starts, table, history
  <1>5. ASSUME NEW t \in Threads, Starts(t), NEW name \in Names, NEW passwd \in Passwords,
               NEW type \in Types, SignupTest(t, name, passwd, type)
        PROVE  /\ Rests(t) \/ \E row \in UserRow : Tests(t, row)
               /\ up' \in BOOLEAN /\ requests' \in Nat
    <2>1. User(name, passwd, type, 0) \in UserRow
      BY DEF User, UserRow
    <2>2. User(name, passwd, type, 0).name = name
      BY DEF User
    <2>3. up' \in BOOLEAN /\ requests' \in Nat
      BY <1>0, <1>5 DEF SignupTest, Answers, Goes, Starts
    <2>4. CASE Named(name) # {}
      BY <1>0, <1>5, <2>3, <2>4 DEF SignupTest, Answers, Rests, Still, table, history
    <2>5. CASE Named(name) = {}
      BY <1>0, <1>5, <2>1, <2>2, <2>3, <2>5 DEF SignupTest, Goes, Tests, Still, table, history
    <2> QED
      BY <2>4, <2>5
  <1>6. ASSUME NEW t \in Threads, Starts(t), NEW u \in UserIds,
               NEW old \in Passwords, NEW new \in Passwords, PasswdLoad(t, u, old, new)
        PROVE  /\ Rests(t) \/ (Takes(t, "passwd", u, new, 0) /\ u \in DOMAIN users)
               /\ up' \in BOOLEAN /\ requests' \in Nat
    <2>1. up' \in BOOLEAN /\ requests' \in Nat /\ Still
      BY <1>0, <1>6 DEF PasswdLoad, Loads, Goes, Answers, Still, Starts, table, history
    <2>2. CASE Answers(t, 0, 0)
      BY <2>1, <2>2 DEF Answers, Rests
    <2>3. CASE Usable(u) /\ Loads(t, "passwd", u, new, 0)
      BY <2>1, <2>3 DEF Loads, Goes, Usable, Takes
    <2> QED
      BY <1>6, <2>1, <2>2, <2>3 DEF PasswdLoad
  <1>7. ASSUME NEW t \in Threads, Starts(t), NEW u \in UserIds, NEW amount \in Topups,
               TopupLoad(t, u, amount)
        PROVE  /\ Ends \/ (Takes(t, "topup", u, NoText, amount) /\ u \in DOMAIN users)
               /\ up' \in BOOLEAN /\ requests' \in Nat
    <2>1. requests' \in Nat
      BY <1>0, <1>7 DEF Starts
    <2>2. CASE Down
      BY <2>1, <2>2 DEF Down, Ends, Still, table, history
    <2>3. CASE /\ Usable(u) /\ Loads(t, "topup", u, NoText, amount)
               /\ UNCHANGED <<table, history>>
      BY <1>0, <2>1, <2>3, AccountsAssumption DEF Loads, Goes, Usable, Takes, Still, table, history
    <2> QED
      BY <1>7, <2>2, <2>3 DEF TopupLoad
  <1>8. ASSUME NEW t \in Threads, Starts(t), NEW u \in UserIds, WalletShow(t, u)
        PROVE  /\ Rests(t) \/ Ends
               /\ up' \in BOOLEAN /\ requests' \in Nat
    <2>1. requests' \in Nat
      BY <1>0, <1>8 DEF Starts
    <2>2. CASE Down
      BY <2>1, <2>2 DEF Down, Ends, Still, table, history
    <2>3. CASE Answers(t, 1, 0) /\ UNCHANGED <<table, history>>
      BY <1>0, <2>1, <2>3 DEF Answers, Rests, Still, table, history
    <2> QED
      BY <1>8, <2>2, <2>3 DEF WalletShow
  <1>9. ASSUME NEW t \in Threads, Start(t)
        PROVE  /\ up' \in BOOLEAN /\ requests' \in Nat
               /\ \/ Rests(t) \/ Ends
                  \/ \E row \in UserRow : Tests(t, row)
                  \/ \E pc \in {"passwd", "topup"}, u \in DOMAIN users,
                        passwd \in Passwords \cup {NoText}, amount \in Int :
                       Takes(t, pc, u, passwd, amount)
    <2>1. CASE \E name \in Names, passwd \in Passwords :
                 Login(t, name, passwd) \/ \E type \in Types : SignupTest(t, name, passwd, type)
      BY <1>0, <1>4, <1>5, <1>9, <2>1 DEF Start
    <2>2. CASE \E u \in UserIds : \E old, new \in Passwords : PasswdLoad(t, u, old, new)
      BY <1>0, <1>6, <1>9, <2>2 DEF Start
    <2>3. CASE \E u \in UserIds : \E amount \in Topups : TopupLoad(t, u, amount)
      BY <1>0, <1>7, <1>9, <2>3, AccountsAssumption DEF Start
    <2>4. CASE \E u \in UserIds : WalletShow(t, u)
      BY <1>0, <1>8, <1>9, <2>4 DEF Start
    <2> QED
      BY <1>0, <1>9, <2>1, <2>2, <2>3, <2>4 DEF Start
  <1> QED
    BY <1>0, <1>1, <1>2, <1>3, <1>9 DEF Next

-----------------------------------------------------------------------------
(* Types *)

LEMMA InitTypeOK == Init => TypeOK
  BY AccountsAssumption DEF Init, TypeOK, Empty, Idle, Thread, User, UserRow

\* An insertion adds the next id to the table and to what is due.
LEMMA PutNext ==
  ASSUME NEW n \in Nat, NEW S, NEW f \in [1 .. n -> S], NEW v \in S
  PROVE  Put(f, n + 1, v) \in [1 .. n + 1 -> S]
  BY DEF Put

\* A changed copy is a row.
LEMMA RowChanges ==
  ASSUME NEW r \in UserRow
  PROVE  /\ \A p \in Passwords : [r EXCEPT !.passwd = p] \in UserRow
         /\ \A a \in Int : [r EXCEPT !.balance = @ + a] \in UserRow
  BY DEF UserRow

LEMMA NextTypeOK == TypeOK /\ [Next]_vars => TypeOK'
  <1> SUFFICES ASSUME TypeOK, [Next]_vars PROVE TypeOK'
    OBVIOUS
  <1> USE DEF TypeOK
  <1>0. up' \in BOOLEAN /\ requests' \in Nat
    BY StepKinds
  <1>1. CASE UNCHANGED th /\ Still
    BY <1>0, <1>1 DEF Still
  <1>2. CASE Ends
    BY <1>0, <1>2 DEF Ends, Still, Idle, Thread
  <1>3. ASSUME NEW t \in Threads, Rests(t) PROVE TypeOK'
    BY <1>0, <1>3 DEF Rests, Still, Idle, Thread
  <1>4. ASSUME NEW t \in Threads, NEW row \in UserRow, Tests(t, row) PROVE TypeOK'
    BY <1>0, <1>4 DEF Tests, Still, Thread
  <1>5. ASSUME NEW t \in Threads, NEW pc \in {"passwd", "topup"}, NEW u \in DOMAIN users,
               NEW passwd \in Passwords \cup {NoText}, NEW amount \in Int,
               Takes(t, pc, u, passwd, amount)
        PROVE  TypeOK'
    <2>1. users[u] \in UserRow /\ u \in 1 .. lastUser /\ u \in Nat
      OBVIOUS
    <2> QED
      BY <1>0, <1>5, <2>1 DEF Takes, Still, Thread
  <1>6. ASSUME NEW t \in Threads, SignupInsert(t) PROVE TypeOK'
    <2>1. th[t].row \in UserRow
      BY <1>6 DEF SignupInsert, At
    <2>2. th[t].row.name \in Names
      BY <2>1 DEF UserRow
    <2>3. /\ users' \in [1 .. lastUser' -> UserRow] /\ due' \in [1 .. lastUser' -> UserRow]
          /\ lastUser' = lastUser + 1
      BY <1>6, <2>1, PutNext DEF SignupInsert, FreshId
    <2>4. rivals' \subseteq Names /\ crossed' = crossed /\ th' = [th EXCEPT ![t] = Idle]
      BY <1>6, <2>2 DEF SignupInsert, Answers
    <2> QED
      BY <1>0, <2>3, <2>4 DEF Idle, Thread
  <1>7. ASSUME NEW t \in Threads, PasswdStore(t) \/ TopupStore(t) PROVE TypeOK'
    <2>1. th[t].row \in UserRow /\ th[t].id \in 1 .. lastUser
      BY <1>7 DEF PasswdStore, TopupStore, At
    <2>2. /\ th[t].amount \in Int
          /\ PasswdStore(t) => th[t].passwd \in Passwords
      BY <1>7 DEF PasswdStore, At
    <2>3. PICK r \in UserRow, d \in UserRow :
            /\ users' = [users EXCEPT ![th[t].id] = r]
            /\ due' = [due EXCEPT ![th[t].id] = d]
      <3>1. CASE PasswdStore(t)
        <4>1. [th[t].row EXCEPT !.passwd = th[t].passwd] \in UserRow
          BY <2>1, <2>2, <3>1, RowChanges
        <4>2. [due[th[t].id] EXCEPT !.passwd = th[t].passwd] \in UserRow
          BY <2>1, <2>2, <3>1, RowChanges
        <4> QED
          BY <3>1, <4>1, <4>2 DEF PasswdStore, Store
      <3>2. CASE TopupStore(t)
        <4>1. [th[t].row EXCEPT !.balance = @ + th[t].amount] \in UserRow
          BY <2>1, <2>2, RowChanges
        <4>2. [due[th[t].id] EXCEPT !.balance = @ + th[t].amount] \in UserRow
          BY <2>1, <2>2, RowChanges
        <4> QED
          BY <3>2, <4>1, <4>2 DEF TopupStore, Store
      <3> QED
        BY <1>7, <3>1, <3>2
    <2>4. /\ crossed' \subseteq 1 .. lastUser
          /\ lastUser' = lastUser /\ rivals' = rivals /\ th' = [th EXCEPT ![t] = Idle]
      BY <1>7, <2>1 DEF PasswdStore, TopupStore, Store, Answers, HeldByOthers
    <2>5. users' \in [1 .. lastUser' -> UserRow] /\ due' \in [1 .. lastUser' -> UserRow]
      BY <2>3, <2>4
    <2> QED
      BY <1>0, <2>4, <2>5 DEF Idle, Thread
  <1> QED
    BY <1>1, <1>2, <1>3, <1>4, <1>5, <1>6, <1>7, StepKinds

\* Tables, threads and histories keep their types, and a thread always holds
\* what its next call needs.
THEOREM TypeCorrect == Spec => []TypeOK
  BY InitTypeOK, NextTypeOK, PTL DEF Spec

-----------------------------------------------------------------------------
(* Copies and names *)

\* A thread that holds the copy of an account holds its name and type, and the
\* row itself as long as nobody crossed it.
CopiesTrue ==
  \A t \in Threads : \A u \in DOMAIN users : Holds(t, u) =>
    /\ th[t].row.name = users[u].name
    /\ th[t].row.type = users[u].type
    /\ u \notin crossed => th[t].row = users[u]

\* A name about to be inserted is taken only if two signups tested it at once.
InsertsFresh ==
  \A t \in Threads : \A u \in DOMAIN users :
    th[t].pc = "insert" /\ th[t].row.name \notin rivals => users[u].name # th[t].row.name

Inv == TypeOK /\ CopiesTrue /\ InsertsFresh /\ UniqueNames /\ LossOnlyByCrossing

LEMMA InitInv == Init => Inv
  BY InitTypeOK
  DEF Init, Inv, CopiesTrue, InsertsFresh, UniqueNames, LossOnlyByCrossing, Holds, Idle,
      Thread, Empty

\* What writing a copy back does to its account: name and type stay.
LEMMA StoreKeepsNames ==
  ASSUME Inv, NEW t \in Threads, PasswdStore(t) \/ TopupStore(t)
  PROVE  \E u \in DOMAIN users, row \in UserRow :
           /\ u = th[t].id /\ Holds(t, u)
           /\ row.name = users[u].name /\ row.type = users[u].type
           /\ users' = [users EXCEPT ![u] = row]
           /\ lastUser' = lastUser /\ rivals' = rivals
           /\ crossed' = crossed \cup HeldByOthers(t)
           /\ th' = [th EXCEPT ![t] = Idle]
           /\ DOMAIN due' = DOMAIN due /\ \A v \in DOMAIN due \ {u} : due'[v] = due[v]
           /\ u \notin crossed => due'[u] = row
  <1> DEFINE u == th[t].id
  <1>1. Holds(t, u) /\ u \in DOMAIN users /\ th[t].row \in UserRow
    BY DEF Inv, TypeOK, PasswdStore, TopupStore, At, Holds
  <1>2. /\ th[t].row.name = users[u].name /\ th[t].row.type = users[u].type
        /\ u \notin crossed => th[t].row = due[u]
    BY <1>1 DEF Inv, CopiesTrue, LossOnlyByCrossing
  <1>3. due \in [DOMAIN users -> UserRow] /\ th[t].amount \in Int
    BY DEF Inv, TypeOK
  <1>4. CASE PasswdStore(t)
    <2> DEFINE row == [th[t].row EXCEPT !.passwd = th[t].passwd]
    <2>1. row \in UserRow /\ row.name = th[t].row.name /\ row.type = th[t].row.type
      BY <1>1, <1>4, RowChanges DEF Inv, TypeOK, PasswdStore, At, UserRow
    <2>2. /\ users' = [users EXCEPT ![u] = row]
          /\ due' = [due EXCEPT ![u] = [due[u] EXCEPT !.passwd = th[t].passwd]]
          /\ lastUser' = lastUser /\ rivals' = rivals
          /\ crossed' = crossed \cup HeldByOthers(t)
          /\ th' = [th EXCEPT ![t] = Idle]
      BY <1>4 DEF PasswdStore, Store, Answers
    <2>3. u \notin crossed => due'[u] = row
      BY <1>1, <1>2, <1>3, <2>2
    <2> QED
      BY <1>1, <1>2, <1>3, <2>1, <2>2, <2>3
  <1>5. CASE TopupStore(t)
    <2> DEFINE row == [th[t].row EXCEPT !.balance = @ + th[t].amount]
    <2>1. row \in UserRow /\ row.name = th[t].row.name /\ row.type = th[t].row.type
      BY <1>1, <1>3, RowChanges DEF UserRow
    <2>2. /\ users' = [users EXCEPT ![u] = row]
          /\ due' = [due EXCEPT ![u] = [due[u] EXCEPT !.balance = @ + th[t].amount]]
          /\ lastUser' = lastUser /\ rivals' = rivals
          /\ crossed' = crossed \cup HeldByOthers(t)
          /\ th' = [th EXCEPT ![t] = Idle]
      BY <1>5 DEF TopupStore, Store, Answers
    <2>3. u \notin crossed => due'[u] = row
      BY <1>1, <1>2, <1>3, <2>2
    <2> QED
      BY <1>1, <1>2, <1>3, <2>1, <2>2, <2>3
  <1> QED
    BY <1>4, <1>5

\* Steps that leave the tables alone and hand no thread a copy that is wrong.
LEMMA StillKeepsInv ==
  ASSUME Inv, TypeOK', Still,
         \A s \in Threads :
           \/ th'[s] = th[s] \/ th'[s] = Idle
           \/ \E row \in UserRow : th'[s] = Thread("insert", 0, row, NoText, 0)
                                   /\ Named(row.name) = {}
           \/ \E pc \in {"passwd", "topup"}, u \in DOMAIN users : \E passwd, amount :
                th'[s] = Thread(pc, u, users[u], passwd, amount)
  PROVE  Inv'
  <1>1. UniqueNames' /\ LossOnlyByCrossing'
    BY DEF Inv, UniqueNames, LossOnlyByCrossing, Still
  <1>2. CopiesTrue'
    <2> SUFFICES ASSUME NEW s \in Threads, NEW v \in DOMAIN users, Holds(s, v)'
                 PROVE  /\ th'[s].row.name = users[v].name
                        /\ th'[s].row.type = users[v].type
                        /\ v \notin crossed => th'[s].row = users[v]
      BY DEF CopiesTrue, Still
    <2>1. CASE th'[s] = th[s]
      BY <2>1 DEF Inv, CopiesTrue, Holds
    <2>2. CASE \E pc \in {"passwd", "topup"}, u \in DOMAIN users : \E passwd, amount :
                 th'[s] = Thread(pc, u, users[u], passwd, amount)
      BY <2>2 DEF Holds, Thread
    <2>3. th'[s] # Idle /\ \A row : th'[s] # Thread("insert", 0, row, NoText, 0)
      BY DEF Holds, Idle, Thread
    <2> QED
      BY <2>1, <2>2, <2>3
  <1>3. InsertsFresh'
    <2> SUFFICES ASSUME NEW s \in Threads, NEW v \in DOMAIN users, th'[s].pc = "insert",
                        th'[s].row.name \notin rivals
                 PROVE  users[v].name # th'[s].row.name
      BY DEF InsertsFresh, Still
    <2>1. CASE th'[s] = th[s]
      BY <2>1 DEF Inv, InsertsFresh
    <2>2. CASE \E row \in UserRow : th'[s] = Thread("insert", 0, row, NoText, 0)
                                     /\ Named(row.name) = {}
      BY <2>2 DEF Thread, Named
    <2>3. th'[s] # Idle
      BY DEF Idle, Thread
    <2>4. ASSUME NEW pc \in {"passwd", "topup"}, NEW u, NEW passwd, NEW amount
          PROVE  th'[s] # Thread(pc, u, users[u], passwd, amount)
      BY DEF Thread
    <2> QED
      BY <2>1, <2>2, <2>3, <2>4
  <1> QED
    BY <1>1, <1>2, <1>3 DEF Inv

LEMMA InsertKeepsInv ==
  ASSUME Inv, TypeOK', NEW t \in Threads, SignupInsert(t)
  PROVE  Inv'
  <1> DEFINE row == th[t].row
             id == lastUser + 1
  <1>1. /\ users' = Put(users, id, row) /\ due' = Put(due, id, row)
        /\ lastUser' = id /\ crossed' = crossed /\ th' = [th EXCEPT ![t] = Idle]
        /\ rivals \subseteq rivals'
        /\ \A s \in Threads \ {t} :
             th[s].pc = "insert" /\ th[s].row.name = row.name => row.name \in rivals'
    BY DEF SignupInsert, FreshId, Answers
  <1>2. /\ DOMAIN users = 1 .. lastUser /\ DOMAIN due = 1 .. lastUser
        /\ lastUser \in Nat /\ id \notin DOMAIN users /\ row \in UserRow
        /\ th[t].pc = "insert" /\ crossed \subseteq DOMAIN users /\ th \in [Threads -> UNION {{th[s]} : s \in Threads}]
    BY DEF Inv, TypeOK, SignupInsert, At
  <1>3. /\ DOMAIN users' = DOMAIN users \cup {id} /\ users'[id] = row /\ due'[id] = row
        /\ \A u \in DOMAIN users : users'[u] = users[u] /\ due'[u] = due[u]
    BY <1>1, <1>2 DEF Put
  <1>4. LossOnlyByCrossing'
    BY <1>1, <1>2, <1>3 DEF Inv, LossOnlyByCrossing
  <1>5. row.name \notin rivals => \A u \in DOMAIN users : users[u].name # row.name
    BY <1>2 DEF Inv, InsertsFresh
  <1>6. UniqueNames'
    <2> SUFFICES ASSUME NEW u \in DOMAIN users', NEW v \in DOMAIN users',
                        users'[u].name = users'[v].name, users'[u].name \notin rivals'
                 PROVE  u = v
      BY DEF UniqueNames
    <2>1. CASE u \in DOMAIN users /\ v \in DOMAIN users
      BY <1>1, <1>3, <2>1 DEF Inv, UniqueNames
    <2>2. CASE u = id \/ v = id
      BY <1>1, <1>3, <1>5, <2>2
    <2> QED
      BY <1>3, <2>1, <2>2
  <1>7. CopiesTrue'
    BY <1>1, <1>2, <1>3 DEF Inv, CopiesTrue, Holds, Idle, Thread, TypeOK
  <1>8. InsertsFresh'
    <2> SUFFICES ASSUME NEW s \in Threads, NEW v \in DOMAIN users', th'[s].pc = "insert",
                        th'[s].row.name \notin rivals'
                 PROVE  users'[v].name # th'[s].row.name
      BY DEF InsertsFresh
    <2>1. s # t /\ th'[s] = th[s]
      BY <1>1, <1>2 DEF Idle, Thread
    <2>2. /\ \A u \in DOMAIN users : users[u].name # th[s].row.name
          /\ th[s].row.name # row.name
      BY <1>1, <2>1 DEF Inv, InsertsFresh
    <2> QED
      BY <1>3, <2>1, <2>2
  <1> QED
    BY <1>4, <1>6, <1>7, <1>8 DEF Inv

LEMMA StoreKeepsInv ==
  ASSUME Inv, TypeOK', NEW t \in Threads, PasswdStore(t) \/ TopupStore(t)
  PROVE  Inv'
  <1>1. PICK u \in DOMAIN users, row \in UserRow :
           /\ u = th[t].id /\ Holds(t, u)
           /\ row.name = users[u].name /\ row.type = users[u].type
           /\ users' = [users EXCEPT ![u] = row]
           /\ lastUser' = lastUser /\ rivals' = rivals
           /\ crossed' = crossed \cup HeldByOthers(t)
           /\ th' = [th EXCEPT ![t] = Idle]
           /\ DOMAIN due' = DOMAIN due /\ \A v \in DOMAIN due \ {u} : due'[v] = due[v]
           /\ u \notin crossed => due'[u] = row
    BY StoreKeepsNames
  <1>2. /\ DOMAIN users' = DOMAIN users
        /\ \A v \in DOMAIN users : users'[v].name = users[v].name
                                   /\ users'[v].type = users[v].type
        /\ \A v \in DOMAIN users \ {u} : users'[v] = users[v]
        /\ users'[u] = row
    BY <1>1
  <1>3. /\ \A s \in Threads \ {t} : th'[s] = th[s] /\ (Holds(s, u) => u \in crossed')
        /\ th'[t] = Idle
    BY <1>1 DEF Inv, TypeOK, HeldByOthers
  <1>4. UniqueNames'
    BY <1>1, <1>2 DEF Inv, UniqueNames
  <1>5. LossOnlyByCrossing'
    BY <1>1, <1>2 DEF Inv, TypeOK, LossOnlyByCrossing
  <1>6. CopiesTrue'
    <2> SUFFICES ASSUME NEW s \in Threads, NEW v \in DOMAIN users', Holds(s, v)'
                 PROVE  /\ th'[s].row.name = users'[v].name
                        /\ th'[s].row.type = users'[v].type
                        /\ v \notin crossed' => th'[s].row = users'[v]
      BY DEF CopiesTrue
    <2>1. s # t /\ th'[s] = th[s] /\ Holds(s, v) /\ v \in DOMAIN users
      BY <1>2, <1>3 DEF Holds, Idle, Thread
    <2>2. /\ th[s].row.name = users[v].name /\ th[s].row.type = users[v].type
          /\ v \notin crossed => th[s].row = users[v]
      BY <2>1 DEF Inv, CopiesTrue
    <2>3. v = u => v \in crossed'
      BY <1>3, <2>1
    <2> QED
      BY <1>1, <1>2, <2>1, <2>2, <2>3
  <1>7. InsertsFresh'
    BY <1>1, <1>2, <1>3 DEF Inv, InsertsFresh, Idle, Thread
  <1> QED
    BY <1>4, <1>5, <1>6, <1>7 DEF Inv

LEMMA NextInv == Inv /\ [Next]_vars => Inv'
  <1> SUFFICES ASSUME Inv, [Next]_vars PROVE Inv'
    OBVIOUS
  <1>1. TypeOK /\ TypeOK'
    BY NextTypeOK DEF Inv
  <1>2. th \in [Threads -> UNION {{th[s]} : s \in Threads}] /\ DOMAIN th = Threads
    BY <1>1 DEF TypeOK
  <1>3. CASE UNCHANGED th /\ Still
    BY <1>1, <1>3, StillKeepsInv
  <1>4. CASE Ends
    BY <1>1, <1>4, StillKeepsInv DEF Ends
  <1>5. ASSUME NEW t \in Threads, Rests(t) PROVE Inv'
    BY <1>1, <1>2, <1>5, StillKeepsInv DEF Rests
  <1>6. ASSUME NEW t \in Threads, NEW row \in UserRow, Tests(t, row) PROVE Inv'
    BY <1>1, <1>2, <1>6, StillKeepsInv DEF Tests
  <1>7. ASSUME NEW t \in Threads, NEW pc \in {"passwd", "topup"}, NEW u \in DOMAIN users,
               NEW passwd \in Passwords \cup {NoText}, NEW amount \in Int,
               Takes(t, pc, u, passwd, amount)
        PROVE  Inv'
    BY <1>1, <1>2, <1>7, StillKeepsInv DEF Takes
  <1> QED
    BY <1>1, <1>3, <1>4, <1>5, <1>6, <1>7, InsertKeepsInv, StoreKeepsInv, StepKinds

\* Two accounts share a name only if their signups crossed.
THEOREM NamesAreUnique == Spec => []UniqueNames
  <1>1. Inv => UniqueNames
    BY DEF Inv
  <1> QED
    BY <1>1, InitInv, NextInv, PTL DEF Spec

\* Password and balance are lost only to a request that crossed another on the
\* same account.
THEOREM LossNeedsCrossing == Spec => []LossOnlyByCrossing
  <1>1. Inv => LossOnlyByCrossing
    BY DEF Inv
  <1> QED
    BY <1>1, InitInv, NextInv, PTL DEF Spec

\* The rows present keep name and type, and new ids are larger than all of them.
LEMMA RowsKeepNames ==
  ASSUME Inv, [Next]_vars
  PROVE  /\ DOMAIN users \subseteq DOMAIN users'
         /\ \A u \in DOMAIN users : /\ users'[u].name = users[u].name
                                    /\ users'[u].type = users[u].type
         /\ \A u \in DOMAIN users, v \in DOMAIN users' \ DOMAIN users : u <= v
  <1>1. CASE Still
    BY <1>1 DEF Still
  <1>2. ASSUME NEW t \in Threads, SignupInsert(t)
        PROVE  users' = Put(users, lastUser + 1, th[t].row)
    BY <1>2 DEF SignupInsert, FreshId
  <1>3. DOMAIN users = 1 .. lastUser /\ lastUser \in Nat
    BY DEF Inv, TypeOK
  <1>4. CASE \E t \in Threads : SignupInsert(t)
    BY <1>2, <1>3, <1>4 DEF Put
  <1>5. CASE \E t \in Threads : PasswdStore(t) \/ TopupStore(t)
    BY <1>5, StoreKeepsNames
  <1>6. TypeOK
    BY DEF Inv
  <1> QED
    BY <1>1, <1>4, <1>5, <1>6, StepKinds DEF Ends, Rests, Tests, Takes

\* A name leads to one account for ever, and the account keeps its type.
THEOREM NamesKeepTheirAccount == Spec => NameKeepsAccount
  <1>1. Inv /\ [Next]_vars =>
          [\A name \in Names : \A u \in Found(name) :
             u \in Found(name)' /\ users'[u].type = users[u].type]_vars
    <2> SUFFICES ASSUME Inv, [Next]_vars, NEW name \in Names, NEW u \in Found(name)
                 PROVE  u \in Found(name)' /\ users'[u].type = users[u].type
      OBVIOUS
    <2>1. u \in DOMAIN users /\ users[u].name = name
          /\ \A v \in DOMAIN users : users[v].name = name => u <= v
      BY DEF Found, Named
    <2>2. u \in DOMAIN users' /\ users'[u].name = name /\ users'[u].type = users[u].type
      BY <2>1, RowsKeepNames
    <2>3. \A v \in DOMAIN users' : users'[v].name = name => u <= v
      BY <2>1, RowsKeepNames
    <2> QED
      BY <2>2, <2>3 DEF Found, Named
  <1> QED
    BY <1>1, InitInv, NextInv, PTL DEF Spec, NameKeepsAccount
=============================================================================
