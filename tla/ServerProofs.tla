---------------------------- MODULE ServerProofs ----------------------------
(***************************************************************************)
(* For any number of threads and descriptors.  The descriptors of          *)
(* connections, whatever the storage does with its own, races included:    *)
(* each is owned by one socket object until it is closed, once.  Then the  *)
(* connection that all storage calls share: what each thread has still to  *)
(* release, and with that what the count says.                             *)
(***************************************************************************)
EXTENDS ServerLoop, FiniteSetTheorems, SequenceTheorems, TLAPS

Typed ==
  /\ fds \in [Fds -> {"free", "socket", "db"}]
  /\ conn \in Fds \cup {Null} /\ sock \in [Threads -> Fds \cup {Null}]
  /\ at \in [Threads -> Places]

\* The accepting loop has a socket only between accept and the move; a thread has
\* one only while it serves.  Without this the next connection would overwrite a
\* handle that nobody closed.
NothingLost ==
  /\ main # "test" => conn = Null
  /\ \A t \in Threads : at[t] = "idle" => sock[t] = Null

Inv == Typed /\ NothingLost /\ HandlesOwned

LEMMA InitInv == Init => Inv
  BY ServerAssumption DEF Init, Inv, Typed, NothingLost, HandlesOwned, Places

\* The storage opens and closes descriptors of its own, and touches no socket.
Apart ==
  /\ UNCHANGED <<main, conn, sock>>
  /\ at' \in [Threads -> Places]
  /\ \A t \in Threads : at'[t] = "idle" => at[t] = "idle"
  /\ fds' \in [Fds -> {"free", "socket", "db"}]
  /\ \A f \in Fds : fds'[f] = "socket" <=> fds[f] = "socket"

LEMMA ApartKeepsInv == Inv /\ Apart => Inv'
  BY ServerAssumption DEF Inv, Apart, Typed, NothingLost, HandlesOwned

\* Every step of a storage call is apart, those of a failed call and of racing
\* threads too.
LEMMA StorageApart ==
  ASSUME Inv, NEW t \in Threads, Storage(t)
  PROVE  Apart
  <1>at. at \in [Threads -> Places] /\ fds \in [Fds -> {"free", "socket", "db"}]
    BY DEF Inv, Typed
  <1>go. ASSUME NEW where \in Places \ {"idle"}, Goes(t, where)
         PROVE  /\ at' \in [Threads -> Places]
                /\ \A u \in Threads : at'[u] = "idle" => at[u] = "idle"
    BY <1>go, <1>at DEF Goes
  <1>exec. "exec" \in Places \ {"idle"}
    BY DEF Places
  <1>same. ASSUME UNCHANGED at
           PROVE  /\ at' \in [Threads -> Places]
                  /\ \A u \in Threads : at'[u] = "idle" => at[u] = "idle"
    BY <1>same, <1>at
  <1>stay. ASSUME UNCHANGED <<fds, main, conn, sock>>,
                  UNCHANGED at \/ \E where \in Places \ {"idle"} : Goes(t, where)
           PROVE  Apart
    BY <1>stay, <1>at, <1>go, <1>same DEF Apart
  <1>throw. ASSUME NEW why \in Fates, Throws(t, why)
            PROVE  UNCHANGED at \/ \E where \in Places \ {"idle"} : Goes(t, where)
    BY <1>throw, <1>exec DEF Throws
  <1>1. CASE Calls(t)
    BY <1>1, <1>stay DEF Calls
  <1>2. CASE Reads(t, "retain", "adds") \/ Reads(t, "release", "subs")
    BY <1>2, <1>stay DEF Reads, Places
  <1>3. CASE Adds(t) \/ Subs(t)
    BY <1>3, <1>stay DEF Adds, Subs, Writes, Places
  <1>4. CASE Added(t)
    BY <1>4, <1>stay, <1>exec DEF Added, Finishes, Places
  <1>5. CASE Subbed(t)
    BY <1>5, <1>stay, <1>exec DEF Subbed, Finishes, Places
  <1>6. CASE Opens(t)
    <2>1. CASE UNCHANGED fds /\ Throws(t, "shortage")
      BY <1>6, <2>1, <1>stay, <1>throw DEF Opens, Fates
    <2>2. ASSUME NEW f \in Free, fds' = Open(f, "db"), Finishes(t)
          PROVE  Apart
      <3>1. /\ fds' \in [Fds -> {"free", "socket", "db"}]
            /\ \A g \in Fds : fds'[g] = "socket" <=> fds[g] = "socket"
        BY <2>2, <1>at DEF Open, Free
      <3> QED
        BY <1>6, <2>2, <3>1, <1>go, <1>exec DEF Apart, Opens, Finishes
    <2> QED
      BY <1>6, <2>1, <2>2 DEF Opens
  <1>7. CASE Closes(t)
    <2>1. CASE IsOpen(db) /\ fds' = OsClose(db) /\ Finishes(t)
      <3>1. /\ fds' \in [Fds -> {"free", "socket", "db"}]
            /\ \A g \in Fds : fds'[g] = "socket" <=> fds[g] = "socket"
        BY <2>1, <1>at DEF OsClose, IsOpen
      <3> QED
        BY <1>7, <2>1, <3>1, <1>go, <1>exec DEF Apart, Closes, Finishes
    <2>2. CASE UNCHANGED fds /\ (Finishes(t) \/ UNCHANGED at)
      BY <1>7, <2>2, <1>stay, <1>exec DEF Closes, Finishes
    <2>3. \/ IsOpen(db) /\ fds' = OsClose(db) /\ Finishes(t)
          \/ UNCHANGED fds /\ (Finishes(t) \/ UNCHANGED at)
      BY <1>7 DEF Closes
    <2> QED
      BY <2>1, <2>2, <2>3
  <1>8. CASE Prepares(t)
    BY <1>8, <1>stay, <1>throw, <1>exec DEF Prepares, Finishes, Fates
  <1>9. CASE Steps(t) \/ Finalizes(t)
    BY <1>9, <1>stay, <1>throw, <1>exec DEF Steps, Finalizes, Finishes, Fates
  <1> QED
    BY <1>1, <1>2, <1>3, <1>4, <1>5, <1>6, <1>7, <1>8, <1>9 DEF Storage

\* accept takes a free descriptor; the move gives its handle to one thread.
LEMMA StartKeepsInv ==
  ASSUME Inv, Start
  PROVE  Inv'
  <1>1. CASE Sync \/ AcceptFailed
    BY <1>1 DEF Sync, AcceptFailed, Main, local, Inv, Typed, NothingLost, HandlesOwned
  <1>2. CASE Accept
    BY <1>2, ServerAssumption
    DEF Accept, Main, local, Free, Open, Inv, Typed, NothingLost, HandlesOwned
  <1>3. ASSUME NEW t \in Threads, Spawn(t) PROVE Inv'
    <2>1. /\ conn \in Fds /\ conn' = Null /\ main' = "moved" /\ UNCHANGED fds
          /\ sock' = [sock EXCEPT ![t] = conn] /\ sock[t] = Null
          /\ at' = [at EXCEPT ![t] = "recv"]
      BY <1>3 DEF Spawn, Main, MovedFrom, Goes, Inv, Typed, NothingLost
    <2>2. Typed' /\ NothingLost'
      BY <2>1 DEF Inv, Typed, NothingLost, Places
    <2>3. HandlesOwned'
      BY <2>1, ServerAssumption DEF Inv, Typed, HandlesOwned
    <2> QED
      BY <2>2, <2>3 DEF Inv
  <1>4. CASE NextTurn
    BY <1>4 DEF NextTurn, Main, Destroy, local, Inv, Typed, NothingLost, HandlesOwned
  <1> QED
    BY <1>1, <1>2, <1>3, <1>4 DEF Start

\* A thread closes its own socket, and forgets the handle.
LEMMA ServeKeepsInv ==
  ASSUME Inv, NEW t \in Threads, Serve(t)
  PROVE  Inv'
  <1>1. CASE Recv(t) \/ Send(t)
    <2>1. Apart
      BY <1>1 DEF Recv, Send, Serves, Goes, Apart, Inv, Typed, Places
    <2> QED
      BY <2>1, ApartKeepsInv
  <1>2. CASE Storage(t)
    BY <1>2, StorageApart, ApartKeepsInv
  <1>3. CASE Close(t) \/ Ends(t)
    <2>1. /\ UNCHANGED <<main, conn>> /\ Destroy(sock[t])
          /\ sock' = [sock EXCEPT ![t] = Null]
          /\ at' = [at EXCEPT ![t] = "ends"] \/ at' = [at EXCEPT ![t] = "idle"]
      BY <1>3 DEF Close, Ends, Serves, Goes, Closed, Inv, Typed
    <2>2. Typed'
      BY <2>1 DEF Inv, Typed, Destroy, OsClose, Places
    <2>3. NothingLost'
      BY <2>1 DEF Inv, Typed, NothingLost
    <2>4. HandlesOwned'
      BY <2>1, ServerAssumption DEF Inv, Typed, HandlesOwned, Destroy, OsClose
    <2> QED
      BY <2>2, <2>3, <2>4 DEF Inv
  <1> QED
    BY <1>1, <1>2, <1>3 DEF Serve

LEMMA NextKeepsInv == Inv /\ [Next]_vars => Inv'
  <1> SUFFICES ASSUME Inv, [Next]_vars PROVE Inv'
    OBVIOUS
  <1>1. CASE Start
    BY <1>1, StartKeepsInv
  <1>2. ASSUME NEW t \in Threads, Serve(t) PROVE Inv'
    BY <1>2, ServeKeepsInv
  <1>3. CASE UNCHANGED vars
    BY <1>3 DEF vars, local, Inv, Typed, NothingLost, HandlesOwned
  <1> QED
    BY <1>1, <1>2, <1>3 DEF Next

\* No descriptor of a connection is closed twice, closed for another connection
\* or for the database, or leaked, for any number of threads and descriptors.
THEOREM DescriptorsOwned == Spec => []HandlesOwned
  <1>1. Inv => HandlesOwned
    BY DEF Inv
  <1> QED
    BY InitInv, NextKeepsInv, <1>1, PTL DEF Spec
-----------------------------------------------------------------------------
(* The two calls of the storage, operation by operation *)

\* The references held before each operation of a call, and after the last.
StatementHeld == <<0, 1, 1, 2, 1, 2, 2, 1, 1, 0>>
ViewHeld == <<0, 1, 2, 1, 1, 1, 1, 0>>

\* With these operations left to do a thread holds so many references, and has a
\* statement only between its prepare and its finalize.
Stage(left, held, stated) ==
  \/ \E k \in 1 .. 10 : /\ left = SubSeq(StatementCall, k, 9) /\ held = StatementHeld[k]
                        /\ stated => k \in 3 .. 8
  \/ \E k \in 1 .. 8 : /\ left = SubSeq(ViewCall, k, 7) /\ held = ViewHeld[k]
                       /\ stated => k \in 5 .. 6

\* Of any call, what is left after one more operation.
LEMMA Suffix ==
  ASSUME NEW S, NEW call \in Seq(S), NEW k \in 1 .. Len(call) + 1
  PROVE  /\ SubSeq(call, k, Len(call)) \in Seq(S)
         /\ SubSeq(call, k, Len(call)) = <<>> <=> k = Len(call) + 1
         /\ k <= Len(call) => /\ Head(SubSeq(call, k, Len(call))) = call[k]
                              /\ Tail(SubSeq(call, k, Len(call))) = SubSeq(call, k + 1, Len(call))
         /\ k < Len(call) => SubSeq(call, k, Len(call))[2] = call[k + 1]
  <1>1. Len(call) \in Nat
    OBVIOUS
  <1>2. /\ SubSeq(call, k, Len(call)) \in Seq(S)
        /\ Len(SubSeq(call, k, Len(call))) = Len(call) - k + 1
        /\ \A i \in 1 .. Len(call) - k + 1 : SubSeq(call, k, Len(call))[i] = call[k + i - 1]
    BY <1>1
  <1>3. SubSeq(call, k, Len(call)) = <<>> <=> k = Len(call) + 1
    <2>1. SubSeq(call, k, Len(call)) = <<>> <=> Len(SubSeq(call, k, Len(call))) = 0
      BY <1>2, EmptySeq
    <2> QED
      BY <1>1, <1>2, <2>1
  <1>4. ASSUME k <= Len(call)
        PROVE  /\ Head(SubSeq(call, k, Len(call))) = call[k]
               /\ Tail(SubSeq(call, k, Len(call))) = SubSeq(call, k + 1, Len(call))
    BY <1>1, <1>4, HeadTailOfSubSeq
  <1>5. k < Len(call) => SubSeq(call, k, Len(call))[2] = call[k + 1]
    BY <1>1, <1>2
  <1> QED
    BY <1>2, <1>3, <1>4, <1>5

LEMMA Calling ==
  /\ StatementCall \in Seq(Ops) /\ Len(StatementCall) = 9
  /\ ViewCall \in Seq(Ops) /\ Len(ViewCall) = 7
  <1>1. StatementCall \in Seq(Ops) /\ Len(StatementCall) = 9
    BY DEF StatementCall, Ops
  <1>2. ViewCall \in Seq(Ops) /\ Len(ViewCall) = 7
    BY DEF ViewCall, Ops
  <1> QED
    BY <1>1, <1>2

\* What the two calls do at each place, with the references held there.
LEMMA StatementTable ==
  /\ \A k \in 1 .. 9 :
       \/ k = 1 /\ StatementCall[k] = "retain" /\ StatementHeld[k] = 0 /\ StatementHeld[k + 1] = 1
       \/ k = 2 /\ StatementCall[k] = "prepare" /\ StatementHeld[k] = 1 /\ StatementHeld[k + 1] = 1
       \/ k = 3 /\ StatementCall[k] = "retain" /\ StatementHeld[k] = 1 /\ StatementHeld[k + 1] = 2
       \/ k = 4 /\ StatementCall[k] = "release" /\ StatementHeld[k] = 2 /\ StatementHeld[k + 1] = 1
       \/ k = 5 /\ StatementCall[k] = "retain" /\ StatementHeld[k] = 1 /\ StatementHeld[k + 1] = 2
       \/ k = 6 /\ StatementCall[k] = "step" /\ StatementHeld[k] = 2 /\ StatementHeld[k + 1] = 2
       \/ k = 7 /\ StatementCall[k] = "release" /\ StatementHeld[k] = 2 /\ StatementHeld[k + 1] = 1
       \/ k = 8 /\ StatementCall[k] = "finalize" /\ StatementHeld[k] = 1 /\ StatementHeld[k + 1] = 1
       \/ k = 9 /\ StatementCall[k] = "release" /\ StatementHeld[k] = 1 /\ StatementHeld[k + 1] = 0
  /\ StatementHeld[10] = 0
  BY DEF StatementCall, StatementHeld

LEMMA ViewTable ==
  /\ \A k \in 1 .. 7 :
       \/ k = 1 /\ ViewCall[k] = "retain" /\ ViewHeld[k] = 0 /\ ViewHeld[k + 1] = 1
       \/ k = 2 /\ ViewCall[k] = "retain" /\ ViewHeld[k] = 1 /\ ViewHeld[k + 1] = 2
       \/ k = 3 /\ ViewCall[k] = "release" /\ ViewHeld[k] = 2 /\ ViewHeld[k + 1] = 1
       \/ k = 4 /\ ViewCall[k] = "prepare" /\ ViewHeld[k] = 1 /\ ViewHeld[k + 1] = 1
       \/ k = 5 /\ ViewCall[k] = "step" /\ ViewHeld[k] = 1 /\ ViewHeld[k + 1] = 1
       \/ k = 6 /\ ViewCall[k] = "finalize" /\ ViewHeld[k] = 1 /\ ViewHeld[k + 1] = 1
       \/ k = 7 /\ ViewCall[k] = "release" /\ ViewHeld[k] = 1 /\ ViewHeld[k + 1] = 0
  /\ ViewHeld[8] = 0
  BY DEF ViewCall, ViewHeld

LEMMA StatementLeft ==
  \A k \in 1 .. 10 :
    LET left == SubSeq(StatementCall, k, 9)
    IN /\ left \in Seq(Ops) /\ (left = <<>> <=> k = 10)
       /\ k < 10 => Head(left) = StatementCall[k] /\ Tail(left) = SubSeq(StatementCall, k + 1, 9)
       /\ k < 9 => left[2] = StatementCall[k + 1]
  <1> TAKE k \in 1 .. 10
  <1>1. /\ SubSeq(StatementCall, k, Len(StatementCall)) \in Seq(Ops)
        /\ SubSeq(StatementCall, k, Len(StatementCall)) = <<>> <=> k = Len(StatementCall) + 1
        /\ k <= Len(StatementCall) =>
             /\ Head(SubSeq(StatementCall, k, Len(StatementCall))) = StatementCall[k]
             /\ Tail(SubSeq(StatementCall, k, Len(StatementCall)))
                  = SubSeq(StatementCall, k + 1, Len(StatementCall))
        /\ k < Len(StatementCall) =>
             SubSeq(StatementCall, k, Len(StatementCall))[2] = StatementCall[k + 1]
    <2>1. k \in 1 .. Len(StatementCall) + 1
      BY Calling
    <2> QED
      BY <2>1, Calling, Suffix
  <1> QED
    BY <1>1, Calling

LEMMA ViewLeft ==
  \A k \in 1 .. 8 :
    LET left == SubSeq(ViewCall, k, 7)
    IN /\ left \in Seq(Ops) /\ (left = <<>> <=> k = 8)
       /\ k < 8 => Head(left) = ViewCall[k] /\ Tail(left) = SubSeq(ViewCall, k + 1, 7)
       /\ k < 7 => left[2] = ViewCall[k + 1]
  <1> TAKE k \in 1 .. 8
  <1>1. /\ SubSeq(ViewCall, k, Len(ViewCall)) \in Seq(Ops)
        /\ SubSeq(ViewCall, k, Len(ViewCall)) = <<>> <=> k = Len(ViewCall) + 1
        /\ k <= Len(ViewCall) =>
             /\ Head(SubSeq(ViewCall, k, Len(ViewCall))) = ViewCall[k]
             /\ Tail(SubSeq(ViewCall, k, Len(ViewCall))) = SubSeq(ViewCall, k + 1, Len(ViewCall))
        /\ k < Len(ViewCall) => SubSeq(ViewCall, k, Len(ViewCall))[2] = ViewCall[k + 1]
    <2>1. k \in 1 .. Len(ViewCall) + 1
      BY Calling
    <2> QED
      BY <2>1, Calling, Suffix
  <1> QED
    BY <1>1, Calling

LEMMA StageAt ==
  ASSUME NEW stated \in BOOLEAN
  PROVE  /\ \A k \in 1 .. 10 : (stated => k \in 3 .. 8) =>
              Stage(SubSeq(StatementCall, k, 9), StatementHeld[k], stated)
         /\ \A k \in 1 .. 8 : (stated => k \in 5 .. 6) =>
              Stage(SubSeq(ViewCall, k, 7), ViewHeld[k], stated)
  <1>1. ASSUME NEW k \in 1 .. 10, stated => k \in 3 .. 8
        PROVE  Stage(SubSeq(StatementCall, k, 9), StatementHeld[k], stated)
    BY <1>1 DEF Stage
  <1>2. ASSUME NEW k \in 1 .. 8, stated => k \in 5 .. 6
        PROVE  Stage(SubSeq(ViewCall, k, 7), ViewHeld[k], stated)
    BY <1>2 DEF Stage
  <1> QED
    BY <1>1, <1>2

LEMMA StageStarts ==
  Stage(StatementCall, 0, FALSE) /\ Stage(ViewCall, 0, FALSE) /\ Stage(<<>>, 0, FALSE)
  <1>1. SubSeq(StatementCall, 1, 9) = StatementCall /\ SubSeq(ViewCall, 1, 7) = ViewCall
    BY Calling, SubSeqFull
  <1>2. SubSeq(StatementCall, 10, 9) = <<>>
    BY Calling, Suffix
  <1>3. StatementHeld[1] = 0 /\ ViewHeld[1] = 0 /\ StatementHeld[10] = 0
    BY DEF StatementHeld, ViewHeld
  <1> QED
    BY <1>1, <1>2, <1>3 DEF Stage

LEMMA StageTyped ==
  ASSUME NEW left, NEW held, NEW stated \in BOOLEAN, Stage(left, held, stated)
  PROVE  left \in Seq(Ops) /\ held \in Nat /\ (left = <<>> => held = 0 /\ ~stated)
  <1>1. ASSUME NEW k \in 1 .. 10, left = SubSeq(StatementCall, k, 9), held = StatementHeld[k],
               stated => k \in 3 .. 8
        PROVE  left \in Seq(Ops) /\ held \in Nat /\ (left = <<>> => held = 0 /\ ~stated)
    <2>1. left \in Seq(Ops) /\ (left = <<>> <=> k = 10)
      BY <1>1, StatementLeft
    <2>2. held \in Nat
      BY <1>1, StatementTable
    <2>3. k = 10 => held = 0 /\ ~stated
      BY <1>1, StatementTable
    <2> QED
      BY <2>1, <2>2, <2>3
  <1>2. ASSUME NEW k \in 1 .. 8, left = SubSeq(ViewCall, k, 7), held = ViewHeld[k],
               stated => k \in 5 .. 6
        PROVE  left \in Seq(Ops) /\ held \in Nat /\ (left = <<>> => held = 0 /\ ~stated)
    <2>1. left \in Seq(Ops) /\ (left = <<>> <=> k = 8)
      BY <1>2, ViewLeft
    <2>2. held \in Nat
      BY <1>2, ViewTable
    <2>3. k = 8 => held = 0 /\ ~stated
      BY <1>2, ViewTable
    <2> QED
      BY <2>1, <2>2, <2>3
  <1> QED
    BY <1>1, <1>2 DEF Stage

\* One operation of a call: a retain adds a reference, a release finds one and,
\* while there is a statement, leaves one; a prepare finds one.
LEMMA StageGoesOn ==
  ASSUME NEW left, NEW held, NEW stated \in BOOLEAN, Stage(left, held, stated), left # <<>>
  PROVE  /\ Head(left) = "retain" => Stage(Tail(left), held + 1, stated)
         /\ Head(left) = "release" =>
              held >= 1 /\ (stated => held >= 2) /\ Stage(Tail(left), held - 1, stated)
         /\ Head(left) = "prepare" => held >= 1 /\ ~stated /\ Stage(Tail(left), held, TRUE)
         /\ Head(left) = "step" => Stage(Tail(left), held, stated)
         /\ Head(left) = "finalize" => Stage(Tail(left), held, FALSE)
  <1> DEFINE Goal == 
         /\ Head(left) = "retain" => Stage(Tail(left), held + 1, stated)
         /\ Head(left) = "release" =>
              held >= 1 /\ (stated => held >= 2) /\ Stage(Tail(left), held - 1, stated)
         /\ Head(left) = "prepare" => held >= 1 /\ ~stated /\ Stage(Tail(left), held, TRUE)
         /\ Head(left) = "step" => Stage(Tail(left), held, stated)
         /\ Head(left) = "finalize" => Stage(Tail(left), held, FALSE)
  <1>1. ASSUME NEW k \in 1 .. 10, left = SubSeq(StatementCall, k, 9), held = StatementHeld[k],
               stated => k \in 3 .. 8
        PROVE  Goal
    <2>1. /\ k \in 1 .. 9 /\ Head(left) = StatementCall[k]
          /\ Tail(left) = SubSeq(StatementCall, k + 1, 9)
      BY <1>1, StatementLeft
    <2>2. ASSUME NEW s \in BOOLEAN, s => k + 1 \in 3 .. 8
          PROVE  Stage(Tail(left), StatementHeld[k + 1], s)
      <3> DEFINE j == k + 1
      <3>1. j \in 1 .. 10 /\ (s => j \in 3 .. 8)
        BY <2>1, <2>2
      <3> HIDE DEF j
      <3>2. Stage(SubSeq(StatementCall, j, 9), StatementHeld[j], s)
        BY <3>1, StageAt
      <3> QED
        BY <2>1, <3>2 DEF j
    <2> HIDE DEF Goal
    <2>3. StatementCall[k] = "retain" =>
            StatementHeld[k + 1] = held + 1 /\ (stated => k + 1 \in 3 .. 8)
      <3>1. StatementCall[k] = "retain" =>
              \/ k = 1 /\ held = 0 /\ StatementHeld[k + 1] = 1
              \/ k = 3 /\ held = 1 /\ StatementHeld[k + 1] = 2
              \/ k = 5 /\ held = 1 /\ StatementHeld[k + 1] = 2
        BY <1>1, <2>1, StatementTable
      <3> QED
        BY <1>1, <3>1
    <2>4. StatementCall[k] = "release" =>
            /\ held >= 1 /\ (stated => held >= 2)
            /\ StatementHeld[k + 1] = held - 1 /\ (stated => k + 1 \in 3 .. 8)
      <3>1. StatementCall[k] = "release" =>
              \/ k = 4 /\ held = 2 /\ StatementHeld[k + 1] = 1
              \/ k = 7 /\ held = 2 /\ StatementHeld[k + 1] = 1
              \/ k = 9 /\ held = 1 /\ StatementHeld[k + 1] = 0
        BY <1>1, <2>1, StatementTable
      <3> QED
        BY <1>1, <3>1
    <2>5. StatementCall[k] = "prepare" =>
            held >= 1 /\ ~stated /\ StatementHeld[k + 1] = held /\ k + 1 \in 3 .. 8
      <3>1. StatementCall[k] = "prepare" => k = 2 /\ held = 1 /\ StatementHeld[k + 1] = 1
        BY <1>1, <2>1, StatementTable
      <3> QED
        BY <1>1, <3>1
    <2>6. StatementCall[k] = "step" => StatementHeld[k + 1] = held /\ (stated => k + 1 \in 3 .. 8)
      <3>1. StatementCall[k] = "step" =>
              \/ k = 6 /\ held = 2 /\ StatementHeld[k + 1] = 2
        BY <1>1, <2>1, StatementTable
      <3> QED
        BY <1>1, <3>1
    <2>7. StatementCall[k] = "finalize" => StatementHeld[k + 1] = held
      <3>1. StatementCall[k] = "finalize" =>
              \/ k = 8 /\ held = 1 /\ StatementHeld[k + 1] = 1
        BY <1>1, <2>1, StatementTable
      <3> QED
        BY <1>1, <3>1
    <2>8. Head(left) = "retain" => Stage(Tail(left), held + 1, stated)
      BY <2>1, <2>2, <2>3
    <2>9. Head(left) = "release" => Stage(Tail(left), held - 1, stated)
      BY <2>1, <2>2, <2>4
    <2>10. Head(left) = "prepare" => Stage(Tail(left), held, TRUE)
      BY <2>1, <2>2, <2>5
    <2>11. Head(left) = "step" => Stage(Tail(left), held, stated)
      BY <2>1, <2>2, <2>6
    <2>12. Head(left) = "finalize" => Stage(Tail(left), held, FALSE)
      BY <2>1, <2>2, <2>7
    <2> QED
      BY <2>1, <2>4, <2>5, <2>8, <2>9, <2>10, <2>11, <2>12 DEF Goal
  <1>2. ASSUME NEW k \in 1 .. 8, left = SubSeq(ViewCall, k, 7), held = ViewHeld[k],
               stated => k \in 5 .. 6
        PROVE  Goal
    <2>1. k \in 1 .. 7 /\ Head(left) = ViewCall[k] /\ Tail(left) = SubSeq(ViewCall, k + 1, 7)
      BY <1>2, ViewLeft
    <2>2. ASSUME NEW s \in BOOLEAN, s => k + 1 \in 5 .. 6
          PROVE  Stage(Tail(left), ViewHeld[k + 1], s)
      <3> DEFINE j == k + 1
      <3>1. j \in 1 .. 8 /\ (s => j \in 5 .. 6)
        BY <2>1, <2>2
      <3> HIDE DEF j
      <3>2. Stage(SubSeq(ViewCall, j, 7), ViewHeld[j], s)
        BY <3>1, StageAt
      <3> QED
        BY <2>1, <3>2 DEF j
    <2> HIDE DEF Goal
    <2>3. ViewCall[k] = "retain" => ViewHeld[k + 1] = held + 1 /\ ~stated
      BY <1>2, <2>1, ViewTable
    <2>4. ViewCall[k] = "release" =>
            held >= 1 /\ ~stated /\ ViewHeld[k + 1] = held - 1
      BY <1>2, <2>1, ViewTable
    <2>5. ViewCall[k] = "prepare" =>
            held >= 1 /\ ~stated /\ ViewHeld[k + 1] = held /\ k + 1 \in 5 .. 6
      BY <1>2, <2>1, ViewTable
    <2>6. ViewCall[k] = "step" => ViewHeld[k + 1] = held /\ k + 1 \in 5 .. 6
      BY <1>2, <2>1, ViewTable
    <2>7. ViewCall[k] = "finalize" => ViewHeld[k + 1] = held
      BY <1>2, <2>1, ViewTable
    <2>8. Head(left) = "retain" => Stage(Tail(left), held + 1, stated)
      BY <2>1, <2>2, <2>3
    <2>9. Head(left) = "release" => Stage(Tail(left), held - 1, stated)
      BY <2>1, <2>2, <2>4
    <2>10. Head(left) = "prepare" => Stage(Tail(left), held, TRUE)
      BY <2>1, <2>2, <2>5
    <2>11. Head(left) = "step" => Stage(Tail(left), held, stated)
      BY <2>1, <2>2, <2>6
    <2>12. Head(left) = "finalize" => Stage(Tail(left), held, FALSE)
      BY <2>1, <2>2, <2>7
    <2> QED
      BY <2>1, <2>4, <2>5, <2>8, <2>9, <2>10, <2>11, <2>12 DEF Goal
  <1> QED
    BY <1>1, <1>2 DEF Stage, Goal

\* An exception leaves the call with what it held to give back.
LEMMA StageThrows ==
  ASSUME NEW left, NEW held, Stage(left, held, FALSE), left # <<>>,
         Head(left) \in {"retain", "prepare"}
  PROVE  Stage((IF left[2] = "step" THEN <<"finalize">> ELSE <<>>)
                 \o [i \in 1 .. held |-> "release"], held, FALSE)
  <1>1. /\ SubSeq(StatementCall, 10, 9) = <<>>
        /\ SubSeq(StatementCall, 9, 9) = <<"release">>
        /\ SubSeq(StatementCall, 8, 9) = <<"finalize">> \o <<"release">>
    <2>1. SubSeq(StatementCall, 10, 9) = <<>>
      BY StatementLeft
    <2>2. StatementCall[8] = "finalize" /\ StatementCall[9] = "release"
      BY StatementTable
    <2>3. SubSeq(StatementCall, 9, 9) = <<StatementCall[9]>> \o SubSeq(StatementCall, 10, 9)
      BY Calling, SubSeqRecursiveFirst
    <2>4. SubSeq(StatementCall, 8, 9) = <<StatementCall[8]>> \o SubSeq(StatementCall, 9, 9)
      BY Calling, SubSeqRecursiveFirst
    <2>5. <<"release">> \o <<>> = <<"release">>
      OBVIOUS
    <2> QED
      BY <2>1, <2>2, <2>3, <2>4, <2>5
  <1>2. /\ StatementHeld[10] = 0 /\ StatementHeld[9] = 1 /\ StatementHeld[8] = 1
    BY StatementTable
  <1>3. /\ Stage(<<>>, 0, FALSE) /\ Stage(<<"release">>, 1, FALSE)
        /\ Stage(<<"finalize">> \o <<"release">>, 1, FALSE)
    <2>1. \A k \in 1 .. 10 : Stage(SubSeq(StatementCall, k, 9), StatementHeld[k], FALSE)
      BY StageAt
    <2>3. 10 \in 1 .. 10 /\ 9 \in 1 .. 10 /\ 8 \in 1 .. 10
      OBVIOUS
    <2>2. /\ Stage(SubSeq(StatementCall, 10, 9), StatementHeld[10], FALSE)
          /\ Stage(SubSeq(StatementCall, 9, 9), StatementHeld[9], FALSE)
          /\ Stage(SubSeq(StatementCall, 8, 9), StatementHeld[8], FALSE)
      BY <2>1, <2>3, Zenon
    <2> QED
      BY <1>1, <1>2, <2>2
  <1>4. \/ held = 0 /\ left[2] # "step"
        \/ held = 1
    <2>1. ASSUME NEW k \in 1 .. 10, left = SubSeq(StatementCall, k, 9), held = StatementHeld[k]
          PROVE  \/ held = 0 /\ left[2] # "step"
                 \/ held = 1
      <3>1. /\ k \in 1 .. 9 /\ Head(left) = StatementCall[k]
            /\ k < 9 => left[2] = StatementCall[k + 1]
        BY <2>1, StatementLeft
      <3>2. k \in {1, 2, 3, 5}
        BY <3>1, StatementTable
      <3> QED
        BY <2>1, <3>1, <3>2, StatementTable
    <2>2. ASSUME NEW k \in 1 .. 8, left = SubSeq(ViewCall, k, 7), held = ViewHeld[k]
          PROVE  \/ held = 0 /\ left[2] # "step"
                 \/ held = 1
      <3>1. k \in 1 .. 7 /\ Head(left) = ViewCall[k] /\ (k < 7 => left[2] = ViewCall[k + 1])
        BY <2>2, ViewLeft
      <3>2. k \in {1, 2, 4}
        BY <3>1, ViewTable
      <3> QED
        BY <2>2, <3>1, <3>2, ViewTable
    <2> QED
      BY <2>1, <2>2 DEF Stage
  <1>5. [i \in 1 .. 0 |-> "release"] = <<>> /\ [i \in 1 .. 1 |-> "release"] = <<"release">>
    OBVIOUS
  <1>6. /\ <<>> \o <<>> = <<>> /\ <<>> \o <<"release">> = <<"release">>
    OBVIOUS
  <1>7. CASE held = 0 /\ left[2] # "step"
    BY <1>3, <1>5, <1>6, <1>7
  <1>8. CASE held = 1 /\ left[2] # "step"
    BY <1>3, <1>5, <1>6, <1>8
  <1>9. CASE held = 1 /\ left[2] = "step"
    BY <1>3, <1>5, <1>6, <1>9
  <1> QED
    BY <1>4, <1>7, <1>8, <1>9

-----------------------------------------------------------------------------
(* The connection that the storage calls share *)

AllTyped ==
  /\ main \in {"sync", "accept", "test", "moved"}
  /\ todo \in [Threads -> Seq(Ops)] /\ calls \in [Threads -> 0 .. MaxCalls]
  /\ tried \in [Threads -> BOOLEAN] /\ reg \in [Threads -> -1 .. MaxCount]
  /\ refs \in [Threads -> Nat] /\ stmt \in [Threads -> Fds \cup {Null}]
  /\ db \in Fds \cup {Null, Sick, Dead} /\ count \in -1 .. MaxCount
  /\ fate \in Fates /\ raced \in BOOLEAN /\ failed \in BOOLEAN

\* Every thread is somewhere in one of the two calls, or in none; the reference it
\* gives back counts no longer while it closes.
Script(t) ==
  /\ Stage(todo[t], IF at[t] = "closes" THEN refs[t] + 1 ELSE refs[t], ~raced /\ stmt[t] # Null)
  /\ at[t] \in {"adds", "added", "opens"} => todo[t] # <<>> /\ Head(todo[t]) = "retain"
  /\ at[t] \in {"subs", "subbed", "closes"} => todo[t] # <<>> /\ Head(todo[t]) = "release"
  /\ at[t] \in {"idle", "recv", "close", "ends"} => todo[t] = <<>>
Scripts == \A t \in Threads : Script(t)

\* db_sync is over before there are threads.
SyncFirst == main = "sync" => ~failed /\ \A t \in Threads : at[t] = "idle"

Alone == \A t, u \in Threads : InSection(t) /\ InSection(u) => t = u

\* The count is that of the references, the one that a failed open lost, and ahead
\* or behind by the step that the one thread in a section has made.
Counts(ahead) == count = Cardinality(References) + (IF failed THEN 1 ELSE 0) + ahead
Counted ==
  /\ (\A t \in Threads : at[t] \notin {"added", "opens", "subbed"}) => Counts(0)
  /\ \A t \in Threads :
       /\ at[t] \in {"adds", "subs"} => reg[t] = count
       /\ at[t] = "added" => Counts(1) /\ reg[t] + 1 = count
       /\ at[t] = "opens" => Counts(1) /\ count = 1
       /\ at[t] = "subbed" => Counts(-1) /\ reg[t] - 1 = count
       /\ at[t] = "closes" => count = 0

\* The database is open while there are references, and while the last is going;
\* after a failed open the handle is the one that came of it.
Opened ==
  /\ failed => db = Sick
  /\ ~failed =>
    /\ \A f \in Fds : fds[f] = "db" => f = db
    /\ IsOpen(db) <=> References # {} \/ \E t \in Threads : at[t] = "closes"
    /\ \A t \in Threads : stmt[t] # Null => stmt[t] = db /\ refs[t] > 0

Orderly == Alone /\ Counted /\ Opened
Running == Scripts /\ SyncFirst /\ IsFiniteSet(References) /\ (~raced => Orderly)
Sound == Inv /\ AllTyped /\ (fate = "runs" => Running) /\ HarmOnlyByRace

-----------------------------------------------------------------------------
(* The set of the references *)

RefsOf(r) == UNION {{t} \X (1 .. r[t]) : t \in Threads}

\* A reference taken is one member more of the set, one given back one less.
LEMMA OneMore ==
  ASSUME NEW r \in [Threads -> Nat], NEW t \in Threads, IsFiniteSet(RefsOf(r))
  PROVE  LET more == [r EXCEPT ![t] = @ + 1]
         IN /\ IsFiniteSet(RefsOf(more)) /\ RefsOf(more) # {}
            /\ Cardinality(RefsOf(more)) = Cardinality(RefsOf(r)) + 1
  <1> DEFINE more == [r EXCEPT ![t] = @ + 1]
             new == <<t, r[t] + 1>>
  <1>1. more \in [Threads -> Nat] /\ more[t] = r[t] + 1
        /\ \A u \in Threads \ {t} : more[u] = r[u]
    OBVIOUS
  <1>2. new \notin RefsOf(r)
    BY DEF RefsOf
  <1>3. RefsOf(more) = RefsOf(r) \cup {new}
    <2>1. ASSUME NEW u \in Threads
          PROVE  {u} \X (1 .. more[u]) = {u} \X (1 .. r[u]) \cup (IF u = t THEN {new} ELSE {})
      <3>1. CASE u = t
        <4>1. 1 .. more[u] = (1 .. r[u]) \cup {r[u] + 1}
          BY <1>1, <3>1
        <4> QED
          BY <3>1, <4>1
      <3>2. CASE u # t
        BY <1>1, <3>2
      <3> QED
        BY <3>1, <3>2
    <2> QED
      BY <2>1 DEF RefsOf
  <1> HIDE DEF more, new
  <1>4. /\ IsFiniteSet(RefsOf(r) \cup {new})
        /\ Cardinality(RefsOf(r) \cup {new}) = Cardinality(RefsOf(r)) + 1
    BY <1>2, FS_AddElement
  <1> QED
    BY <1>3, <1>4 DEF more

LEMMA OneLess ==
  ASSUME NEW r \in [Threads -> Nat], NEW t \in Threads, r[t] >= 1, IsFiniteSet(RefsOf(r))
  PROVE  LET less == [r EXCEPT ![t] = @ - 1]
         IN /\ IsFiniteSet(RefsOf(less)) /\ RefsOf(r) # {}
            /\ Cardinality(RefsOf(less)) = Cardinality(RefsOf(r)) - 1
  <1> DEFINE less == [r EXCEPT ![t] = @ - 1]
             old == <<t, r[t]>>
  <1>1. less \in [Threads -> Nat] /\ less[t] = r[t] - 1
        /\ \A u \in Threads \ {t} : less[u] = r[u]
    OBVIOUS
  <1>2. old \in RefsOf(r)
    BY DEF RefsOf
  <1>3. RefsOf(less) = RefsOf(r) \ {old}
    <2>1. ASSUME NEW u \in Threads
          PROVE  {u} \X (1 .. less[u]) = ({u} \X (1 .. r[u])) \ {old}
      <3>1. CASE u = t
        <4>1. 1 .. less[u] = (1 .. r[u]) \ {r[u]}
          BY <1>1, <3>1
        <4> QED
          BY <3>1, <4>1
      <3>2. CASE u # t
        BY <1>1, <3>2
      <3> QED
        BY <3>1, <3>2
    <2> QED
      BY <2>1 DEF RefsOf
  <1> HIDE DEF less, old
  <1>4. /\ IsFiniteSet(RefsOf(r) \ {old})
        /\ Cardinality(RefsOf(r) \ {old}) = Cardinality(RefsOf(r)) - 1
    BY <1>2, FS_RemoveElement
  <1> QED
    BY <1>2, <1>3, <1>4 DEF less

LEMMA NoneLeft ==
  ASSUME NEW r \in [Threads -> Nat], IsFiniteSet(RefsOf(r))
  PROVE  /\ Cardinality(RefsOf(r)) \in Nat
         /\ Cardinality(RefsOf(r)) = 0 <=> RefsOf(r) = {}
         /\ RefsOf(r) = {} <=> \A t \in Threads : r[t] = 0
  <1>1. Cardinality(RefsOf(r)) \in Nat /\ (Cardinality(RefsOf(r)) = 0 <=> RefsOf(r) = {})
    BY FS_CardinalityType, FS_EmptySet
  <1>2. ASSUME NEW t \in Threads, r[t] # 0 PROVE RefsOf(r) # {}
    <2>1. <<t, 1>> \in {t} \X (1 .. r[t])
      BY <1>2
    <2> QED
      BY <2>1 DEF RefsOf
  <1>3. ASSUME \A t \in Threads : r[t] = 0 PROVE RefsOf(r) = {}
    BY <1>3 DEF RefsOf
  <1> QED
    BY <1>1, <1>2, <1>3

\* Of the references there are now and after a step.
LEMMA TheseReferences == References = RefsOf(refs) /\ References' = RefsOf(refs')
  BY DEF References, RefsOf

-----------------------------------------------------------------------------
(* What every step keeps: the types first, then one lemma per operation *)

\* A step of one thread leaves what the others are doing alone.
Others(t) ==
  /\ raced => raced'
  /\ \A u \in Threads \ {t} :
       at'[u] = at[u] /\ todo'[u] = todo[u] /\ refs'[u] = refs[u] /\ stmt'[u] = stmt[u]
         /\ reg'[u] = reg[u]

LEMMA StageForgets ==
  ASSUME NEW left, NEW held, NEW stated \in BOOLEAN, NEW less \in BOOLEAN,
         less => stated, Stage(left, held, stated)
  PROVE  Stage(left, held, less)
  BY DEF Stage

LEMMA OthersKeepScripts ==
  ASSUME AllTyped, AllTyped', Scripts, NEW t \in Threads, Others(t), Script(t)'
  PROVE  Scripts'
  <1>1. ASSUME NEW u \in Threads \ {t} PROVE Script(u)'
    <2> DEFINE held == IF at[u] = "closes" THEN refs[u] + 1 ELSE refs[u]
               stated == ~raced /\ stmt[u] # Null
    <2>1. Stage(todo[u], held, stated)
      BY DEF Scripts, Script
    <2>2. (~raced' /\ stmt'[u] # Null) \in BOOLEAN /\ stated \in BOOLEAN
          /\ (~raced' /\ stmt'[u] # Null => stated)
      BY DEF Others
    <2>3. todo'[u] = todo[u] /\ held = (IF at'[u] = "closes" THEN refs'[u] + 1 ELSE refs'[u])
      BY DEF Others
    <2> HIDE DEF held, stated
    <2>4. Stage(todo[u], held, ~raced' /\ stmt'[u] # Null)
      BY <2>1, <2>2, StageForgets
    <2>5. Stage(todo'[u], IF at'[u] = "closes" THEN refs'[u] + 1 ELSE refs'[u],
                ~raced' /\ stmt'[u] # Null)
      BY <2>3, <2>4
    <2> QED
      BY <2>5 DEF Script, Scripts, Others
  <1> QED
    BY <1>1 DEF Scripts

LEMMA ThrowsTyped ==
  ASSUME AllTyped, NEW t \in Threads, NEW why \in Fates, Throws(t, why), todo[t] # <<>>
  PROVE  todo' \in [Threads -> Seq(Ops)] /\ fate' \in Fates
  <1>1. [i \in 1 .. refs[t] |-> "release"] \in Seq(Ops)
    BY DEF AllTyped, Ops
  <1>2. <<"finalize">> \in Seq(Ops) /\ <<>> \in Seq(Ops)
    BY DEF Ops
  <1>3. (IF todo[t][2] = "step" THEN <<"finalize">> ELSE <<>>)
           \o [i \in 1 .. refs[t] |-> "release"] \in Seq(Ops)
    BY <1>1, <1>2, ConcatProperties
  <1>4. Tail(todo[t]) \in Seq(Ops)
    BY DEF AllTyped
  <1>5. Unwinds(t) \in Seq(Ops)
    BY <1>3, <1>4 DEF Unwinds
  <1>6. CASE todo' = [todo EXCEPT ![t] = Unwinds(t)] /\ UNCHANGED fate
    BY <1>5, <1>6 DEF AllTyped
  <1>7. CASE fate' = why /\ UNCHANGED todo
    BY <1>7 DEF AllTyped
  <1> QED
    BY <1>6, <1>7 DEF Throws

LEMMA FinishesTyped ==
  ASSUME AllTyped, NEW t \in Threads, todo[t] # <<>>, Finishes(t)
  PROVE  todo' \in [Threads -> Seq(Ops)]
  <1>1. Tail(todo[t]) \in Seq(Ops)
    BY DEF AllTyped
  <1> QED
    BY <1>1 DEF Finishes, AllTyped

LEMMA StorageTyped ==
  ASSUME Sound, NEW t \in Threads, Storage(t)
  PROVE  /\ fate = "runs" /\ AllTyped' /\ Others(t) /\ UNCHANGED main
  <1> USE DEF Sound, AllTyped
  <1>at. at \in [Threads -> Places]
    BY DEF Inv, Typed
  <1>m1. -1 \in -1 .. MaxCount /\ 0 \in -1 .. MaxCount
    BY ServerAssumption
  <1>1. CASE Calls(t)
    <2>1. \A script \in {StatementCall, ViewCall} : script \in Seq(Ops)
      BY Calling
    <2>2. PICK script \in {StatementCall, ViewCall}, catches \in BOOLEAN :
               /\ todo' = [todo EXCEPT ![t] = script] /\ tried' = [tried EXCEPT ![t] = catches]
               /\ calls' = [calls EXCEPT ![t] = IF catches THEN 0 ELSE @ - 1]
      BY <1>1 DEF Calls
    <2>3. (IF catches THEN 0 ELSE calls[t] - 1) \in 0 .. MaxCalls
      BY <1>1, ServerAssumption DEF Calls
    <2>4. /\ todo' \in [Threads -> Seq(Ops)] /\ tried' \in [Threads -> BOOLEAN]
          /\ calls' \in [Threads -> 0 .. MaxCalls]
          /\ \A u \in Threads \ {t} : todo'[u] = todo[u]
      BY <2>1, <2>2, <2>3
    <2> QED
      BY <1>1, <2>4, <1>at DEF Calls, Others, holder, histories
  <1>2. CASE Reads(t, "retain", "adds") \/ Reads(t, "release", "subs")
    BY <1>2, <1>at DEF Reads, Doing, Goes, Others, holder
  <1>3. CASE Adds(t) \/ Subs(t)
    BY <1>3, <1>at DEF Adds, Subs, Writes, Goes, Others, histories
  <1>run. CASE \/ Added(t) \/ Opens(t) \/ Subbed(t) \/ Closes(t)
               \/ Prepares(t) \/ Steps(t) \/ Finalizes(t)
    <2>1. fate = "runs"
      BY <1>run DEF Added, Opens, Subbed, Closes, Prepares, Steps, Finalizes, Doing
    <2>2. Script(t) /\ todo[t] # <<>>
      BY <1>run, <2>1
      DEF Running, Scripts, Script, Added, Opens, Subbed, Closes, Prepares, Steps, Finalizes, Doing
    <2>3. Finishes(t) => todo' \in [Threads -> Seq(Ops)]
      BY <2>2, FinishesTyped
    <2>4. CASE Added(t)
      <3>1. \/ Goes(t, "opens") /\ UNCHANGED <<todo, refs>>
            \/ Finishes(t) /\ refs' = [refs EXCEPT ![t] = @ + 1]
        BY <2>4 DEF Added
      <3>2. refs' \in [Threads -> Nat] /\ todo' \in [Threads -> Seq(Ops)]
            /\ \A u \in Threads \ {t} :
                 at'[u] = at[u] /\ todo'[u] = todo[u] /\ refs'[u] = refs[u]
        <4>1. CASE Goes(t, "opens") /\ UNCHANGED <<todo, refs>>
          BY <4>1, <1>at DEF Goes
        <4>2. CASE Finishes(t) /\ refs' = [refs EXCEPT ![t] = @ + 1]
          BY <4>2, <2>3, <1>at DEF Finishes, Goes
        <4> QED
          BY <3>1, <4>1, <4>2
      <3>3. reg' = [reg EXCEPT ![t] = 0]
            /\ UNCHANGED <<main, calls, tried, stmt, db, count, fate, raced, failed>>
        BY <2>4 DEF Added, holder, histories
      <3> QED
        BY <2>1, <3>2, <3>3, <1>m1 DEF Others
    <2>5. CASE Opens(t)
      <3>1. /\ reg' = reg /\ UNCHANGED <<main, calls, tried, stmt, raced, count>>
        BY <2>5 DEF Opens, KeepsReference
      <3>2. CASE /\ \E f \in Free : db' = f
                 /\ Finishes(t) /\ refs' = [refs EXCEPT ![t] = @ + 1]
                 /\ UNCHANGED <<fate, failed>>
        <4>1. db' \in Fds /\ refs' \in [Threads -> Nat]
          BY <3>2 DEF Free
        <4> QED
          BY <2>1, <2>3, <3>1, <3>2, <4>1, <1>at DEF Finishes, Goes, Others
      <3>3. CASE db' = Sick /\ failed' = TRUE /\ Throws(t, "shortage") /\ UNCHANGED refs
        <4>1. \A u \in Threads \ {t} : at'[u] = at[u] /\ todo'[u] = todo[u]
          BY <3>3, <1>at DEF Throws, Goes
        <4>2. todo' \in [Threads -> Seq(Ops)] /\ fate' \in Fates
          BY <2>2, <3>3, ThrowsTyped DEF Fates
        <4> QED
          BY <2>1, <3>1, <3>3, <4>1, <4>2 DEF Others
      <3> QED
        BY <2>5, <3>2, <3>3 DEF Opens
    <2>6. CASE Subbed(t)
      <3>1. refs[t] >= 1
        <4>1. Stage(todo[t], refs[t], ~raced /\ stmt[t] # Null) /\ Head(todo[t]) = "release"
          BY <2>2, <2>6 DEF Script, Subbed
        <4> QED
          BY <4>1, <2>2, StageGoesOn
      <3> QED
        <4>1. \/ Goes(t, "closes") /\ UNCHANGED todo
              \/ Finishes(t)
          BY <2>6 DEF Subbed
        <4>2. todo' \in [Threads -> Seq(Ops)]
              /\ \A u \in Threads \ {t} : at'[u] = at[u] /\ todo'[u] = todo[u]
          BY <4>1, <2>3, <1>at DEF Goes, Finishes
        <4>3. /\ refs' = [refs EXCEPT ![t] = @ - 1] /\ reg' = [reg EXCEPT ![t] = 0]
              /\ UNCHANGED <<main, calls, tried, stmt, db, count, fate, raced, failed>>
          BY <2>6 DEF Subbed, holder, histories
        <4>4. refs' \in [Threads -> Nat]
          BY <3>1, <4>3
        <4> QED
          BY <2>1, <4>2, <4>3, <4>4, <1>m1 DEF Others
    <2>7. CASE Closes(t)
      BY <2>1, <2>3, <2>7, <1>at DEF Closes, Goes, Finishes, Others, holder, histories, Fates
    <2>8. CASE Prepares(t)
      <3>1. /\ refs' = refs /\ reg' = reg /\ count' = count /\ db' = db
            /\ UNCHANGED <<main, calls, tried, raced, failed>>
        BY <2>8 DEF Prepares, holder, histories
      <3>2. \/ /\ IsOpen(db) /\ Finishes(t) /\ stmt' = [stmt EXCEPT ![t] = db]
               /\ UNCHANGED fate
            \/ (\E why \in Fates : Throws(t, why)) /\ UNCHANGED stmt
            \/ fate' = "wild" /\ UNCHANGED <<at, todo, stmt>>
        BY <2>8 DEF Prepares, Fates
      <3>3. CASE /\ IsOpen(db) /\ Finishes(t) /\ stmt' = [stmt EXCEPT ![t] = db]
                 /\ UNCHANGED fate
        <4>1. stmt' \in [Threads -> Fds \cup {Null}]
          BY <3>3, <1>at DEF IsOpen
        <4>2. \A u \in Threads \ {t} :
                 at'[u] = at[u] /\ todo'[u] = todo[u] /\ stmt'[u] = stmt[u]
          BY <3>3, <1>at DEF Finishes, Goes
        <4> QED
          BY <2>1, <2>3, <3>1, <3>3, <4>1, <4>2 DEF Others
      <3>4. ASSUME NEW why \in Fates, Throws(t, why), UNCHANGED stmt
            PROVE  AllTyped' /\ Others(t)
        <4>1. \A u \in Threads \ {t} : at'[u] = at[u] /\ todo'[u] = todo[u]
          BY <3>4, <1>at DEF Throws, Goes
        <4>2. todo' \in [Threads -> Seq(Ops)] /\ fate' \in Fates
          BY <2>2, <3>4, ThrowsTyped
        <4> QED
          BY <3>1, <3>4, <4>1, <4>2 DEF Others
      <3>5. CASE fate' = "wild" /\ UNCHANGED <<at, todo, stmt>>
        BY <2>1, <3>1, <3>5, <1>at DEF Others, Fates
      <3> QED
        BY <2>1, <3>1, <3>2, <3>3, <3>4, <3>5
    <2>9. CASE Steps(t)
      <3>1. /\ UNCHANGED <<main, calls, tried, reg, refs, stmt, db, count, raced, failed>>
            /\ (Finishes(t) /\ UNCHANGED fate) \/ Throws(t, "denied")
        BY <2>9 DEF Steps, holder, histories
      <3>2. /\ todo' \in [Threads -> Seq(Ops)] /\ fate' \in Fates
            /\ \A u \in Threads \ {t} : at'[u] = at[u] /\ todo'[u] = todo[u]
        <4>1. CASE Finishes(t) /\ UNCHANGED fate
          BY <4>1, <2>3, <1>at DEF Finishes, Goes
        <4>2. CASE Throws(t, "denied")
          <5>1. todo' \in [Threads -> Seq(Ops)] /\ fate' \in Fates
            BY <2>2, <4>2, ThrowsTyped DEF Fates
          <5>2. \A u \in Threads \ {t} : at'[u] = at[u] /\ todo'[u] = todo[u]
            BY <4>2, <1>at DEF Throws, Goes
          <5> QED
            BY <5>1, <5>2
        <4> QED
          BY <3>1, <4>1, <4>2
      <3> QED
        BY <2>1, <3>1, <3>2 DEF Others
    <2>10. CASE Finalizes(t)
      BY <2>1, <2>3, <2>10, <1>at DEF Finalizes, Goes, Finishes, Others, holder, histories
    <2> QED
      BY <1>run, <2>4, <2>5, <2>6, <2>7, <2>8, <2>9, <2>10
  <1> QED
    BY <1>1, <1>2, <1>3, <1>run DEF Storage

\* What a step of a thread in a storage call starts from.
LEMMA StorageStarts ==
  ASSUME Sound, NEW t \in Threads, Storage(t)
  PROVE  /\ Running /\ Script(t) /\ References' = RefsOf(refs') /\ References = RefsOf(refs)
         /\ main # "sync" /\ SyncFirst'
         /\ Cardinality(References) \in Nat
         /\ Cardinality(References) = 0 <=> References = {}
         /\ References = {} <=> \A u \in Threads : refs[u] = 0
  <1>1. fate = "runs" /\ UNCHANGED main
    BY StorageTyped
  <1>2. Running /\ Script(t)
    BY <1>1 DEF Sound, Running, Scripts
  <1>3. at[t] # "idle"
    BY DEF Storage, Calls, Reads, Doing, Adds, Subs, Writes, Added, Opens, Subbed, Closes, Prepares,
           Steps, Finalizes
  <1>4. main # "sync" /\ SyncFirst'
    BY <1>1, <1>2, <1>3 DEF Running, SyncFirst
  <1> QED
    BY <1>2, <1>4, TheseReferences, NoneLeft DEF Running, Sound, AllTyped

\* Steps outside of the sections that touch neither the count nor a statement.
Quiet ==
  /\ UNCHANGED <<refs, reg, stmt, count, db, failed>> /\ (raced => raced')
  /\ \A u \in Threads : at'[u] = at[u] \/ (~InSection(u) /\ ~InSection(u)')
  /\ \A f \in Fds : fds'[f] = "db" <=> fds[f] = "db"

LEMMA QuietKeepsOrder ==
  ASSUME Orderly, Quiet
  PROVE  Orderly'
  <1>1. References' = References
    BY TheseReferences DEF Quiet
  <1>2. Alone'
    BY DEF Orderly, Alone, Quiet, InSection
  <1>3. Counted'
    BY <1>1 DEF Orderly, Counted, Counts, Quiet, InSection
  <1>4. Opened'
    BY <1>1 DEF Orderly, Opened, Quiet, IsOpen, InSection
  <1> QED
    BY <1>2, <1>3, <1>4 DEF Orderly

LEMMA QuietKeeps ==
  ASSUME Running, Quiet, Scripts', SyncFirst'
  PROVE  Running'
  <1>1. References' = References
    BY TheseReferences DEF Quiet
  <1> QED
    BY <1>1, QuietKeepsOrder DEF Running, Quiet

\* A new call begins with nothing held.
LEMMA CallsKeeps ==
  ASSUME Sound, NEW t \in Threads, Calls(t)
  PROVE  Running'
  <1>1. Storage(t)
    BY DEF Storage
  <1>2. Others(t) /\ AllTyped' /\ Running /\ Script(t) /\ SyncFirst' /\ AllTyped
        /\ at \in [Threads -> Places]
    BY <1>1, StorageTyped, StorageStarts DEF Sound, Inv, Typed
  <1>3. /\ at[t] = "exec" /\ at'[t] = "exec"
        /\ UNCHANGED <<fds, reg, refs, stmt, db, count, raced, failed>>
    BY <1>2 DEF Calls, holder, histories
  <1>4. Quiet
    BY <1>2, <1>3 DEF Quiet, Others
  <1>5. refs[t] = 0 /\ ~(~raced /\ stmt[t] # Null)
    <2>1. Stage(<<>>, refs[t], ~raced /\ stmt[t] # Null)
          /\ (~raced /\ stmt[t] # Null) \in BOOLEAN
      BY <1>2, <1>3 DEF Script, Calls
    <2> QED
      BY <2>1, StageTyped
  <1>6. Stage(todo'[t], 0, FALSE)
    <2>1. todo'[t] \in {StatementCall, ViewCall}
      BY <1>2 DEF Calls, AllTyped
    <2> QED
      BY <2>1, StageStarts
  <1>7. Script(t)'
    BY <1>3, <1>5, <1>6 DEF Script
  <1> QED
    BY <1>2, <1>4, <1>7, OthersKeepScripts, QuietKeeps DEF Running

\* A step changes nothing of the connection; one that fails leaves the call where
\* one that does not leaves it, or ends the server.
LEMMA StepsKeeps ==
  ASSUME Sound, NEW t \in Threads, Steps(t)
  PROVE  (fate' = "runs" => Running') /\ fate' \in {"runs", "denied"} /\ UNCHANGED db
  <1>1. Storage(t)
    BY DEF Storage
  <1>2. Others(t) /\ AllTyped' /\ Running /\ Script(t) /\ SyncFirst' /\ AllTyped
        /\ at \in [Threads -> Places]
    BY <1>1, StorageTyped, StorageStarts DEF Sound, Inv, Typed
  <1>3. /\ at[t] = "exec" /\ fate = "runs" /\ todo[t] # <<>> /\ Head(todo[t]) = "step"
        /\ UNCHANGED <<fds, reg, refs, stmt, db, count, raced, failed>>
    BY DEF Steps, Doing, holder, histories
  <1>4. (Finishes(t) /\ UNCHANGED fate) \/ Throws(t, "denied")
    BY DEF Steps
  <1>5. fate' \in {"runs", "denied"}
    BY <1>3, <1>4 DEF Throws
  <1>6. ASSUME fate' = "runs" PROVE Running'
    <2>1. at' = [at EXCEPT ![t] = "exec"] /\ todo' = [todo EXCEPT ![t] = Tail(@)]
      <3>1. CASE Finishes(t)
        BY <3>1 DEF Finishes, Goes
      <3>2. CASE Throws(t, "denied")
        BY <1>3, <1>6, <3>2 DEF Throws, Unwinds, Goes
      <3> QED
        BY <1>4, <3>1, <3>2
    <2>2. at'[t] = "exec" /\ todo'[t] = Tail(todo[t])
      BY <2>1, <1>2 DEF AllTyped
    <2>3. Quiet
      BY <2>1, <1>2, <1>3 DEF Quiet
    <2>4. Stage(todo[t], refs[t], ~raced /\ stmt[t] # Null)
          /\ (~raced /\ stmt[t] # Null) \in BOOLEAN
      BY <1>2, <1>3 DEF Script
    <2>5. Stage(todo'[t], refs[t], ~raced /\ stmt[t] # Null)
      BY <1>3, <2>2, <2>4, StageGoesOn
    <2>6. Script(t)'
      BY <1>3, <2>2, <2>5 DEF Script
    <2> QED
      BY <1>2, <2>3, <2>6, OthersKeepScripts, QuietKeeps DEF Running
  <1> QED
    BY <1>3, <1>5, <1>6

\* Entering a section while another thread is in one is a race.
LEMMA ReadsKeeps ==
  ASSUME Sound, NEW t \in Threads, Reads(t, "retain", "adds") \/ Reads(t, "release", "subs")
  PROVE  Running'
  <1>1. Storage(t)
    BY DEF Storage
  <1>2. Others(t) /\ AllTyped' /\ Running /\ Script(t) /\ SyncFirst' /\ AllTyped
        /\ at \in [Threads -> Places]
    BY <1>1, StorageTyped, StorageStarts DEF Sound, Inv, Typed
  <1>3. /\ at[t] = "exec" /\ todo[t] # <<>>
        /\ \/ Head(todo[t]) = "retain" /\ at'[t] = "adds"
           \/ Head(todo[t]) = "release" /\ at'[t] = "subs"
        /\ reg'[t] = count /\ raced' = (raced \/ \E u \in Threads \ {t} : InSection(u))
        /\ UNCHANGED <<fds, todo, refs, stmt, db, count, failed>>
    BY <1>2 DEF Reads, Doing, Goes, holder, AllTyped
  <1>4. Script(t)'
    <2>1. Stage(todo[t], refs[t], ~raced /\ stmt[t] # Null)
      BY <1>2, <1>3 DEF Script
    <2>2. Stage(todo[t], refs[t], ~raced' /\ stmt'[t] # Null)
      BY <2>1, <1>2, <1>3, StageForgets DEF Others, AllTyped
    <2> QED
      BY <1>3, <2>2 DEF Script
  <1>5. References' = References
    BY <1>3, TheseReferences
  <1>6. ASSUME ~raced' PROVE Orderly'
    <2>1. ~raced /\ Orderly /\ \A u \in Threads : ~InSection(u)
      BY <1>6, <1>2, <1>3 DEF Running, InSection
    <2>2. \A u \in Threads \ {t} : at'[u] = at[u]
      BY <1>2 DEF Others
    <2>3. Alone'
      BY <2>1, <2>2 DEF Alone, InSection
    <2>4. Counted'
      BY <2>1, <2>2, <1>3, <1>5 DEF Orderly, Counted, Counts, InSection
    <2>5. Opened'
      BY <2>1, <2>2, <1>3, <1>5 DEF Orderly, Opened, IsOpen, InSection
    <2> QED
      BY <2>3, <2>4, <2>5 DEF Orderly
  <1> QED
    BY <1>2, <1>4, <1>5, <1>6, OthersKeepScripts DEF Running

\* What a step inside a section may use: no other thread is in one.
LEMMA InsideAlone ==
  ASSUME Alone, NEW t \in Threads, InSection(t), Others(t)
  PROVE  \A u \in Threads \ {t} : ~InSection(u) /\ at'[u] = at[u]
  BY DEF Alone, Others

\* The count goes ahead of the references, or behind them.
LEMMA WritesKeeps ==
  ASSUME Sound, NEW t \in Threads, Adds(t) \/ Subs(t)
  PROVE  Running'
  <1>1. Storage(t)
    BY DEF Storage
  <1>2. Others(t) /\ AllTyped' /\ Running /\ Script(t) /\ SyncFirst' /\ AllTyped
        /\ at \in [Threads -> Places] /\ Cardinality(References) \in Nat
    BY <1>1, StorageTyped, StorageStarts DEF Sound, Inv, Typed
  <1>3. /\ \/ at[t] = "adds" /\ at'[t] = "added" /\ count' = reg[t] + 1
           \/ at[t] = "subs" /\ at'[t] = "subbed" /\ count' = reg[t] - 1
        /\ UNCHANGED <<fds, todo, refs, stmt, db, reg, failed, raced>>
    BY <1>2 DEF Adds, Subs, Writes, Goes, histories
  <1>4. Script(t)'
    BY <1>2, <1>3 DEF Script
  <1>5. References' = References
    BY <1>3, TheseReferences
  <1>6. ASSUME ~raced' PROVE Orderly'
    <2>1. ~raced /\ Orderly /\ InSection(t)
      BY <1>6, <1>2, <1>3 DEF Running, InSection
    <2>2. \A u \in Threads \ {t} : ~InSection(u) /\ at'[u] = at[u]
      BY <2>1, <1>2, InsideAlone DEF Orderly
    <2>3. Alone'
      BY <2>2 DEF Alone, InSection
    <2>4. Counts(0) /\ reg[t] = count
      BY <2>1, <2>2, <1>3 DEF Orderly, Counted, InSection
    <2>5. Counted'
      <3>2. CASE at'[t] = "added"
        <4>1. Counts(1)' /\ reg'[t] + 1 = count'
          BY <2>4, <3>2, <1>2, <1>3, <1>5 DEF AllTyped, Counts
        <4> QED
          BY <2>2, <3>2, <4>1 DEF Counted, InSection
      <3>3. CASE at'[t] = "subbed"
        <4>1. Counts(-1)' /\ reg'[t] - 1 = count'
          BY <2>4, <3>3, <1>2, <1>3, <1>5 DEF AllTyped, Counts
        <4> QED
          BY <2>2, <3>3, <4>1 DEF Counted, InSection
      <3> QED
        BY <3>2, <3>3, <1>3
    <2>6. Opened'
      BY <2>1, <2>2, <1>3, <1>5 DEF Orderly, Opened, IsOpen, InSection
    <2> QED
      BY <2>3, <2>5, <2>6 DEF Orderly
  <1> QED
    BY <1>2, <1>4, <1>5, <1>6, OthersKeepScripts DEF Running

\* Unless this is the first reference, retain is over and the reference held.
LEMMA AddedKeeps ==
  ASSUME Sound, NEW t \in Threads, Added(t)
  PROVE  Running'
  <1>1. Storage(t)
    BY DEF Storage
  <1>2. Others(t) /\ AllTyped' /\ Running /\ Script(t) /\ SyncFirst' /\ AllTyped
        /\ at \in [Threads -> Places] /\ Cardinality(References) \in Nat
        /\ References = RefsOf(refs) /\ References' = RefsOf(refs')
    BY <1>1, StorageTyped, StorageStarts DEF Sound, Inv, Typed
  <1>3. /\ at[t] = "added" /\ reg'[t] = 0
        /\ UNCHANGED <<fds, stmt, db, count, failed, raced>>
    BY <1>2 DEF Added, holder, histories, AllTyped
  <1>4. /\ Stage(todo[t], refs[t], ~raced /\ stmt[t] # Null)
        /\ todo[t] # <<>> /\ Head(todo[t]) = "retain"
        /\ (~raced /\ stmt[t] # Null) \in BOOLEAN
    BY <1>2, <1>3 DEF Script
  <1>5. CASE at'[t] = "opens" /\ UNCHANGED <<todo, refs>> /\ (reg[t] + 1 = 1 \/ count = 1)
    <2>1. Script(t)' /\ References' = References
      BY <1>2, <1>3, <1>4, <1>5 DEF Script
    <2>2. ASSUME ~raced' PROVE Orderly'
      <3>1. ~raced /\ Orderly /\ InSection(t)
        BY <2>2, <1>2, <1>3 DEF Running, InSection
      <3>2. \A u \in Threads \ {t} : ~InSection(u) /\ at'[u] = at[u]
        BY <3>1, <1>2, InsideAlone DEF Orderly
      <3>3. Alone'
        BY <3>2 DEF Alone, InSection
      <3>4. Counts(1) /\ count = 1
        BY <3>1, <1>3, <1>5 DEF Orderly, Counted
      <3>5. Counted'
        BY <3>2, <3>4, <1>3, <1>5, <2>1 DEF Counted, Counts, InSection
      <3>6. Opened'
        BY <3>1, <3>2, <1>3, <1>5, <2>1 DEF Orderly, Opened, IsOpen, InSection
      <3> QED
        BY <3>3, <3>5, <3>6 DEF Orderly
    <2> QED
      BY <1>2, <2>1, <2>2, OthersKeepScripts DEF Running
  <1>6. CASE /\ at'[t] = "exec" /\ todo'[t] = Tail(todo[t]) /\ refs' = [refs EXCEPT ![t] = @ + 1]
             /\ reg[t] + 1 # 1 \/ count # 1
    <2>1. Script(t)'
      <3> DEFINE stated == ~raced /\ stmt[t] # Null
      <3> HIDE DEF stated
      <3>1. Stage(Tail(todo[t]), refs[t] + 1, stated)
        BY <1>4, StageGoesOn DEF stated
      <3>2. refs'[t] = refs[t] + 1 /\ stated = (~raced' /\ stmt'[t] # Null)
        BY <1>2, <1>3, <1>6 DEF AllTyped, stated
      <3> QED
        BY <3>1, <3>2, <1>6 DEF Script
    <2>2. IsFiniteSet(References') /\ References' # {}
          /\ Cardinality(References') = Cardinality(References) + 1
      BY <1>2, <1>6, OneMore DEF Running, AllTyped
    <2>3. ASSUME ~raced' PROVE Orderly'
      <3>1. ~raced /\ Orderly /\ InSection(t)
        BY <2>3, <1>2, <1>3 DEF Running, InSection
      <3>2. \A u \in Threads \ {t} : ~InSection(u) /\ at'[u] = at[u]
        BY <3>1, <1>2, InsideAlone DEF Orderly
      <3>3. Alone'
        BY <3>2, <1>6 DEF Alone, InSection
      <3>4. Counts(1) /\ count # 1
        BY <3>1, <1>3, <1>6 DEF Orderly, Counted
      <3>5. Counted'
        <4>1. Counts(0)'
          BY <3>4, <1>2, <1>3, <2>2 DEF Counts
        <4> QED
          BY <3>2, <4>1, <1>6 DEF Counted, InSection
      <3>6. Opened'
        <4>1. ASSUME ~failed
              PROVE  References # {}
          BY <3>4, <4>1, <1>2, FS_EmptySet DEF Counts
        <4>2. ASSUME ~failed, NEW u \in Threads, stmt[u] # Null
              PROVE  stmt[u] = db /\ refs'[u] > 0
          <5>1. stmt[u] = db /\ refs[u] > 0
            BY <3>1, <4>2 DEF Orderly, Opened
          <5> QED
            BY <5>1, <1>2, <1>6 DEF AllTyped
        <4> QED
          BY <3>1, <3>2, <4>1, <4>2, <1>3, <1>6, <2>2 DEF Orderly, Opened, IsOpen, InSection
      <3> QED
        BY <3>3, <3>5, <3>6 DEF Orderly
    <2> QED
      BY <1>2, <2>1, <2>2, <2>3, OthersKeepScripts DEF Running
  <1>7. \/ at'[t] = "opens" /\ UNCHANGED <<todo, refs>> /\ (reg[t] + 1 = 1 \/ count = 1)
        \/ /\ at'[t] = "exec" /\ todo'[t] = Tail(todo[t]) /\ refs' = [refs EXCEPT ![t] = @ + 1]
           /\ reg[t] + 1 # 1 \/ count # 1
    BY <1>2 DEF Added, Seen, OpensAt, Finishes, Goes, AllTyped
  <1> QED
    BY <1>5, <1>6, <1>7

\* The storage threw in a try block: the call is left, its references are not.
LEMMA ThrowsScript ==
  ASSUME AllTyped, at \in [Threads -> Places], NEW t \in Threads, NEW why, Throws(t, why), tried[t],
         Stage(todo[t], refs[t], FALSE), todo[t] # <<>>, Head(todo[t]) \in {"retain", "prepare"}
  PROVE  at'[t] = "exec" /\ Stage(todo'[t], refs[t], FALSE) /\ UNCHANGED fate
  <1> DEFINE left == (IF todo[t][2] = "step" THEN <<"finalize">> ELSE <<>>)
                        \o [i \in 1 .. refs[t] |-> "release"]
  <1>1. Stage(left, refs[t], FALSE)
    BY StageThrows
  <1> HIDE DEF left
  <1>2. at' = [at EXCEPT ![t] = "exec"] /\ todo' = [todo EXCEPT ![t] = left] /\ UNCHANGED fate
    BY DEF Throws, Unwinds, Goes, left
  <1> QED
    BY <1>1, <1>2 DEF AllTyped

\* The first reference opens a database that nobody has open; when that fails, the
\* count keeps a reference that nobody has.
LEMMA OpensKeeps ==
  ASSUME Sound, NEW t \in Threads, Opens(t)
  PROVE  /\ fate' = "runs" => Running'
         /\ fate' \in {"runs", "shortage"}
         /\ ~raced => ~failed
  <1>1. Storage(t)
    BY DEF Storage
  <1>2. Others(t) /\ AllTyped' /\ Running /\ Script(t) /\ SyncFirst' /\ AllTyped
        /\ at \in [Threads -> Places] /\ fds \in [Fds -> {"free", "socket", "db"}]
        /\ Cardinality(References) \in Nat
        /\ References = RefsOf(refs) /\ References' = RefsOf(refs')
        /\ (Cardinality(References) = 0 <=> References = {})
        /\ (References = {} <=> \A u \in Threads : refs[u] = 0)
    BY <1>1, StorageTyped, StorageStarts DEF Sound, Inv, Typed
  <1>3. at[t] = "opens" /\ fate = "runs" /\ UNCHANGED <<stmt, reg, count, raced>>
    BY DEF Opens, KeepsReference
  <1>4. /\ Stage(todo[t], refs[t], ~raced /\ stmt[t] # Null)
        /\ todo[t] # <<>> /\ Head(todo[t]) = "retain"
        /\ (~raced /\ stmt[t] # Null) \in BOOLEAN
    BY <1>2, <1>3 DEF Script
  <1>5. ASSUME ~raced
        PROVE  /\ Alone /\ ~failed /\ count = 1 /\ References = {}
               /\ \A u \in Threads : stmt[u] = Null
               /\ \A u \in Threads \ {t} : ~InSection(u) /\ at'[u] = at[u]
               /\ \A f \in Fds : fds[f] # "db"
    <2>1. Orderly /\ InSection(t)
      BY <1>5, <1>2, <1>3 DEF Running, InSection
    <2>2. \A u \in Threads \ {t} : ~InSection(u) /\ at'[u] = at[u]
      BY <2>1, <1>2, InsideAlone DEF Orderly
    <2>3. Counts(1) /\ count = 1
      BY <2>1, <1>3 DEF Orderly, Counted
    <2>4. ~failed /\ References = {}
      <3>1. ~failed /\ Cardinality(References) = 0
        BY <2>3, <1>2 DEF Counts
      <3> QED
        BY <3>1, <1>2
    <2>5. \A u \in Threads : stmt[u] = Null
      BY <2>1, <2>4, <1>2 DEF Orderly, Opened
    <2>6. \A f \in Fds : fds[f] # "db"
      BY <2>1, <2>2, <2>4, <1>3 DEF Orderly, Opened, IsOpen, InSection
    <2> QED
      BY <2>1, <2>2, <2>3, <2>4, <2>5, <2>6 DEF Orderly
  <1>6. ASSUME NEW f \in Free, fds' = Open(f, "db"), db' = f, Finishes(t),
               refs' = [refs EXCEPT ![t] = @ + 1], UNCHANGED <<fate, failed>>
        PROVE  Running'
    <2>1. at'[t] = "exec" /\ todo'[t] = Tail(todo[t])
      BY <1>2, <1>6 DEF Finishes, Goes, AllTyped
    <2>2. Script(t)'
      <3> DEFINE stated == ~raced /\ stmt[t] # Null
      <3> HIDE DEF stated
      <3>1. Stage(Tail(todo[t]), refs[t] + 1, stated)
        BY <1>4, StageGoesOn DEF stated
      <3>2. refs'[t] = refs[t] + 1 /\ stated = (~raced' /\ stmt'[t] # Null)
        BY <1>2, <1>3, <1>6 DEF AllTyped, stated
      <3> QED
        BY <3>1, <3>2, <2>1 DEF Script
    <2>3. IsFiniteSet(References') /\ References' # {}
          /\ Cardinality(References') = Cardinality(References) + 1
      BY <1>2, <1>6, OneMore DEF Running, AllTyped
    <2>4. f \in Fds /\ fds'[f] = "db" /\ \A g \in Fds \ {f} : fds'[g] = fds[g]
      BY <1>2, <1>6 DEF Free, Open
    <2>5. ASSUME ~raced' PROVE Orderly'
      <3>1. Alone'
        BY <2>5, <1>3, <1>5, <2>1 DEF Alone, InSection
      <3>2. Counted'
        <4>1. Counts(0)'
          BY <2>5, <1>2, <1>3, <1>5, <1>6, <2>3 DEF Counts
        <4> QED
          BY <2>5, <4>1, <1>3, <1>5, <2>1 DEF Counted, InSection
      <3>3. Opened'
        BY <2>5, <1>3, <1>5, <1>6, <2>1, <2>3, <2>4 DEF Opened, IsOpen, InSection
      <3> QED
        BY <3>1, <3>2, <3>3 DEF Orderly
    <2> QED
      BY <1>2, <2>2, <2>3, <2>5, OthersKeepScripts DEF Running
  <1>7. ASSUME failed' = TRUE, db' = Sick, Throws(t, "shortage"), UNCHANGED <<fds, refs>>, fate' = "runs"
        PROVE  Running'
    <2>1. tried[t]
      BY <1>3, <1>7 DEF Throws
    <2>2. Stage(todo[t], refs[t], FALSE)
      BY <1>4, StageForgets
    <2>3. at'[t] = "exec" /\ Stage(todo'[t], refs[t], FALSE)
      BY <1>2, <1>4, <1>7, <2>1, <2>2, ThrowsScript
    <2>4. ~raced' => stmt'[t] = Null
      BY <1>3, <1>5
    <2>5. Script(t)'
      BY <2>3, <2>4, <1>7 DEF Script
    <2>6. References' = References
      BY <1>2, <1>7
    <2>7. ASSUME ~raced' PROVE Orderly'
      <3>1. Alone'
        BY <2>7, <1>3, <1>5, <2>3 DEF Alone, InSection
      <3>2. Counted'
        <4>1. Counts(0)'
          BY <2>6, <2>7, <1>2, <1>3, <1>5, <1>7 DEF Counts
        <4> QED
          BY <2>7, <4>1, <1>3, <1>5, <2>3 DEF Counted, InSection
      <3>3. Opened'
        BY <1>7 DEF Opened
      <3> QED
        BY <3>1, <3>2, <3>3 DEF Orderly
    <2> QED
      BY <1>2, <2>5, <2>6, <2>7, OthersKeepScripts DEF Running
  <1>8. /\ fate' = "runs" => Running'
        /\ fate' \in {"runs", "shortage"}
    BY <1>3, <1>6, <1>7 DEF Opens, Throws
  <1> QED
    BY <1>5, <1>8

\* The reference is given back; a statement that is left keeps another one.
LEMMA SubbedKeeps ==
  ASSUME Sound, NEW t \in Threads, Subbed(t)
  PROVE  Running'
  <1>1. Storage(t)
    BY DEF Storage
  <1>2. /\ Others(t) /\ AllTyped' /\ Running /\ Script(t) /\ SyncFirst' /\ AllTyped
        /\ at \in [Threads -> Places] /\ Cardinality(References) \in Nat
        /\ References = RefsOf(refs) /\ References' = RefsOf(refs')
    BY <1>1, StorageTyped, StorageStarts DEF Sound, Inv, Typed
  <1>3. /\ at[t] = "subbed" /\ reg'[t] = 0 /\ refs' = [refs EXCEPT ![t] = @ - 1]
        /\ UNCHANGED <<fds, stmt, db, count, failed, raced>>
    BY <1>2 DEF Subbed, holder, histories, AllTyped
  <1> DEFINE stated == ~raced /\ stmt[t] # Null
  <1> HIDE DEF stated
  <1>4. /\ Stage(todo[t], refs[t], stated) /\ todo[t] # <<>> /\ Head(todo[t]) = "release"
        /\ stated \in BOOLEAN /\ stated' = stated
    BY <1>2, <1>3 DEF Script, stated
  <1>5. /\ refs[t] >= 1 /\ (stated => refs[t] >= 2) /\ Stage(Tail(todo[t]), refs[t] - 1, stated)
        /\ refs'[t] = refs[t] - 1 /\ refs[t] \in Nat
        /\ \A u \in Threads \ {t} : refs'[u] = refs[u]
    <2>1. refs[t] >= 1 /\ (stated => refs[t] >= 2) /\ Stage(Tail(todo[t]), refs[t] - 1, stated)
      BY <1>4, StageGoesOn
    <2> QED
      BY <2>1, <1>2, <1>3 DEF AllTyped
  <1>6. \/ at'[t] = "closes" /\ todo' = todo /\ (reg[t] - 1 = 0 \/ count = 0)
        \/ at'[t] = "exec" /\ todo'[t] = Tail(todo[t]) /\ (reg[t] - 1 # 0 \/ count # 0)
    BY <1>2 DEF Subbed, Seen, Finishes, Goes, AllTyped
  <1>7. Script(t)'
    <2>1. CASE at'[t] = "closes" /\ todo' = todo
      <3>1. Stage(todo'[t], refs'[t] + 1, stated)
        BY <1>4, <1>5, <2>1
      <3>2. stated = (~raced' /\ stmt'[t] # Null)
        BY <1>3 DEF stated
      <3> QED
        BY <1>4, <2>1, <3>1, <3>2 DEF Script
    <2>2. CASE at'[t] = "exec" /\ todo'[t] = Tail(todo[t])
      <3>1. Stage(todo'[t], refs'[t], stated)
        BY <1>5, <2>2
      <3>2. stated = (~raced' /\ stmt'[t] # Null)
        BY <1>3 DEF stated
      <3> QED
        BY <2>2, <3>1, <3>2 DEF Script
    <2> QED
      BY <1>6, <2>1, <2>2
  <1>8. /\ IsFiniteSet(References') /\ References # {}
        /\ Cardinality(References') = Cardinality(References) - 1
        /\ Cardinality(References') = 0 <=> References' = {}
    BY <1>2, <1>3, <1>5, OneLess, NoneLeft DEF Running, AllTyped
  <1>9. ASSUME ~raced' PROVE Orderly'
    <2>1. ~raced /\ Orderly /\ InSection(t)
      BY <1>9, <1>2, <1>3 DEF Running, InSection
    <2>2. \A u \in Threads \ {t} : ~InSection(u) /\ at'[u] = at[u]
      BY <2>1, <1>2, InsideAlone DEF Orderly
    <2>3. Alone'
      BY <2>2 DEF Alone, InSection
    <2>4. Counts(-1) /\ reg[t] - 1 = count
      BY <2>1, <1>3 DEF Orderly, Counted
    <2>5. Counts(0)'
      BY <2>4, <1>2, <1>3, <1>8 DEF Counts
    <2>6. Counted'
      BY <2>2, <2>4, <2>5, <1>3, <1>6 DEF Counted, InSection
    <2>7. Opened'
      <3>1. ASSUME ~failed, NEW u \in Threads, stmt[u] # Null
            PROVE  stmt[u] = db /\ refs'[u] > 0
        <4>1. stmt[u] = db /\ refs[u] > 0
          BY <2>1, <3>1 DEF Orderly, Opened
        <4>2. u = t => refs[t] >= 2
          BY <2>1, <3>1, <1>5 DEF stated
        <4> QED
          BY <4>1, <4>2, <1>5
      <3>2. ASSUME ~failed
            PROVE  References' # {} \/ at'[t] = "closes"
        <4>1. CASE at'[t] = "exec" /\ count # 0
          <5>1. Cardinality(References') # 0
            BY <2>5, <3>2, <4>1, <1>3 DEF Counts
          <5> QED
            BY <5>1, <1>8
        <4> QED
          BY <1>6, <2>4, <4>1
      <3>3. ~failed => IsOpen(db) /\ IsOpen(db)'
        BY <2>1, <1>3, <1>8 DEF Orderly, Opened, IsOpen
      <3> QED
        BY <2>1, <3>1, <3>2, <3>3, <1>3 DEF Orderly, Opened
    <2> QED
      BY <2>3, <2>6, <2>7 DEF Orderly
  <1> QED
    BY <1>2, <1>7, <1>8, <1>9, OthersKeepScripts DEF Running

\* The last release closes an open database that no statement is of.
LEMMA ClosesKeeps ==
  ASSUME Sound, NEW t \in Threads, Closes(t)
  PROVE  /\ fate' = "runs" => Running'
         /\ fate' # "runs" => raced'
         /\ ~raced => ~failed
  <1>1. Storage(t)
    BY DEF Storage
  <1>2. /\ Others(t) /\ AllTyped' /\ Running /\ Script(t) /\ SyncFirst' /\ AllTyped
        /\ at \in [Threads -> Places] /\ fds \in [Fds -> {"free", "socket", "db"}]
        /\ Cardinality(References) \in Nat
        /\ References = RefsOf(refs) /\ References' = RefsOf(refs')
        /\ (Cardinality(References) = 0 <=> References = {})
        /\ (References = {} <=> \A u \in Threads : refs[u] = 0)
    BY <1>1, StorageTyped, StorageStarts DEF Sound, Inv, Typed
  <1>3. at[t] = "closes" /\ fate = "runs" /\ UNCHANGED <<refs, stmt, reg, count, raced, failed>>
    BY DEF Closes, histories
  <1> DEFINE stated == ~raced /\ stmt[t] # Null
  <1> HIDE DEF stated
  <1>4. /\ Stage(todo[t], refs[t] + 1, stated) /\ todo[t] # <<>> /\ Head(todo[t]) = "release"
        /\ stated \in BOOLEAN /\ stated' = stated
    BY <1>2, <1>3 DEF Script, stated
  <1>5. ASSUME ~raced
        PROVE  /\ Alone /\ ~failed /\ count = 0 /\ References = {} /\ Opened
               /\ \A u \in Threads : stmt[u] = Null
               /\ \A u \in Threads \ {t} : ~InSection(u) /\ at'[u] = at[u]
               /\ IsOpen(db)
    <2>1. Orderly /\ InSection(t)
      BY <1>5, <1>2, <1>3 DEF Running, InSection
    <2>2. \A u \in Threads \ {t} : ~InSection(u) /\ at'[u] = at[u]
      BY <2>1, <1>2, InsideAlone DEF Orderly
    <2>3. Counts(0) /\ count = 0
      BY <2>1, <2>2, <1>3 DEF Orderly, Counted, InSection
    <2>4. ~failed /\ References = {}
      <3>1. ~failed /\ Cardinality(References) = 0
        BY <2>3, <1>2 DEF Counts
      <3> QED
        BY <3>1, <1>2
    <2>5. \A u \in Threads : stmt[u] = Null
      BY <2>1, <2>4, <1>2 DEF Orderly, Opened
    <2>6. IsOpen(db)
      BY <2>1, <2>4, <1>3 DEF Orderly, Opened
    <2> QED
      BY <2>1, <2>2, <2>3, <2>4, <2>5, <2>6 DEF Orderly
  <1>6. ASSUME fate' = "runs" PROVE Running'
    <2>1. Finishes(t)
      BY <1>3, <1>6 DEF Closes
    <2>2. at'[t] = "exec" /\ todo'[t] = Tail(todo[t])
      BY <2>1, <1>2 DEF Finishes, Goes, AllTyped
    <2>3. Script(t)'
      <3> DEFINE held == refs[t] + 1
      <3>0. Stage(todo[t], held, stated)
        BY <1>4
      <3>2. refs'[t] = held - 1 /\ stated = (~raced' /\ stmt'[t] # Null)
        BY <1>2, <1>3 DEF AllTyped, stated
      <3> HIDE DEF held
      <3>1. Stage(Tail(todo[t]), held - 1, stated)
        BY <1>4, <3>0, StageGoesOn
      <3> QED
        BY <2>2, <3>1, <3>2 DEF Script
    <2>4. References' = References
      BY <1>2, <1>3
    <2>5. ASSUME ~raced' PROVE Orderly'
      <3>1. Alone'
        BY <2>5, <1>3, <1>5, <2>2 DEF Alone, InSection
      <3>2. Counted'
        <4>1. Counts(0)'
          BY <2>4, <2>5, <1>2, <1>3, <1>5 DEF Counts
        <4> QED
          BY <2>5, <4>1, <1>3, <1>5, <2>2 DEF Counted, InSection
      <3>3. Opened'
        <4>1. db # Null /\ db # Sick
          BY <2>5, <1>3, <1>5, ServerAssumption DEF IsOpen
        <4>2. fds' = OsClose(db) /\ db' = db
          BY <1>3, <1>5, <1>6, <2>5, <4>1 DEF Closes
        <4>3. \A f \in Fds : fds'[f] # "db"
          BY <2>5, <4>2, <1>2, <1>3, <1>5 DEF OsClose, Opened
        <4> QED
          BY <2>4, <2>5, <4>3, <1>3, <1>5, <2>2 DEF Opened, IsOpen, InSection
      <3> QED
        BY <3>1, <3>2, <3>3 DEF Orderly
    <2> QED
      BY <1>2, <2>3, <2>4, <2>5, OthersKeepScripts DEF Running
  <1>7. fate' # "runs" => raced'
    <2>1. ASSUME ~raced PROVE UNCHANGED fate
      <3>1. db # Null /\ db # Sick /\ \A u \in Threads : stmt[u] # db
        BY <2>1, <1>5, ServerAssumption DEF IsOpen
      <3> QED
        BY <3>1, <2>1, <1>5 DEF Closes
    <2> QED
      BY <2>1, <1>3
  <1> QED
    BY <1>5, <1>6, <1>7

\* A prepare comes with a reference, so that the database is open for it, or its
\* open has failed: the handle is sick.
LEMMA PreparesKeeps ==
  ASSUME Sound, NEW t \in Threads, Prepares(t)
  PROVE  /\ fate' = "runs" => Running'
         /\ HarmOnlyByRace'
  <1>1. Storage(t)
    BY DEF Storage
  <1>2. /\ Others(t) /\ AllTyped' /\ Running /\ Script(t) /\ SyncFirst' /\ AllTyped
        /\ at \in [Threads -> Places] /\ fds \in [Fds -> {"free", "socket", "db"}]
        /\ References = RefsOf(refs) /\ References' = RefsOf(refs')
        /\ (References = {} <=> \A u \in Threads : refs[u] = 0)
    BY <1>1, StorageTyped, StorageStarts DEF Sound, Inv, Typed
  <1>3. /\ at[t] = "exec" /\ fate = "runs" /\ todo[t] # <<>> /\ Head(todo[t]) = "prepare"
        /\ UNCHANGED <<fds, refs, reg, db, count, raced, failed>>
    BY DEF Prepares, Doing, holder, histories
  <1>4. /\ Stage(todo[t], refs[t], ~raced /\ stmt[t] # Null)
        /\ (~raced /\ stmt[t] # Null) \in BOOLEAN
    BY <1>2, <1>3 DEF Script
  <1>5. /\ refs[t] >= 1 /\ ~(~raced /\ stmt[t] # Null)
        /\ Stage(Tail(todo[t]), refs[t], TRUE) /\ Stage(Tail(todo[t]), refs[t], FALSE)
        /\ Stage(todo[t], refs[t], FALSE)
    <2>1. refs[t] >= 1 /\ ~(~raced /\ stmt[t] # Null) /\ Stage(Tail(todo[t]), refs[t], TRUE)
      BY <1>3, <1>4, StageGoesOn
    <2>2. Stage(Tail(todo[t]), refs[t], FALSE) /\ Stage(todo[t], refs[t], FALSE)
      BY <1>4, <2>1, StageForgets
    <2> QED
      BY <2>1, <2>2
  <1>6. References' = References /\ References # {}
    BY <1>2, <1>3, <1>5
  <1>7. ~raced => IsOpen(db) \/ (failed /\ db = Sick)
    BY <1>2, <1>6 DEF Running, Orderly, Opened
  <1>8. HarmOnlyByRace'
    <2>1. fate' = "wild" => raced
      BY <1>3, <1>7 DEF Prepares, Throws
    <2>2. fate' = "unopened" => raced \/ failed
      <3>1. ASSUME IsOpen(db) PROVE fate' # "unopened"
        <4>1. db \notin {Null, Sick}
          BY <3>1, ServerAssumption DEF IsOpen
        <4> QED
          BY <3>1, <4>1, <1>3 DEF Prepares, Throws
      <3> QED
        BY <3>1, <1>7
    <2>3. fate' # "unclosable"
      BY <1>3 DEF Prepares, Throws
    <2> QED
      BY <2>1, <2>2, <2>3, <1>3 DEF HarmOnlyByRace
  <1>9. ASSUME fate' = "runs" PROVE Running'
    <2>1. at'[t] = "exec" /\ (stmt'[t] = stmt[t] \/ (IsOpen(db) /\ stmt'[t] = db))
          /\ Stage(todo'[t], refs[t], stmt'[t] # stmt[t])
      <3>1. CASE IsOpen(db) /\ Finishes(t) /\ stmt' = [stmt EXCEPT ![t] = db]
        <4>1. at'[t] = "exec" /\ todo'[t] = Tail(todo[t]) /\ stmt'[t] = db
          BY <3>1, <1>2 DEF Finishes, Goes, AllTyped
        <4>2. CASE stmt'[t] # stmt[t]
          BY <3>1, <4>1, <4>2, <1>5
        <4>3. CASE stmt'[t] = stmt[t]
          BY <3>1, <4>1, <4>3, <1>5
        <4> QED
          BY <4>2, <4>3
      <3>2. ASSUME NEW why \in Fates \ {"runs"}, Throws(t, why), UNCHANGED stmt
            PROVE  /\ at'[t] = "exec" /\ stmt'[t] = stmt[t]
                   /\ Stage(todo'[t], refs[t], stmt'[t] # stmt[t])
        <4>1. tried[t]
          BY <3>2, <1>9 DEF Throws
        <4>2. at'[t] = "exec" /\ Stage(todo'[t], refs[t], FALSE)
          BY <3>2, <4>1, <1>2, <1>3, <1>5, ThrowsScript
        <4> QED
          BY <3>2, <4>2
      <3>3. \/ IsOpen(db) /\ Finishes(t) /\ stmt' = [stmt EXCEPT ![t] = db]
            \/ \E why \in Fates \ {"runs"} : Throws(t, why) /\ UNCHANGED stmt
        BY <1>3, <1>9 DEF Prepares, Fates
      <3> QED
        BY <3>1, <3>2, <3>3
    <2>2. Script(t)'
      <3>1. (~raced' /\ stmt'[t] # Null) => stmt'[t] # stmt[t]
        BY <1>3, <1>5
      <3>2. Stage(todo'[t], refs[t], ~raced' /\ stmt'[t] # Null)
        BY <2>1, <3>1, StageForgets
      <3> QED
        BY <2>1, <3>2, <1>3 DEF Script
    <2>3. ASSUME ~raced' PROVE Orderly'
      <3>1. ~raced /\ Orderly /\ \A u \in Threads : at'[u] = at[u]
        BY <2>1, <2>3, <1>2, <1>3 DEF Running, Others
      <3>2. Alone'
        BY <3>1 DEF Orderly, Alone, InSection
      <3>3. Counted'
        BY <3>1, <1>3, <1>6 DEF Orderly, Counted, Counts
      <3>4. Opened'
        <4>1. ASSUME ~failed, NEW u \in Threads, stmt'[u] # Null
              PROVE  stmt'[u] = db /\ refs[u] > 0
          <5>1. CASE u = t
            BY <4>1, <5>1, <2>1, <3>1, <1>2, <1>5 DEF AllTyped
          <5>2. CASE u # t
            BY <4>1, <5>2, <3>1, <1>2 DEF Others, Orderly, Opened
          <5> QED
            BY <5>1, <5>2
        <4> QED
          BY <3>1, <4>1, <1>3, <1>6 DEF Orderly, Opened, IsOpen
      <3> QED
        BY <3>2, <3>3, <3>4 DEF Orderly
    <2> QED
      BY <1>2, <1>6, <2>2, <2>3, OthersKeepScripts DEF Running
  <1> QED
    BY <1>8, <1>9

LEMMA FinalizesKeeps ==
  ASSUME Sound, NEW t \in Threads, Finalizes(t)
  PROVE  Running'
  <1>1. Storage(t)
    BY DEF Storage
  <1>2. /\ Others(t) /\ AllTyped' /\ Running /\ Script(t) /\ SyncFirst' /\ AllTyped
        /\ at \in [Threads -> Places] /\ References = RefsOf(refs) /\ References' = RefsOf(refs')
    BY <1>1, StorageTyped, StorageStarts DEF Sound, Inv, Typed
  <1>3. /\ at[t] = "exec" /\ at'[t] = "exec" /\ todo[t] # <<>> /\ Head(todo[t]) = "finalize"
        /\ todo'[t] = Tail(todo[t]) /\ stmt'[t] = Null
        /\ UNCHANGED <<fds, refs, reg, db, count, raced, failed>>
    BY <1>2 DEF Finalizes, Doing, Finishes, Goes, holder, histories, AllTyped
  <1>4. Stage(todo[t], refs[t], ~raced /\ stmt[t] # Null) /\ (~raced /\ stmt[t] # Null) \in BOOLEAN
    BY <1>2, <1>3 DEF Script
  <1>5. Stage(todo'[t], refs[t], FALSE)
    BY <1>3, <1>4, StageGoesOn
  <1>6. Script(t)'
    BY <1>3, <1>5 DEF Script
  <1>7. References' = References
    BY <1>2, <1>3
  <1>8. ASSUME ~raced' PROVE Orderly'
    <2>1. ~raced /\ Orderly /\ \A u \in Threads : at'[u] = at[u]
      BY <1>2, <1>3, <1>8 DEF Running, Others
    <2>2. Alone'
      BY <2>1 DEF Orderly, Alone, InSection
    <2>3. Counted'
      BY <2>1, <1>3, <1>7 DEF Orderly, Counted, Counts
    <2>4. Opened'
      BY <2>1, <1>2, <1>3, <1>7 DEF Orderly, Opened, IsOpen, Others
    <2> QED
      BY <2>2, <2>3, <2>4 DEF Orderly
  <1> QED
    BY <1>2, <1>6, <1>7, <1>8, OthersKeepScripts DEF Running

-----------------------------------------------------------------------------
(* The whole server *)

LEMMA InitSound == Init => Sound
  <1> SUFFICES ASSUME Init PROVE Sound
    OBVIOUS
  <1>1. AllTyped
    <2>1. 0 \in -1 .. MaxCount /\ 0 \in 0 .. MaxCalls /\ <<>> \in Seq(Ops)
      BY ServerAssumption
    <2> QED
      BY <2>1 DEF Init, AllTyped, Fates
  <1>2. References = {} /\ IsFiniteSet(References) /\ Cardinality(References) = 0
    <2>1. References = RefsOf(refs) /\ refs \in [Threads -> Nat] /\ \A t \in Threads : refs[t] = 0
      BY TheseReferences DEF Init
    <2>2. RefsOf(refs) = {}
      BY <2>1 DEF RefsOf
    <2> QED
      BY <2>1, <2>2, FS_EmptySet
  <1>3. Scripts
    <2> SUFFICES ASSUME NEW t \in Threads PROVE Script(t)
      BY DEF Scripts
    <2>1. todo[t] = <<>> /\ refs[t] = 0 /\ at[t] = "idle" /\ stmt[t] = Null
      BY DEF Init
    <2>2. Stage(<<>>, 0, FALSE)
      BY StageStarts
    <2> QED
      BY <2>1, <2>2 DEF Script
  <1>4. Orderly
    BY <1>2, ServerAssumption DEF Init, Orderly, Alone, Counted, Counts, Opened, InSection, IsOpen
  <1>5. SyncFirst /\ HarmOnlyByRace
    BY DEF Init, SyncFirst, HarmOnlyByRace
  <1> QED
    BY <1>1, <1>2, <1>3, <1>4, <1>5, InitInv DEF Sound, Running

\* The accepting loop, and a thread outside of its storage calls, use no connection
\* to the database and only close sockets.
LEMMA DestroyKeepsDatabase ==
  ASSUME fds \in [Fds -> {"free", "socket", "db"}], NEW h \in Fds \cup {Null},
         h # Null => fds[h] = "socket", Destroy(h)
  PROVE  \A f \in Fds : fds'[f] = "db" <=> fds[f] = "db"
  BY DEF Destroy, OsClose

LEMMA OutsideKeeps ==
  ASSUME Sound, NEW t \in Threads, Recv(t) \/ Send(t) \/ Close(t) \/ Ends(t)
  PROVE  AllTyped' /\ Running' /\ fate = "runs" /\ UNCHANGED <<fate, db>>
  <1>1. /\ AllTyped /\ Running /\ Script(t) /\ at \in [Threads -> Places]
        /\ fds \in [Fds -> {"free", "socket", "db"}] /\ sock \in [Threads -> Fds \cup {Null}]
        /\ sock[t] # Null => fds[sock[t]] = "socket"
    BY DEF Sound, Running, Scripts, Recv, Send, Close, Ends, Serves, Inv, Typed, HandlesOwned
  <1>2. /\ fate = "runs" /\ todo[t] = <<>>
        /\ UNCHANGED <<main, todo, reg, refs, stmt, db, count, fate, raced, failed>>
        /\ at[t] \in {"recv", "exec", "close", "ends"}
        /\ at'[t] \in {"exec", "close", "ends", "idle"}
        /\ \A u \in Threads \ {t} : at'[u] = at[u]
    BY <1>1 DEF Recv, Send, Close, Ends, Serves, Goes, holder, histories, Script
  <1>3. AllTyped'
    <2>1. \/ UNCHANGED <<calls, tried>>
          \/ calls' = [calls EXCEPT ![t] = 0] /\ tried' = [tried EXCEPT ![t] = FALSE]
      BY DEF Recv, Send, Close, Ends
    <2>2. calls' \in [Threads -> 0 .. MaxCalls] /\ tried' \in [Threads -> BOOLEAN]
      <3>1. 0 \in 0 .. MaxCalls
        BY ServerAssumption
      <3>2. CASE UNCHANGED <<calls, tried>>
        BY <1>1, <3>2 DEF AllTyped
      <3>3. CASE calls' = [calls EXCEPT ![t] = 0] /\ tried' = [tried EXCEPT ![t] = FALSE]
        BY <1>1, <3>1, <3>3 DEF AllTyped
      <3> QED
        BY <2>1, <3>2, <3>3
    <2> QED
      BY <1>1, <1>2, <2>2 DEF AllTyped
  <1>4. \A f \in Fds : fds'[f] = "db" <=> fds[f] = "db"
    <2>1. UNCHANGED fds \/ Destroy(sock[t])
      BY DEF Recv, Send, Close, Ends
    <2> QED
      BY <1>1, <2>1, DestroyKeepsDatabase
  <1>5. Script(t)' /\ Others(t) /\ Scripts
    BY <1>1, <1>2 DEF Script, Others, Running
  <1>6. Quiet
    BY <1>2, <1>4 DEF Quiet, InSection
  <1>7. SyncFirst'
    BY <1>1, <1>2 DEF Running, SyncFirst
  <1> QED
    BY <1>1, <1>2, <1>3, <1>5, <1>6, <1>7, OthersKeepScripts, QuietKeeps

\* The accepting loop; db_sync opens and closes before there is any thread.
LEMMA StartKeeps ==
  ASSUME Sound, Start
  PROVE  AllTyped' /\ Running' /\ fate = "runs" /\ UNCHANGED fate /\ (db' = db \/ ~failed)
  <1>0. fate = "runs"
    BY DEF Start, Sync, Accept, AcceptFailed, Spawn, NextTurn, Main
  <1>1. /\ AllTyped /\ Running /\ Scripts /\ at \in [Threads -> Places]
        /\ fds \in [Fds -> {"free", "socket", "db"}] /\ conn \in Fds \cup {Null}
        /\ conn # Null => fds[conn] = "socket"
    BY <1>0 DEF Sound, Running, Inv, Typed, HandlesOwned
  <1>2. CASE Accept \/ AcceptFailed \/ NextTurn
    <2>1. UNCHANGED <<at, todo, calls, tried, reg, refs, stmt, db, count, fate, raced, failed>>
          /\ main' \in {"accept", "test"}
      BY <1>2 DEF Accept, AcceptFailed, NextTurn, Main, local, holder, histories
    <2>2. AllTyped' /\ Scripts' /\ SyncFirst'
      BY <1>1, <2>1 DEF AllTyped, Scripts, Script, SyncFirst
    <2>3. \A f \in Fds : fds'[f] = "db" <=> fds[f] = "db"
      <3>1. CASE Accept
        BY <1>1, <3>1 DEF Accept, Free, Open
      <3>2. CASE AcceptFailed
        BY <3>2 DEF AcceptFailed
      <3>3. CASE NextTurn
        BY <1>1, <3>3, DestroyKeepsDatabase DEF NextTurn
      <3> QED
        BY <1>2, <3>1, <3>2, <3>3
    <2>4. Quiet
      BY <2>1, <2>3 DEF Quiet
    <2> QED
      BY <1>0, <1>1, <2>1, <2>2, <2>4, QuietKeeps
  <1>3. ASSUME NEW t \in Threads, Spawn(t)
        PROVE  AllTyped' /\ Running' /\ UNCHANGED <<fate, db>>
    <2>1. /\ UNCHANGED <<fds, todo, reg, refs, stmt, db, count, fate, raced, failed>>
          /\ main' = "moved" /\ at[t] = "idle" /\ at'[t] = "recv"
          /\ \A u \in Threads \ {t} : at'[u] = at[u]
      BY <1>1, <1>3 DEF Spawn, Main, Goes, holder, histories
    <2>2. AllTyped'
      BY <1>1, <1>3, <2>1, ServerAssumption DEF AllTyped, Spawn
    <2>3. Script(t)' /\ Others(t)
      BY <1>1, <2>1 DEF Scripts, Script, Others
    <2>4. Quiet /\ SyncFirst'
      BY <2>1 DEF Quiet, InSection, SyncFirst
    <2> QED
      BY <1>1, <2>1, <2>2, <2>3, <2>4, OthersKeepScripts, QuietKeeps
  <1>4. CASE Sync
    <2>1. /\ main = "sync" /\ main' = "accept" /\ db' \in Free
          /\ UNCHANGED <<fds, at, todo, calls, tried, reg, refs, stmt, count, fate, raced, failed>>
      BY <1>4 DEF Sync, Main, local, histories
    <2>2. db' \in Fds /\ fds[db'] = "free"
      BY <2>1 DEF Free
    <2>3. AllTyped' /\ Scripts' /\ SyncFirst'
      BY <1>1, <2>1, <2>2 DEF AllTyped, Scripts, Script, SyncFirst
    <2>4. ~failed /\ \A t \in Threads : at[t] = "idle"
      BY <1>1, <2>1 DEF Running, SyncFirst
    <2>5. \A t \in Threads : refs[t] = 0 /\ (~raced => stmt[t] = Null)
      <3> TAKE t \in Threads
      <3>1. /\ Stage(<<>>, refs[t], ~raced /\ stmt[t] # Null)
            /\ (~raced /\ stmt[t] # Null) \in BOOLEAN
        BY <1>1, <2>4 DEF Scripts, Script
      <3> QED
        BY <3>1, StageTyped
    <2>6. References' = References /\ References = {}
      BY <1>1, <2>1, <2>5, TheseReferences, NoneLeft DEF Running, AllTyped
    <2>7. ASSUME ~raced' PROVE Orderly'
      <3>1. Orderly
        BY <1>1, <2>1, <2>7 DEF Running
      <3>2. Alone'
        BY <2>1, <3>1 DEF Orderly, Alone, InSection
      <3>3. Counted'
        BY <2>1, <2>6, <3>1 DEF Orderly, Counted, Counts
      <3>4. Opened'
        <4>1. \A f \in Fds : fds[f] # "db"
          BY <2>4, <2>6, <3>1 DEF Orderly, Opened, IsOpen
        <4> QED
          BY <2>1, <2>2, <2>4, <2>5, <2>6, <2>7, <4>1 DEF Opened, IsOpen
      <3> QED
        BY <3>2, <3>3, <3>4 DEF Orderly
    <2> QED
      BY <1>0, <1>1, <2>1, <2>3, <2>4, <2>6, <2>7 DEF Running
  <1> QED
    BY <1>0, <1>2, <1>3, <1>4, <1>1 DEF Start

LEMMA StorageKeeps ==
  ASSUME Sound, NEW t \in Threads, Storage(t)
  PROVE  /\ fate' = "runs" => Running'
         /\ HarmOnlyByRace'
         /\ failed /\ ~raced' => db' = db
  <1>1. raced => raced'
    BY StorageTyped DEF Others
  <1>0. fate = "runs"
    BY StorageTyped
  <1>h. fate' \in {"runs", "denied", "shortage"} => HarmOnlyByRace'
    BY DEF HarmOnlyByRace
  <1>2. CASE Calls(t)
    <2>1. UNCHANGED <<db, fate>>
      BY <1>2 DEF Calls, holder
    <2> QED
      BY <1>2, <1>0, <1>h, <2>1, CallsKeeps
  <1>11. CASE Steps(t)
    BY <1>11, <1>h, StepsKeeps
  <1>3. CASE Reads(t, "retain", "adds") \/ Reads(t, "release", "subs")
    <2>1. UNCHANGED <<db, fate>>
      BY <1>3 DEF Reads, holder
    <2> QED
      BY <1>3, <1>0, <1>h, <2>1, ReadsKeeps
  <1>4. CASE Adds(t) \/ Subs(t)
    <2>1. UNCHANGED <<db, fate>>
      BY <1>4 DEF Adds, Subs, Writes
    <2> QED
      BY <1>4, <1>0, <1>h, <2>1, WritesKeeps
  <1>5. CASE Added(t)
    <2>1. UNCHANGED <<db, fate>>
      BY <1>5 DEF Added, holder
    <2> QED
      BY <1>5, <1>0, <1>h, <2>1, AddedKeeps
  <1>6. CASE Opens(t)
    BY <1>6, <1>1, <1>h, OpensKeeps
  <1>7. CASE Subbed(t)
    <2>1. UNCHANGED <<db, fate>>
      BY <1>7 DEF Subbed, holder
    <2> QED
      BY <1>7, <1>0, <1>h, <2>1, SubbedKeeps
  <1>8. CASE Closes(t)
    BY <1>8, <1>1, ClosesKeeps DEF HarmOnlyByRace
  <1>9. CASE Prepares(t)
    <2>1. UNCHANGED db
      BY <1>9 DEF Prepares, holder
    <2> QED
      BY <1>9, <2>1, PreparesKeeps
  <1>10. CASE Finalizes(t)
    <2>1. UNCHANGED <<db, fate>>
      BY <1>10 DEF Finalizes, holder
    <2> QED
      BY <1>10, <1>0, <1>h, <2>1, FinalizesKeeps
  <1> QED
    BY <1>2, <1>3, <1>4, <1>5, <1>6, <1>7, <1>8, <1>9, <1>10, <1>11 DEF Storage

LEMMA NextKeepsSound ==
  ASSUME Sound, [Next]_vars
  PROVE  Sound' /\ (failed /\ ~raced' => db' = db)
  <1>1. Inv'
    BY NextKeepsInv DEF Sound
  <1>2. CASE Start
    BY <1>1, <1>2, StartKeeps DEF Sound, HarmOnlyByRace
  <1>3. ASSUME NEW t \in Threads, Recv(t) \/ Send(t) \/ Close(t) \/ Ends(t)
        PROVE  Sound' /\ (failed /\ ~raced' => db' = db)
    BY <1>1, <1>3, OutsideKeeps DEF Sound, HarmOnlyByRace
  <1>4. ASSUME NEW t \in Threads, Storage(t)
        PROVE  Sound' /\ (failed /\ ~raced' => db' = db)
    BY <1>1, <1>4, StorageTyped, StorageKeeps DEF Sound, HarmOnlyByRace
  <1>5. CASE UNCHANGED vars
    <2>1. /\ References' = References
          /\ UNCHANGED <<main, at, todo, calls, tried, reg, refs, stmt, fds, db, count, fate, raced,
                         failed>>
      BY <1>5, TheseReferences DEF vars, local, holder, histories
    <2>2. AllTyped' /\ HarmOnlyByRace'
      BY <2>1 DEF Sound, AllTyped, HarmOnlyByRace
    <2>3. fate' = "runs" => Running'
      <3>1. ASSUME fate' = "runs" PROVE Scripts' /\ SyncFirst' /\ Quiet /\ Running
        BY <2>1, <3>1 DEF Sound, Running, Scripts, Script, SyncFirst, Quiet
      <3> QED
        BY <3>1, QuietKeeps
    <2> QED
      BY <1>1, <2>1, <2>2, <2>3 DEF Sound
  <1> QED
    BY <1>2, <1>3, <1>4, <1>5 DEF Next, Serve

LEMMA AlwaysSound == Spec => []Sound
  <1>1. Sound /\ [Next]_vars => Sound'
    BY NextKeepsSound
  <1> QED
    BY InitSound, <1>1, PTL DEF Spec

\* The types, and that a thread outside of its storage calls holds no reference.
THEOREM ServerTypes == Spec => []TypeOK
  <1>1. Sound => TypeOK
    <2> SUFFICES ASSUME Sound PROVE TypeOK
      OBVIOUS
    <2>1. ASSUME NEW t \in Threads, fate = "runs", todo[t] = <<>> PROVE refs[t] = 0
      <3>1. /\ Stage(<<>>, refs[t], ~raced /\ stmt[t] # Null)
            /\ (~raced /\ stmt[t] # Null) \in BOOLEAN
        BY <2>1 DEF Sound, Running, Scripts, Script
      <3> QED
        BY <3>1, StageTyped
    <2> QED
      BY <2>1 DEF Sound, AllTyped, Inv, Typed, TypeOK
  <1> QED
    BY AlwaysSound, <1>1, PTL

\* While sections do not overlap and no open failed, connection_holder's count is
\* that of the references, the database is open exactly while there are some, and
\* every statement is of the one connection: for any number of threads and calls.
THEOREM ConnectionShared == Spec => []SharedByAll
  <1>1. Sound => SharedByAll
    <2> SUFFICES ASSUME Sound, ~raced, ~failed, fate = "runs", \A t \in Threads : ~InSection(t)
                 PROVE  /\ count = Cardinality(References)
                        /\ {f \in Fds : fds[f] = "db"} = IF count > 0 THEN {db} ELSE {}
                        /\ \A t \in Threads : stmt[t] # Null => stmt[t] = db /\ refs[t] > 0
      BY DEF SharedByAll
    <2>1. /\ Orderly /\ Cardinality(References) \in Nat
          /\ (Cardinality(References) = 0 <=> References = {})
      BY TheseReferences, NoneLeft DEF Sound, Running, AllTyped
    <2>2. count = Cardinality(References)
      BY <2>1 DEF Orderly, Counted, Counts, InSection
    <2>3. IsOpen(db) <=> count > 0
      BY <2>1, <2>2 DEF Orderly, Opened, InSection
    <2>4. {f \in Fds : fds[f] = "db"} = IF count > 0 THEN {db} ELSE {}
      BY <2>1, <2>3 DEF Orderly, Opened, IsOpen
    <2> QED
      BY <2>1, <2>2, <2>4 DEF Orderly, Opened
  <1> QED
    BY AlwaysSound, <1>1, PTL

\* Whatever SQLite fails at, an open, a prepare or a step, in a handler that hides
\* the exception or in one that dies of it: as long as no two sections overlap, no
\* thread uses or closes a connection that is gone and the last release finds no
\* statement, and a prepare finds no database only after a failed open.
THEOREM HarmNeedsRace == Spec => []HarmOnlyByRace
  <1>1. Sound => HarmOnlyByRace
    BY DEF Sound
  <1> QED
    BY AlwaysSound, <1>1, PTL

\* After a failed open the handle stays as it is: no count that later calls reach
\* opens or closes the database again.
THEOREM ShortageStays == Spec => ShortageIsForGood
  <1>1. Sound /\ [Next]_vars => [failed /\ ~raced' => db' = db]_vars
    BY NextKeepsSound
  <1> QED
    BY AlwaysSound, <1>1, PTL DEF Spec, ShortageIsForGood
=============================================================================
