----------------------------- MODULE ServerLoop -----------------------------
(***************************************************************************)
(* What the server's threads share besides the rows: the descriptors of    *)
(* the process and the connection to the database.  The main thread        *)
(* accepts a connection, moves its socket into a new thread and destroys   *)
(* what is left of it; the thread serves one request and closes the        *)
(* socket.  Every call of the storage goes through one connection_holder,  *)
(* whose count of references opens the database for the first and closes   *)
(* it for the last, with no lock: another thread's steps may come between  *)
(* reading the count, writing it, testing it and opening or closing.       *)
(* What the requests do to the rows, and what the sockets carry, is left   *)
(* to MarketThreads and Wire.                                              *)
(***************************************************************************)
EXTENDS Integers, Sequences, FiniteSets

CONSTANTS
  Threads,      \* bound: serving threads at one time
  Fds,          \* descriptors the process may still open
  Null,         \* no handle; no database
  Sick, Dead,   \* a handle whose open failed; the same, closed
  MaxCalls,     \* bound: storage calls of one request
  MaxCount      \* bound: how far races may take the count

ASSUME ServerAssumption ==
  /\ Null \notin Fds /\ Sick \notin Fds /\ Dead \notin Fds
  /\ MaxCalls \in Nat /\ MaxCount \in Nat

VARIABLES
  fds,          \* what each descriptor is open for
  main, conn,   \* where the accepting loop is; its socket's handle
  at, sock,     \* where each thread is; its socket's handle
  todo, calls,  \* what is left of a storage call; how many calls may follow
  tried,        \* the handler catches what this call throws
  reg,          \* the count as a thread read it
  refs, stmt,   \* connection_refs a thread holds; the handle of its statement
  db, count,    \* connection_holder
  fate,         \* "runs", or how the storage ended the server
  raced,        \* history: two threads were inside retain or release at once
  failed        \* history: an open found no descriptor

holder == <<db, count>>
histories == <<raced, failed>>
local == <<at, sock, todo, calls, tried, reg, refs, stmt>>
vars == <<fds, main, conn, local, holder, fate, histories>>

Free == {f \in Fds : fds[f] = "free"}
Open(f, for) == [fds EXCEPT ![f] = for]

\* Fault: a move leaves the handle in the socket it came from.
MoveLeaves(h) == h

\* ::close; what a move and a close leave in a socket.
OsClose(f) == [fds EXCEPT ![f] = "free"]
MovedFrom(h) == Null
Closed(h) == Null

\* The destructor closes a socket that still has a handle.
Destroy(h) == fds' = IF h = Null THEN fds ELSE OsClose(h)

-----------------------------------------------------------------------------
(* What a storage call does with the connection *)

\* prepare, whose reference is copied into the statement; execute, with one of
\* its own; the destructor of the statement.  (A copy made on the way, in a
\* parameter, lives and dies while the one it was made from does.)
StatementCall ==
  <<"retain", "prepare", "retain", "release", "retain", "step", "release", "finalize", "release">>

\* Fault: the view's reference is never given back.
ViewLeaks == <<"retain", "retain", "release", "prepare", "step", "finalize">>

\* iterate, whose reference is copied into the view; the loop, which prepares and
\* finalizes; the destructor of the view.
ViewCall == <<"retain", "retain", "release", "prepare", "step", "finalize", "release">>

Doing(t, op) == fate = "runs" /\ at[t] = "exec" /\ todo[t] # <<>> /\ Head(todo[t]) = op
Goes(t, where) == at' = [at EXCEPT ![t] = where]
Finishes(t) == Goes(t, "exec") /\ todo' = [todo EXCEPT ![t] = Tail(@)]

InSection(t) == at[t] \in {"adds", "added", "opens", "subs", "subbed", "closes"}

\* Fault: the statement goes after the references of the call.
UnwindsLate(t) == Append([i \in 1 .. refs[t] |-> "release"], "finalize")

\* What an exception that is caught still does on its way: a step that failed
\* leaves execute as one that did not, a statement is finalized before its
\* reference goes, and a reference is given back.
Unwinds(t) ==
  IF Head(todo[t]) = "step" THEN Tail(todo[t])
  ELSE (IF todo[t][2] = "step" THEN <<"finalize">> ELSE <<>>)
         \o [i \in 1 .. refs[t] |-> "release"]

\* An exception of the storage.  Outside of a try block nothing catches it.
Throws(t, why) ==
  IF tried[t]
    THEN Goes(t, "exec") /\ todo' = [todo EXCEPT ![t] = Unwinds(t)] /\ UNCHANGED fate
    ELSE fate' = why /\ UNCHANGED <<at, todo>>

\* A new call of the request.  cart.add and cart.edit, which load the cart first,
\* make their second call, the last, in a try block.
Calls(t) ==
  /\ fate = "runs" /\ at[t] = "exec" /\ todo[t] = <<>> /\ calls[t] > 0
  /\ \E script \in {StatementCall, ViewCall}, catches \in BOOLEAN :
       /\ catches => script = StatementCall /\ calls[t] = MaxCalls - 1
       /\ todo' = [todo EXCEPT ![t] = script] /\ tried' = [tried EXCEPT ![t] = catches]
       /\ calls' = [calls EXCEPT ![t] = IF catches THEN 0 ELSE @ - 1]
  /\ UNCHANGED <<fds, main, conn, at, sock, reg, refs, stmt, holder, fate, histories>>

-----------------------------------------------------------------------------
(* connection_holder *)

\* A section begins: the count is read.
Reads(t, op, next) ==
  /\ Doing(t, op) /\ Goes(t, next)
  /\ reg' = [reg EXCEPT ![t] = count]
  /\ raced' = (raced \/ \E u \in Threads \ {t} : InSection(u))
  /\ UNCHANGED <<fds, main, conn, sock, todo, calls, tried, refs, stmt, holder, fate, failed>>

\* The count is written.
Writes(t, here, next, value) ==
  /\ fate = "runs" /\ at[t] = here /\ Goes(t, next)
  /\ value \in -1 .. MaxCount /\ count' = value
  /\ UNCHANGED <<fds, main, conn, sock, todo, calls, tried, reg, refs, stmt, db, fate, histories>>

\* The test may look at the value written or read the count again.
Seen(value) == {value, count}

Adds(t) == Writes(t, "adds", "added", reg[t] + 1)
Subs(t) == Writes(t, "subs", "subbed", reg[t] - 1)

\* Fault: the second reference opens.
OpensLate == 2

OpensAt == 1

\* retain opens for the first reference only.
Added(t) ==
  /\ fate = "runs" /\ at[t] = "added"
  /\ \E n \in Seen(reg[t] + 1) :
       IF n = OpensAt THEN Goes(t, "opens") /\ UNCHANGED <<todo, refs>>
       ELSE Finishes(t) /\ refs' = [refs EXCEPT ![t] = @ + 1]
  /\ reg' = [reg EXCEPT ![t] = 0]
  /\ UNCHANGED <<fds, main, conn, sock, calls, tried, stmt, holder, fate, histories>>

\* Fault: a failed open takes its reference back.
ForgetsReference == count' = count - 1

KeepsReference == UNCHANGED count

\* sqlite3_open.  It fails when there is no descriptor left: the holder keeps
\* the handle that came of it and the reference that nobody has.
Opens(t) ==
  /\ fate = "runs" /\ at[t] = "opens"
  /\ \/ \E f \in Free :
          /\ fds' = Open(f, "db") /\ db' = f
          /\ Finishes(t) /\ refs' = [refs EXCEPT ![t] = @ + 1]
          /\ UNCHANGED <<count, fate, failed>>
     \/ /\ Free = {} /\ db' = Sick /\ failed' = TRUE
        /\ KeepsReference /\ Throws(t, "shortage")
        /\ UNCHANGED <<fds, refs>>
  /\ UNCHANGED <<main, conn, sock, calls, tried, reg, stmt, raced>>

\* release closes for the last reference only.
Subbed(t) ==
  /\ fate = "runs" /\ at[t] = "subbed"
  /\ refs' = [refs EXCEPT ![t] = @ - 1] /\ reg' = [reg EXCEPT ![t] = 0]
  /\ \E n \in Seen(reg[t] - 1) :
       IF n = 0 THEN Goes(t, "closes") /\ UNCHANGED todo ELSE Finishes(t)
  /\ UNCHANGED <<fds, main, conn, sock, calls, tried, stmt, holder, fate, histories>>

IsOpen(h) == h \in Fds /\ fds[h] = "db"

\* sqlite3_close refuses a handle with a statement, and release throws from a
\* destructor; a handle closed before is freed memory.
Closes(t) ==
  /\ fate = "runs" /\ at[t] = "closes"
  /\ CASE db = Null -> Finishes(t) /\ UNCHANGED <<fds, db, fate>>
       [] db = Sick -> Finishes(t) /\ db' = Dead /\ UNCHANGED <<fds, fate>>
       [] IsOpen(db) /\ (\A u \in Threads : stmt[u] # db) ->
            Finishes(t) /\ fds' = OsClose(db) /\ UNCHANGED <<db, fate>>
       [] IsOpen(db) /\ (\E u \in Threads : stmt[u] = db) ->
            fate' = "unclosable" /\ UNCHANGED <<at, todo, fds, db>>
       [] OTHER -> fate' = "wild" /\ UNCHANGED <<at, todo, fds, db>>
  /\ UNCHANGED <<main, conn, sock, calls, tried, reg, refs, stmt, count, histories>>

\* sqlite3_prepare_v2 with the handle the holder has now: none and a sick one are
\* refused, and an open one reads the schema from a file that may fail.
Prepares(t) ==
  /\ Doing(t, "prepare")
  /\ \/ /\ IsOpen(db) /\ Finishes(t)
        /\ stmt' = [stmt EXCEPT ![t] = db] /\ UNCHANGED fate
     \/ IsOpen(db) /\ Throws(t, "denied") /\ UNCHANGED stmt
     \/ db \in {Null, Sick} /\ Throws(t, "unopened") /\ UNCHANGED stmt
     \/ /\ ~IsOpen(db) /\ db \notin {Null, Sick}
        /\ fate' = "wild" /\ UNCHANGED <<at, todo, stmt>>
  /\ UNCHANGED <<fds, main, conn, sock, calls, tried, reg, refs, holder, histories>>

\* sqlite3_step: the rows are MarketThreads' and Accounts'.  It fails when the disk
\* does, is full, or has no descriptor left for the journal; execute throws.
Steps(t) ==
  /\ Doing(t, "step")
  /\ \/ Finishes(t) /\ UNCHANGED fate
     \/ Throws(t, "denied")
  /\ UNCHANGED <<fds, main, conn, sock, calls, tried, reg, refs, stmt, holder, histories>>

Finalizes(t) ==
  /\ Doing(t, "finalize") /\ Finishes(t)
  /\ stmt' = [stmt EXCEPT ![t] = Null]
  /\ UNCHANGED <<fds, main, conn, sock, calls, tried, reg, refs, holder, fate, histories>>

Storage(t) ==
  \/ Calls(t)
  \/ Reads(t, "retain", "adds") \/ Adds(t) \/ Added(t) \/ Opens(t)
  \/ Reads(t, "release", "subs") \/ Subs(t) \/ Subbed(t) \/ Closes(t)
  \/ Prepares(t) \/ Steps(t) \/ Finalizes(t)
-----------------------------------------------------------------------------
(* session::Start and session::serve *)

Init ==
  /\ fds = [f \in Fds |-> "free"]
  /\ main = "sync" /\ conn = Null
  /\ at = [t \in Threads |-> "idle"] /\ sock = [t \in Threads |-> Null]
  /\ todo = [t \in Threads |-> <<>>] /\ calls = [t \in Threads |-> 0]
  /\ tried = [t \in Threads |-> FALSE] /\ reg = [t \in Threads |-> 0]
  /\ refs = [t \in Threads |-> 0] /\ stmt = [t \in Threads |-> Null]
  /\ db = Null /\ count = 0
  /\ fate = "runs" /\ raced = FALSE /\ failed = FALSE

Main(here, next) == fate = "runs" /\ main = here /\ main' = next

\* db_sync, before there are threads: the connection is opened and closed.
Sync ==
  /\ Main("sync", "accept")
  /\ \E f \in Free : db' = f
  /\ UNCHANGED <<fds, conn, local, count, fate, histories>>

\* accept: a descriptor for the connection, or an invalid socket when it fails.
Accept ==
  /\ Main("accept", "test")
  /\ \/ \E f \in Free : fds' = Open(f, "socket") /\ conn' = f
     \/ UNCHANGED <<fds, conn>>
  /\ UNCHANGED <<local, holder, fate, histories>>

\* !sock: the loop goes on after an error.
AcceptFailed ==
  /\ Main("test", "accept") /\ conn = Null
  /\ UNCHANGED <<fds, conn, local, holder, fate, histories>>

\* The socket is moved into a new thread; which calls the request will make is
\* open.
Spawn(t) ==
  /\ Main("test", "moved") /\ conn # Null /\ at[t] = "idle"
  /\ sock' = [sock EXCEPT ![t] = conn] /\ conn' = MovedFrom(conn)
  /\ Goes(t, "recv")
  /\ calls' = [calls EXCEPT ![t] = MaxCalls]
  /\ UNCHANGED <<fds, todo, tried, reg, refs, stmt, holder, fate, histories>>

\* The socket that was moved from is destroyed.
NextTurn ==
  /\ Main("moved", "accept")
  /\ Destroy(conn) /\ conn' = Null
  /\ UNCHANGED <<local, holder, fate, histories>>

Serves(t, here, next) ==
  /\ fate = "runs" /\ at[t] = here /\ Goes(t, next)
  /\ UNCHANGED <<main, conn, todo, reg, refs, stmt, holder, fate, histories>>

\* recv goes on whether it got a request or not.
Recv(t) == Serves(t, "recv", "exec") /\ UNCHANGED <<fds, sock, calls, tried>>

\* exec may end before its calls are used up.
Send(t) ==
  /\ todo[t] = <<>> /\ Serves(t, "exec", "close")
  /\ calls' = [calls EXCEPT ![t] = 0] /\ tried' = [tried EXCEPT ![t] = FALSE]
  /\ UNCHANGED <<fds, sock>>

\* socket::close: the handle is released, then closed.
Close(t) ==
  /\ Serves(t, "close", "ends")
  /\ Destroy(sock[t]) /\ sock' = [sock EXCEPT ![t] = Closed(@)]
  /\ UNCHANGED <<calls, tried>>

\* The socket is destroyed and the thread is over.
Ends(t) ==
  /\ Serves(t, "ends", "idle")
  /\ Destroy(sock[t]) /\ sock' = [sock EXCEPT ![t] = Null]
  /\ UNCHANGED <<calls, tried>>

Serve(t) == Recv(t) \/ Storage(t) \/ Send(t) \/ Close(t) \/ Ends(t)
Start == Sync \/ Accept \/ AcceptFailed \/ (\E t \in Threads : Spawn(t)) \/ NextTurn

Next == Start \/ \E t \in Threads : Serve(t)

Spec == Init /\ [][Next]_vars

-----------------------------------------------------------------------------
(* Correctness *)

Places == {"idle", "recv", "exec", "adds", "added", "opens", "subs", "subbed", "closes",
           "close", "ends"}
Ops == {"retain", "prepare", "step", "finalize", "release"}

\* The server runs, or ended by an exception that nothing caught (an open without
\* a descriptor, a statement that failed, a statement for no open database), by
\* one out of a destructor, which nothing could catch (sqlite3_close refused), or
\* in any way after a use of freed memory.
Fates == {"runs", "shortage", "denied", "unopened", "unclosable", "wild"}

\* Types; a thread that is not in a storage call holds nothing of the connection.
TypeOK ==
  /\ fds \in [Fds -> {"free", "socket", "db"}]
  /\ main \in {"sync", "accept", "test", "moved"} /\ conn \in Fds \cup {Null}
  /\ at \in [Threads -> Places] /\ sock \in [Threads -> Fds \cup {Null}]
  /\ todo \in [Threads -> Seq(Ops)] /\ calls \in [Threads -> 0 .. MaxCalls]
  /\ tried \in [Threads -> BOOLEAN] /\ reg \in [Threads -> -1 .. MaxCount]
  /\ refs \in [Threads -> Nat] /\ stmt \in [Threads -> Fds \cup {Null}]
  /\ db \in Fds \cup {Null, Sick, Dead} /\ count \in -1 .. MaxCount
  /\ fate \in Fates /\ raced \in BOOLEAN /\ failed \in BOOLEAN
  /\ \A t \in Threads : fate = "runs" /\ todo[t] = <<>> => refs[t] = 0

\* Every socket object with a handle owns it alone, and no descriptor of a
\* connection is without its socket: none is closed twice, closed for another
\* connection or for the database that got its number, or leaked.
HandlesOwned ==
  /\ conn # Null => fds[conn] = "socket"
  /\ \A t \in Threads :
       sock[t] # Null =>
         /\ fds[sock[t]] = "socket" /\ sock[t] # conn
         /\ \A u \in Threads \ {t} : sock[u] # sock[t]
  /\ \A f \in Fds : fds[f] = "socket" => f = conn \/ \E t \in Threads : sock[t] = f

\* The connection_refs there are, the nth of each thread.
References == UNION {{t} \X (1 .. refs[t]) : t \in Threads}

\* While retain and release never overlap and no open failed, the count is that
\* of the references, and the database is open, once, exactly while there are
\* some; every statement is of that connection.
SharedByAll ==
  ~raced /\ ~failed /\ fate = "runs" /\ (\A t \in Threads : ~InSection(t)) =>
    /\ count = Cardinality(References)
    /\ {f \in Fds : fds[f] = "db"} = IF count > 0 THEN {db} ELSE {}
    /\ \A t \in Threads : stmt[t] # Null => stmt[t] = db /\ refs[t] > 0

\* What fails under the storage does no more harm than its own exception: only
\* overlapping sections bring a thread to use or close a connection that is gone,
\* or to close one that has a statement left, and only they or a failed open to ask
\* one that is not open.
HarmOnlyByRace ==
  /\ fate \in {"unclosable", "wild"} => raced
  /\ fate = "unopened" => raced \/ failed

\* A failed open that a handler hides is for good: its reference is never given
\* back, so nothing opens the database again however many descriptors come free.
ShortageIsForGood == [][failed /\ ~raced' => db' = db]_vars
=============================================================================
