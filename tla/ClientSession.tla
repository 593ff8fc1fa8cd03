---------------------------- MODULE ClientSession ----------------------------
(***************************************************************************)
(* The client: its menus, the cli sessions that read lines and run         *)
(* commands, and the login they keep.  login and logout run as commands of *)
(* a session: they tell it to exit, replace it by a new one (which frees   *)
(* it) and run the new one's loop there, inside the command.  The stack    *)
(* holds the loops that run; only the top one belongs to a session that    *)
(* still exists, and one below returns into memory that was freed.         *)
(***************************************************************************)
EXTENDS Integers, Sequences, FiniteSets

CONSTANTS
  Accounts,   \* ids that a login may be answered with
  Sellers,    \* those whose account is a seller's
  JunkId,     \* a user_id read from an answer that never came
  Lines,      \* lines typed, as sequences of words
  Numbers,    \* words that read as numbers
  MaxDepth    \* bound: loops on the stack

ASSUME ClientAssumption ==
  /\ Sellers \subseteq Accounts /\ 0 \notin Accounts \cup {JunkId}
  /\ JunkId \notin Accounts /\ MaxDepth \in Nat \ {0}

VARIABLES
  stack,         \* the loops that run, innermost last
  current_user, user_type,
  eof,           \* standard input has ended
  fed,           \* the last request: what, for whom, from whose menu
  pc             \* "runs", "ended", or "wild" after a use of freed memory

login == <<current_user, user_type>>
vars == <<stack, current_user, user_type, eof, fed, pc>>

-----------------------------------------------------------------------------
(* Menus *)

Command(name, params) == [name |-> name, params |-> params]

\* gen_main_menu and gen_user_menu: the commands of each menu and how many
\* parameters they have.
CommandsOf(menu) ==
  CASE menu = "cpp-emarket" ->
         {Command("login", 1), Command("register", 1), Command("search", 1), Command("list", 0)}
    [] menu = "main" ->
         {Command("logout", 0), Command("search", 1), Command("list", 0), Command("add", 1),
          Command("passwd", 0)}
    [] menu = "orders" -> {Command("list", 0), Command("cancel", 1), Command("pay", 1)}
    [] menu = "cart" ->
         {Command("checkout", 0), Command("list", 0), Command("edit", 1), Command("remove", 1)}
    [] menu = "wallet" -> {Command("balance", 0), Command("topup", 1)}
    [] menu = "seller" ->
         {Command("list", 0), Command("edit", 1), Command("add", 0), Command("remove", 1),
          Command("sale", 0)}

\* Fault: the test of user_type is forgotten.
SubmenusForAll(menu, seller) ==
  IF menu = "main" THEN {"orders", "cart", "wallet", "seller"} ELSE {}

\* The menus in a menu; only a seller's has the seller menu.
Submenus(menu, seller) ==
  IF menu = "main" THEN {"orders", "cart", "wallet"} \cup (IF seller THEN {"seller"} ELSE {})
  ELSE {}
Parents(menu) == IF menu \in {"orders", "cart", "wallet", "seller"} THEN {"main"} ELSE {}

\* These take a text, the others with a parameter take a number.
TakesText == {"login", "register", "search"}

\* What a line may do: a command of a menu, or becoming the current menu.
Does(menu, name) == [menu |-> menu, name |-> name]
Enter(menu) == [menu |-> menu, name |-> "enter"]

\* VariadicFunctionCommand::Exec: the number of parameters must be right and
\* they must convert.
RunsIn(menu, words) ==
  {Does(menu, c.name) : c \in {d \in CommandsOf(menu) :
     /\ Len(words) = d.params + 1 /\ words[1] = d.name
     /\ d.params = 1 /\ d.name \notin TakesText => words[2] \in Numbers}}

\* Menu::Exec: the menu's name, alone or before a command of it or of a menu in it.
Named(menu, words) == words # <<>> /\ words[1] = menu
ExecLeaf(menu, words) ==
  IF ~Named(menu, words) THEN {}
  ELSE IF Len(words) = 1 THEN {Enter(menu)} ELSE RunsIn(menu, Tail(words))
ExecMenu(menu, seller, words) ==
  ExecLeaf(menu, words) \cup
    (IF Named(menu, words)
       THEN UNION {ExecLeaf(m, Tail(words)) : m \in Submenus(menu, seller)} ELSE {})

\* Menu::ScanCmds: the menu's own commands and menus, then its parent by name.
Scan(menu, seller, words) ==
  LET here == RunsIn(menu, words) \cup UNION {ExecLeaf(m, words) : m \in Submenus(menu, seller)}
  IN IF here # {} THEN here
     ELSE UNION {ExecMenu(m, seller, words) : m \in Parents(menu)}

-----------------------------------------------------------------------------
(* Sessions *)

\* A session: its menu tree, the menu it is in, whether it was told to exit, and
\* the command that started its loop.
Session(root, owner, seller, by) ==
  [menu |-> root, owner |-> owner, seller |-> seller, exit |-> FALSE, by |-> by]
MainSession(by) == Session("cpp-emarket", 0, FALSE, by)
UserSession(user, seller) == Session("main", user, seller, "login")

Nothing == [what |-> Does("none", "nothing"), user |-> 0, owner |-> 0]

Init ==
  /\ stack = <<MainSession("start")>>
  /\ current_user = 0
  /\ user_type \in {"customer", "seller"}    \* never initialised
  /\ eof = FALSE /\ fed = Nothing /\ pc = "runs"

Top == stack[Len(stack)]
Reads == pc = "runs" /\ ~Top.exit
Update(s) == [stack EXCEPT ![Len(stack)] = s]
Exited == Update([Top EXCEPT !.exit = TRUE])

\* A request is fed to the server; most carry current_user.
Feeds(what, user) == fed' = [what |-> what, user |-> user, owner |-> Top.owner]

\* Input may end at a prompt of a command; the command goes on with nothing.
MayEnd == eof' \in {eof, TRUE}

-----------------------------------------------------------------------------
(* Commands *)

Types(user) == IF user \in Sellers THEN "seller" ELSE "customer"

\* Faults: the session that is replaced is not told to exit; current_user is set
\* when the new session is over; the menu is made before user_type is known.
LoginKeepsOld(user) ==
  /\ stack' = Append(stack, UserSession(user, Types(user) = "seller"))
  /\ current_user' = user /\ user_type' = Types(user)
LoginSetsUserLate(user) ==
  /\ stack' = Append(Exited, UserSession(user, Types(user) = "seller"))
  /\ UNCHANGED current_user /\ user_type' = Types(user)
LoginMenuFirst(user) ==
  /\ stack' = Append(Exited, UserSession(user, user_type = "seller"))
  /\ current_user' = user /\ user_type' = Types(user)

\* client_session::login, after an answer that names the user.  A session cannot
\* be made on input that has ended: its constructor throws.
LoggedIn(user) ==
  /\ stack' = IF eof' THEN Exited
              ELSE Append(Exited, UserSession(user, Types(user) = "seller"))
  /\ current_user' = user /\ user_type' = Types(user)

\* The answer never came but its success, which was not written, is not 0: the
\* payload has no second field.  stoi throws (the session was told to exit
\* before), or reads what is behind the vector.
LoginOnJunk ==
  /\ UNCHANGED user_type
  /\ \/ stack' = Exited /\ current_user' = JunkId /\ UNCHANGED pc
     \/ pc' = "wild" /\ UNCHANGED <<stack, current_user>>

Login ==
  /\ MayEnd
  /\ Feeds(Does("cpp-emarket", "login"), 0)
  /\ \/ UNCHANGED <<stack, login, pc>>
     \/ \E user \in Accounts : Len(stack) < MaxDepth /\ LoggedIn(user) /\ UNCHANGED pc
     \/ LoginOnJunk

\* Fault: the answer to a signup carries the id of the account.
SignupAnswersId == Accounts

\* session::signup answers with response_data(1, name), whose user_id is 0.
SignupAnswers == {0}

\* signup ends early when the type or the second password is not as it should
\* be; current_user becomes whatever user_id the answer has.
Signup ==
  /\ MayEnd
  /\ UNCHANGED <<stack, user_type, pc>>
  /\ \/ UNCHANGED <<current_user, fed>>
     \/ Feeds(Does("cpp-emarket", "register"), 0) /\ current_user' \in {current_user, JunkId} \cup SignupAnswers

\* Fault: the session that is replaced is not told to exit.
LogoutKeepsOld ==
  /\ Len(stack) < MaxDepth
  /\ stack' = Append(stack, MainSession("logout"))
  /\ UNCHANGED <<login, eof, fed, pc>>

\* current_user is set when the new session is over.
Logout ==
  /\ Len(stack) < MaxDepth
  /\ stack' = Append(Exited, MainSession("logout"))
  /\ UNCHANGED <<login, eof, fed, pc>>

\* The other commands feed a request; some end early.
EndsEarly == {Does("seller", "edit"), Does("seller", "add")}
Request(what) ==
  /\ MayEnd
  /\ \/ Feeds(what, IF what.name = "search" THEN 0 ELSE current_user)
     \/ what \in EndsEarly /\ UNCHANGED fed
  /\ UNCHANGED <<stack, login, pc>>

EnterMenu(menu) ==
  /\ stack' = Update([Top EXCEPT !.menu = menu])
  /\ UNCHANGED <<login, eof, fed, pc>>

\* CliSession::Feed: help and exit first, then the current menu; a line that
\* nothing takes is a wrong command.
FeedLine(words) ==
  LET found == Scan(Top.menu, Top.seller, words)
  IN /\ Reads /\ ~eof
     /\ \/ words = <<"exit">> /\ stack' = Exited /\ UNCHANGED <<login, eof, fed, pc>>
        \/ /\ words # <<"exit">> /\ (words = <<"help">> \/ found = {})
           /\ UNCHANGED vars
        \/ /\ words \notin {<<"exit">>, <<"help">>}
           /\ \E what \in found :
                CASE what.name = "enter" -> EnterMenu(what.menu)
                  [] what.name = "login" -> Login
                  [] what.name = "register" -> Signup
                  [] what.name = "logout" -> Logout
                  [] OTHER -> Request(what)

-----------------------------------------------------------------------------
(* CliFileSession::Start *)

InputEnds == Reads /\ ~eof /\ eof' = TRUE /\ UNCHANGED <<stack, login, fed, pc>>

\* No more input: the session exits.
ExitAtEof ==
  /\ Reads /\ eof /\ stack' = Exited
  /\ UNCHANGED <<login, eof, fed, pc>>

\* A loop ends.  The command that started it goes on and returns into the loop
\* below, whose session was freed: its exit flag still reads as it was left,
\* or as anything.
LoopEnds ==
  /\ pc = "runs" /\ Top.exit
  /\ current_user' = IF Top.by = "logout" THEN 0 ELSE current_user
  /\ IF Len(stack) = 1
       THEN pc' = "ended" /\ UNCHANGED stack
       ELSE stack' = SubSeq(stack, 1, Len(stack) - 1) /\ pc' \in {"runs", "wild"}
  /\ UNCHANGED <<user_type, eof, fed>>

Next == (\E words \in Lines : FeedLine(words)) \/ InputEnds \/ ExitAtEof \/ LoopEnds

Spec == Init /\ [][Next]_vars

\* The program runs on; whether a line is typed is up to the person.
FairSpec == Spec /\ WF_vars(ExitAtEof \/ LoopEnds)

-----------------------------------------------------------------------------
(* Correctness *)

Sess == [menu : {"cpp-emarket", "main", "orders", "cart", "wallet", "seller"},
         owner : Accounts \cup {0}, seller : BOOLEAN, exit : BOOLEAN,
         by : {"start", "login", "logout"}]

\* Types; a menu that is shown belongs to the tree of its session.
TypeOK ==
  /\ stack \in Seq(Sess) /\ stack # <<>> /\ Len(stack) <= MaxDepth
  /\ current_user \in Accounts \cup {0, JunkId}
  /\ user_type \in {"customer", "seller"} /\ eof \in BOOLEAN
  /\ pc \in {"runs", "ended", "wild"}
  /\ \A k \in 1 .. Len(stack) :
       /\ stack[k].owner = 0 <=> stack[k].menu = "cpp-emarket"
       /\ stack[k].menu = "seller" => stack[k].seller

\* A request typed in a user's menu is made for that user, however many logins
\* and logouts are nested under it (search names nobody).
RequestsAreTheOwners ==
  fed.owner # 0 /\ fed.what # Does("main", "search") => fed.user = fed.owner

\* Only a seller is offered what sellers do: no menu outlives the login it was
\* made for, and user_type is the answer's when the menu is made.
SellerMenuIsASellers == \A k \in 1 .. Len(stack) : stack[k].seller => stack[k].owner \in Sellers

\* Every loop under the top one will end when it is returned to: its session was
\* freed and must not read another line.
FreedNeverRead == \A k \in 1 .. Len(stack) - 1 : stack[k].exit

\* The login the menus show and the one the requests carry (logged_in) differ
\* only in a main menu that a logout opened, which still has the user who left,
\* or after an answer that never came.
LoginsAgree ==
  Reads /\ current_user # JunkId =>
    \/ current_user = Top.owner
    \/ /\ Top.by = "logout" /\ current_user = stack[Len(stack) - 1].owner

\* A session told to exit ends the client, with all the sessions it is nested
\* in, unless it stumbles over freed memory on the way.
QuitEnds == pc = "runs" /\ Top.exit ~> pc # "runs"
=============================================================================
