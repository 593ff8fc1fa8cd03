---------------------------- MODULE ClientProofs ----------------------------
(***************************************************************************)
(* What the nested sessions of the client keep, for any accounts, any      *)
(* lines and any depth.                                                    *)
(***************************************************************************)
EXTENDS ClientSession, TLAPS

-----------------------------------------------------------------------------
(* What a line can reach *)

Menus == {"cpp-emarket", "main", "orders", "cart", "wallet", "seller"}

\* A command of menu m, or entering it.
Reaches(m, what) ==
  \/ what = Enter(m)
  \/ \E c \in CommandsOf(m) : what = Does(m, c.name)

LEMMA LeafReaches ==
  ASSUME NEW m \in Menus, NEW words, NEW what \in ExecLeaf(m, words)
  PROVE  Reaches(m, what)
  BY DEF ExecLeaf, RunsIn, Reaches

LEMMA SubmenusOf ==
  ASSUME NEW m \in Menus, NEW seller \in BOOLEAN, NEW s \in Submenus(m, seller)
  PROVE  m = "main" /\ s \in {"orders", "cart", "wallet", "seller"} /\ (s = "seller" => seller)
  BY DEF Submenus, Menus

\* A line stays within the tree of its session: the main menu's, or the user's
\* with the seller menu only for a seller.
LEMMA ScanReaches ==
  ASSUME NEW menu \in Menus, NEW seller \in BOOLEAN, NEW words,
         NEW what \in Scan(menu, seller, words)
  PROVE  \E m \in Menus : /\ m = "cpp-emarket" <=> menu = "cpp-emarket"
                          /\ m = "seller" => seller \/ menu = "seller"
                          /\ m = "cpp-emarket" => what # Enter(m)
                          /\ Reaches(m, what)
  <1>1. CASE what \in RunsIn(menu, words)
    <2>1. PICK c \in CommandsOf(menu) : what = Does(menu, c.name)
      BY <1>1 DEF RunsIn
    <2>2. menu = "cpp-emarket" => what # Enter(menu)
      BY <2>1 DEF CommandsOf, Command, Does, Enter
    <2> QED
      BY <2>1, <2>2 DEF Reaches
  <1>2. ASSUME NEW s \in Submenus(menu, seller), what \in ExecLeaf(s, words)
        PROVE  Reaches(s, what) /\ s \in Menus /\ s # "cpp-emarket" /\ menu # "cpp-emarket"
               /\ (s = "seller" => seller)
    BY <1>2, SubmenusOf, LeafReaches DEF Menus
  <1>3. ASSUME NEW p \in Parents(menu), what \in ExecMenu(p, seller, words)
        PROVE  \E m \in Menus : /\ m # "cpp-emarket" /\ menu # "cpp-emarket"
                                /\ m = "seller" => seller
                                /\ Reaches(m, what)
    <2>1. p = "main" /\ menu # "cpp-emarket" /\ p \in Menus
      BY <1>3 DEF Parents, Menus
    <2>2. CASE what \in ExecLeaf(p, words)
      BY <2>1, <2>2, LeafReaches
    <2>3. ASSUME NEW s \in Submenus(p, seller), what \in ExecLeaf(s, Tail(words))
          PROVE  Reaches(s, what) /\ s \in Menus /\ s # "cpp-emarket" /\ (s = "seller" => seller)
      BY <2>1, <2>3, SubmenusOf, LeafReaches DEF Menus
    <2> QED
      BY <1>3, <2>1, <2>2, <2>3 DEF ExecMenu
  <1>4. \/ what \in RunsIn(menu, words)
        \/ \E s \in Submenus(menu, seller) : what \in ExecLeaf(s, words)
        \/ \E p \in Parents(menu) : what \in ExecMenu(p, seller, words)
    BY DEF Scan
  <1> QED
    BY <1>1, <1>2, <1>3, <1>4

\* Where the commands that treat the login specially can be typed.
LEMMA WhereCommandsAre ==
  ASSUME NEW m \in Menus, NEW c \in CommandsOf(m)
  PROVE  /\ c.name \in {"login", "register"} => m = "cpp-emarket"
         /\ c.name = "logout" => m = "main"
         /\ c.name = "search" => m \in {"cpp-emarket", "main"}
         /\ c.name # "enter"
  BY DEF Menus, CommandsOf, Command

-----------------------------------------------------------------------------
(* The stack of loops *)

\* A menu belongs to the tree of its session, a seller's session to a seller, the
\* outermost loop to nobody's command, and every session under the top one was
\* told to exit.
StackInv ==
  /\ stack \in Seq(Sess) /\ stack # <<>> /\ Len(stack) <= MaxDepth
  /\ \A k \in 1 .. Len(stack) :
       /\ stack[k].owner = 0 <=> stack[k].menu = "cpp-emarket"
       /\ stack[k].menu = "seller" => stack[k].seller
       /\ stack[k].seller => stack[k].owner \in Sellers
  /\ stack[1].by = "start"
  /\ \A k \in 1 .. Len(stack) - 1 : stack[k].exit

Fits(s) ==
  /\ s \in Sess
  /\ s.owner = 0 <=> s.menu = "cpp-emarket"
  /\ s.menu = "seller" => s.seller
  /\ s.seller => s.owner \in Sellers

LEMMA TopFits == StackInv => Len(stack) \in 1 .. MaxDepth /\ Fits(Top)
  BY ClientAssumption DEF StackInv, Fits, Top

LEMMA ReplaceTop ==
  ASSUME StackInv, NEW s, Fits(s), s.by = Top.by, stack' = Update(s)
  PROVE  /\ StackInv' /\ Top' = s /\ Len(stack') = Len(stack)
         /\ \A k \in 1 .. Len(stack) - 1 : stack'[k] = stack[k]
  BY DEF StackInv, Fits, Update, Top

LEMMA Push ==
  ASSUME StackInv, Len(stack) < MaxDepth, NEW s, Fits(s), stack' = Append(Exited, s)
  PROVE  /\ StackInv' /\ Top' = s /\ Len(stack') = Len(stack) + 1
         /\ stack'[Len(stack)].owner = Top.owner
  <1> DEFINE told == [Top EXCEPT !.exit = TRUE]
  <1>1. told \in Sess /\ Fits(told) /\ told.exit /\ told.owner = Top.owner /\ told.by = Top.by
    BY TopFits DEF Fits, Sess
  <1>2. /\ Exited \in Seq(Sess) /\ Len(Exited) = Len(stack)
        /\ Exited[Len(stack)] = told
        /\ \A k \in 1 .. Len(stack) - 1 : Exited[k] = stack[k]
    BY <1>1, TopFits DEF Exited, Update, StackInv
  <1>3. s \in Sess
    BY DEF Fits
  <1> HIDE DEF told
  <1>4. /\ stack' \in Seq(Sess) /\ Len(stack') = Len(stack) + 1
        /\ stack'[Len(stack) + 1] = s /\ stack'[Len(stack)] = told
        /\ \A k \in 1 .. Len(stack) - 1 : stack'[k] = stack[k]
    BY <1>2, <1>3, TopFits
  <1>5. Top' = s
    BY <1>4 DEF Top
  <1>6. StackInv'
    <2>1. \A k \in 1 .. Len(stack') :
            \/ k \in 1 .. Len(stack) - 1 /\ stack'[k] = stack[k]
            \/ stack'[k] = told \/ stack'[k] = s
      BY <1>4, TopFits
    <2>2. \A k \in 1 .. Len(stack') - 1 : stack'[k].exit
      BY <1>1, <1>4, TopFits DEF StackInv
    <2>3. stack'[1].by = "start"
      BY <1>1, <1>4, TopFits DEF StackInv, Top
    <2> QED
      BY <1>1, <1>4, <2>1, <2>2, <2>3, TopFits, ClientAssumption DEF StackInv, Fits
  <1> QED
    BY <1>1, <1>4, <1>5, <1>6

LEMMA Pop ==
  ASSUME StackInv, Len(stack) # 1, stack' = SubSeq(stack, 1, Len(stack) - 1)
  PROVE  StackInv' /\ Top'.exit
  <1>a. Len(stack) \in 1 .. MaxDepth /\ MaxDepth \in Nat
    BY TopFits, ClientAssumption
  <1>b. stack \in Seq(Sess)
    BY DEF StackInv
  <1> DEFINE n == Len(stack)
  <1>c. n \in Nat /\ n >= 1 /\ n # 1
    BY <1>a
  <1> HIDE DEF n
  <1>d. n - 1 \in Nat /\ n - 1 >= 1 /\ n - 1 <= n
    BY <1>c
  <1>1. n - 1 \in 1 .. n
    BY <1>c, <1>d
  <1>2. /\ stack' \in Seq(Sess) /\ Len(stack') = n - 1
        /\ \A k \in 1 .. n - 1 : stack'[k] = stack[k]
    BY <1>1, <1>b DEF n
  <1>3. Top'.exit
    BY <1>1, <1>2 DEF Top, StackInv, n
  <1>4. stack' # <<>> /\ Len(stack') <= MaxDepth
    <2>1. n <= MaxDepth
      BY <1>a DEF n
    <2>2. stack' # <<>>
      BY <1>2, <1>d
    <2>3. n - 1 <= MaxDepth
      BY <1>a, <1>c, <2>1
    <2> QED
      BY <1>2, <2>2, <2>3
  <1>5. ASSUME NEW k \in 1 .. n - 1
        PROVE  /\ stack'[k].owner = 0 <=> stack'[k].menu = "cpp-emarket"
               /\ stack'[k].menu = "seller" => stack'[k].seller
               /\ stack'[k].seller => stack'[k].owner \in Sellers
               /\ stack'[k].exit
    <2>1. k \in 1 .. n /\ stack'[k] = stack[k]
      BY <1>c, <1>2
    <2> QED
      BY <2>1 DEF StackInv, n
  <1>6. stack'[1].by = "start"
    BY <1>c, <1>d, <1>2 DEF StackInv
  <1>7. (n - 1) - 1 \in Int /\ \A k \in 1 .. (n - 1) - 1 : k \in 1 .. n - 1
    BY <1>c
  <1> QED
    BY <1>2, <1>3, <1>4, <1>5, <1>6, <1>7 DEF StackInv

-----------------------------------------------------------------------------
(* The login *)

Users == Accounts \cup {0, JunkId}

\* While a user's menu reads lines, current_user is that user.
OwnerIsCurrent == Reads /\ Top.owner # 0 => current_user = Top.owner

LoginTyped ==
  /\ current_user \in Users /\ user_type \in {"customer", "seller"}
  /\ eof \in BOOLEAN /\ pc \in {"runs", "ended", "wild"}

Inv ==
  /\ StackInv /\ LoginTyped
  /\ OwnerIsCurrent /\ LoginsAgree /\ RequestsAreTheOwners

\* The three shapes of a step that goes on reading lines.
LEMMA Stays ==
  ASSUME Inv, UNCHANGED <<stack, pc>>,
         current_user' = current_user \/ (Top.owner = 0 /\ current_user' \in {0, JunkId})
  PROVE  StackInv' /\ OwnerIsCurrent' /\ LoginsAgree'
  <1>1. UNCHANGED <<Top, Reads>>
    BY DEF Top, Reads
  <1> QED
    BY <1>1 DEF Inv, StackInv, OwnerIsCurrent, LoginsAgree

LEMMA Enters ==
  ASSUME Inv, NEW menu, Fits([Top EXCEPT !.menu = menu]),
         stack' = Update([Top EXCEPT !.menu = menu]), UNCHANGED <<current_user, pc>>
  PROVE  StackInv' /\ OwnerIsCurrent' /\ LoginsAgree'
  <1> DEFINE s == [Top EXCEPT !.menu = menu]
  <1>0. StackInv
    BY DEF Inv
  <1>1. s.owner = Top.owner /\ s.by = Top.by /\ s.exit = Top.exit
    BY <1>0, TopFits DEF Fits, Sess
  <1> HIDE DEF s
  <1>2. /\ StackInv' /\ Top' = s /\ Len(stack') = Len(stack)
        /\ \A k \in 1 .. Len(stack) - 1 : stack'[k] = stack[k]
    BY <1>0, <1>1, ReplaceTop DEF s
  <1>3. Reads' <=> Reads
    BY <1>1, <1>2 DEF Reads
  <1>4. Top.by = "logout" => Len(stack) - 1 \in 1 .. Len(stack) - 1
    BY <1>0, TopFits, ClientAssumption DEF StackInv, Top
  <1>5. OwnerIsCurrent'
    BY <1>1, <1>2, <1>3 DEF Inv, OwnerIsCurrent
  <1>6. LoginsAgree'
    BY <1>1, <1>2, <1>3, <1>4 DEF Inv, LoginsAgree
  <1> QED
    BY <1>2, <1>5, <1>6

LEMMA Pushes ==
  ASSUME Inv, Len(stack) < MaxDepth, NEW s, Fits(s), stack' = Append(Exited, s),
         \/ current_user' = s.owner
         \/ /\ s.owner = 0 /\ s.by = "logout" /\ current_user' = current_user
            /\ Reads /\ Top.owner # 0
  PROVE  StackInv' /\ OwnerIsCurrent' /\ LoginsAgree'
  <1>0. StackInv
    BY DEF Inv
  <1>1. /\ StackInv' /\ Top' = s /\ Len(stack') = Len(stack) + 1
        /\ stack'[Len(stack)].owner = Top.owner
    BY <1>0, Push
  <1>2. Len(stack') - 1 = Len(stack)
    BY <1>0, <1>1, TopFits
  <1>3. OwnerIsCurrent'
    BY <1>1 DEF OwnerIsCurrent
  <1>4. LoginsAgree'
    BY <1>1, <1>2 DEF Inv, OwnerIsCurrent, LoginsAgree
  <1> QED
    BY <1>1, <1>3, <1>4

\* A session that was told to exit reads nothing.
LEMMA Exits ==
  ASSUME Inv, stack' = Exited
  PROVE  StackInv' /\ OwnerIsCurrent' /\ LoginsAgree'
  <1> DEFINE s == [Top EXCEPT !.exit = TRUE]
  <1>0. StackInv
    BY DEF Inv
  <1>1. Fits(s) /\ s.by = Top.by /\ s.exit
    BY <1>0, TopFits DEF Fits, Sess
  <1>2. stack' = Update(s)
    BY DEF Exited
  <1> HIDE DEF s
  <1>3. StackInv' /\ Top' = s
    BY <1>0, <1>1, <1>2, ReplaceTop
  <1> QED
    BY <1>1, <1>3 DEF Reads, OwnerIsCurrent, LoginsAgree

-----------------------------------------------------------------------------
(* Requests *)

LEMMA Asks ==
  ASSUME Inv, Reads, NEW what, NEW user, Feeds(what, user),
         \/ Top.owner = 0 \/ what = Does("main", "search") \/ user = current_user
  PROVE  RequestsAreTheOwners'
  BY DEF Inv, OwnerIsCurrent, Feeds, RequestsAreTheOwners

LEMMA AsksNothing ==
  ASSUME Inv, UNCHANGED fed
  PROVE  RequestsAreTheOwners'
  BY DEF Inv, RequestsAreTheOwners

-----------------------------------------------------------------------------
(* Lines *)

LEMMA LoginInv ==
  ASSUME Inv, Reads, eof \in BOOLEAN, Top.owner = 0, Login
  PROVE  Inv'
  <1>1. RequestsAreTheOwners'
    BY Asks DEF Login
  <1>2. eof' \in BOOLEAN
    BY DEF Login, MayEnd
  <1>3. CASE UNCHANGED <<stack, login, pc>>
    BY <1>1, <1>2, <1>3, Stays DEF Inv, LoginTyped, login
  <1>4. ASSUME NEW user \in Accounts, Len(stack) < MaxDepth, LoggedIn(user), UNCHANGED pc
        PROVE  Inv'
    <2> DEFINE s == UserSession(user, Types(user) = "seller")
    <2>1. /\ Fits(s) /\ s.owner = user
      BY ClientAssumption DEF UserSession, Session, Types, Fits, Sess
    <2> HIDE DEF s
    <2>2. LoginTyped'
      BY <1>2, <1>4 DEF LoggedIn, Types, LoginTyped, Users, Inv
    <2>3. CASE eof'
      BY <1>1, <1>4, <2>2, <2>3, Exits DEF LoggedIn, Inv
    <2>4. CASE ~eof'
      BY <1>1, <1>4, <2>1, <2>2, <2>4, Pushes DEF LoggedIn, Inv, s
    <2> QED
      BY <2>3, <2>4
  <1>5. CASE LoginOnJunk
    <2>1. LoginTyped'
      BY <1>2, <1>5 DEF LoginOnJunk, LoginTyped, Users, Inv
    <2>2. CASE stack' = Exited
      BY <1>1, <2>1, <2>2, Exits DEF Inv
    <2>3. CASE pc' = "wild" /\ UNCHANGED <<stack, current_user>>
      BY <1>1, <2>1, <2>3 DEF Inv, StackInv, OwnerIsCurrent, LoginsAgree, Reads
    <2> QED
      BY <1>5, <2>2, <2>3 DEF LoginOnJunk
  <1> QED
    BY <1>3, <1>4, <1>5 DEF Login

LEMMA SignupInv ==
  ASSUME Inv, Reads, eof \in BOOLEAN, Top.owner = 0, Signup
  PROVE  Inv'
  <1>1. RequestsAreTheOwners'
    BY Asks, AsksNothing DEF Signup
  <1>2. current_user' = current_user \/ current_user' \in {0, JunkId}
    BY DEF Signup, SignupAnswers
  <1>3. LoginTyped'
    BY <1>2 DEF Signup, MayEnd, LoginTyped, Users, Inv
  <1> QED
    BY <1>1, <1>2, <1>3, Stays DEF Inv, Signup

LEMMA LogoutInv ==
  ASSUME Inv, Reads, Top.owner # 0, Logout
  PROVE  Inv'
  <1> DEFINE s == MainSession("logout")
  <1>1. Fits(s) /\ s.owner = 0 /\ s.by = "logout"
    BY DEF MainSession, Session, Fits, Sess
  <1> HIDE DEF s
  <1>2. stack' = Append(Exited, s) /\ Len(stack) < MaxDepth /\ current_user' = current_user
    BY DEF Logout, login, s
  <1>3. StackInv' /\ OwnerIsCurrent' /\ LoginsAgree'
    BY <1>1, <1>2, Pushes
  <1>4. LoginTyped' /\ RequestsAreTheOwners'
    BY AsksNothing DEF Logout, login, LoginTyped, Inv
  <1> QED
    BY <1>3, <1>4 DEF Inv

LEMMA RequestInv ==
  ASSUME Inv, Reads, eof \in BOOLEAN, NEW what, Request(what),
         what.name = "search" => Top.owner = 0 \/ what = Does("main", "search")
  PROVE  Inv'
  <1>1. RequestsAreTheOwners'
    BY Asks, AsksNothing DEF Request
  <1>2. LoginTyped'
    BY DEF Request, MayEnd, login, LoginTyped, Inv
  <1> QED
    BY <1>1, <1>2, Stays DEF Inv, Request, login

LEMMA EnterInv ==
  ASSUME Inv, NEW menu \in Menus, EnterMenu(menu),
         menu = "cpp-emarket" <=> Top.menu = "cpp-emarket",
         menu = "seller" => Top.seller \/ Top.menu = "seller"
  PROVE  Inv'
  <1>1. Fits([Top EXCEPT !.menu = menu])
    BY TopFits DEF Inv, Fits, Sess, Menus
  <1>2. LoginTyped' /\ RequestsAreTheOwners'
    BY AsksNothing DEF EnterMenu, login, LoginTyped, Inv
  <1> QED
    BY <1>1, <1>2, Enters DEF EnterMenu, login, Inv

LEMMA LineInv ==
  ASSUME Inv, NEW words, FeedLine(words)
  PROVE  Inv'
  <1> DEFINE found == Scan(Top.menu, Top.seller, words)
  <1>1. /\ Reads /\ eof \in BOOLEAN
        /\ Top.menu \in Menus /\ Top.seller \in BOOLEAN
        /\ Top.owner = 0 <=> Top.menu = "cpp-emarket"
    BY TopFits DEF Inv, LoginTyped, FeedLine, Fits, Sess, Menus
  <1>2. CASE stack' = Exited /\ UNCHANGED <<login, eof, fed, pc>>
    BY <1>2, Exits, AsksNothing DEF login, Inv, LoginTyped
  <1>3. CASE UNCHANGED vars
    BY <1>3, Stays, AsksNothing DEF vars, login, Inv, LoginTyped
  <1>4. ASSUME NEW what \in found,
               CASE what.name = "enter" -> EnterMenu(what.menu)
                 [] what.name = "login" -> Login
                 [] what.name = "register" -> Signup
                 [] what.name = "logout" -> Logout
                 [] OTHER -> Request(what)
        PROVE  Inv'
    <2>1. PICK m \in Menus : /\ m = "cpp-emarket" <=> Top.menu = "cpp-emarket"
                             /\ m = "seller" => Top.seller \/ Top.menu = "seller"
                             /\ m = "cpp-emarket" => what # Enter(m)
                             /\ Reaches(m, what)
      BY <1>1, <1>4, ScanReaches
    <2>2. CASE what = Enter(m)
      <3>1. what.name = "enter" /\ what.menu = m
        BY <2>2 DEF Enter
      <3>2. EnterMenu(m)
        BY <1>4, <3>1
      <3> QED
        BY <2>1, <3>2, EnterInv
    <2>3. ASSUME NEW c \in CommandsOf(m), what = Does(m, c.name)
          PROVE  Inv'
      <3>1. what.name = c.name /\ what.menu = m
        BY <2>3 DEF Does
      <3>2. CASE what.name = "login"
        BY <1>1, <1>4, <2>1, <2>3, <3>1, <3>2, WhereCommandsAre, LoginInv
      <3>3. CASE what.name = "register"
        BY <1>1, <1>4, <2>1, <2>3, <3>1, <3>3, WhereCommandsAre, SignupInv
      <3>4. CASE what.name = "logout"
        BY <1>1, <1>4, <2>1, <2>3, <3>1, <3>4, WhereCommandsAre, LogoutInv
      <3>5. CASE what.name \notin {"login", "register", "logout"}
        <4>1. Request(what)
          BY <1>4, <2>3, <3>1, <3>5, WhereCommandsAre
        <4>2. what.name = "search" => Top.owner = 0 \/ what = Does("main", "search")
          BY <1>1, <2>1, <2>3, <3>1, WhereCommandsAre
        <4> QED
          BY <1>1, <4>1, <4>2, RequestInv
      <3> QED
        BY <3>2, <3>3, <3>4, <3>5
    <2> QED
      BY <2>1, <2>2, <2>3 DEF Reaches
  <1> QED
    BY <1>2, <1>3, <1>4 DEF FeedLine

LEMMA LoopEndsInv ==
  ASSUME Inv, LoopEnds
  PROVE  Inv'
  <1>1. LoginTyped' /\ RequestsAreTheOwners'
    BY AsksNothing DEF LoopEnds, Inv, LoginTyped, Users
  <1>2. CASE Len(stack) = 1
    BY <1>1, <1>2 DEF LoopEnds, Inv, StackInv, OwnerIsCurrent, LoginsAgree, Reads
  <1>3. CASE Len(stack) # 1
    <2>1. StackInv' /\ Top'.exit
      BY <1>3, Pop DEF LoopEnds, Inv
    <2> QED
      BY <1>1, <2>1 DEF Inv, OwnerIsCurrent, LoginsAgree, Reads
  <1> QED
    BY <1>2, <1>3

LEMMA InitInv == Init => Inv
  <1> SUFFICES ASSUME Init
               PROVE  Inv
    OBVIOUS
  <1> DEFINE s == MainSession("start")
  <1>1. Fits(s) /\ s.owner = 0 /\ s.by = "start"
    BY DEF MainSession, Session, Fits, Sess
  <1> HIDE DEF s
  <1>2. stack = <<s>>
    BY DEF Init, s
  <1>3. StackInv /\ Top = s
    BY <1>1, <1>2, ClientAssumption DEF StackInv, Fits, Top
  <1>4. LoginTyped /\ RequestsAreTheOwners /\ current_user = 0
    BY DEF Init, Nothing, LoginTyped, Users, RequestsAreTheOwners
  <1> QED
    BY <1>1, <1>3, <1>4 DEF Inv, OwnerIsCurrent, LoginsAgree

LEMMA NextInv == Inv /\ [Next]_vars => Inv'
  <1> SUFFICES ASSUME Inv, [Next]_vars
               PROVE  Inv'
    OBVIOUS
  <1>1. ASSUME NEW words \in Lines, FeedLine(words)
        PROVE  Inv'
    BY <1>1, LineInv
  <1>2. CASE InputEnds
    BY <1>2, Stays, AsksNothing DEF InputEnds, login, Inv, LoginTyped
  <1>3. CASE ExitAtEof
    BY <1>3, Exits, AsksNothing DEF ExitAtEof, login, Inv, LoginTyped
  <1>4. CASE LoopEnds
    BY <1>4, LoopEndsInv
  <1>5. CASE UNCHANGED vars
    BY <1>5, Stays, AsksNothing DEF vars, login, Inv, LoginTyped
  <1> QED
    BY <1>1, <1>2, <1>3, <1>4, <1>5 DEF Next

THEOREM AlwaysInv == Spec => []Inv
  BY InitInv, NextInv, PTL DEF Spec

-----------------------------------------------------------------------------
\* Types, and every menu is of its session's tree (gen_main_menu, gen_user_menu).
THEOREM TypeCorrect == Spec => []TypeOK
  <1>1. Inv => TypeOK
    BY DEF Inv, StackInv, LoginTyped, Users, TypeOK
  <1> QED
    BY <1>1, AlwaysInv, PTL

\* Whatever is nested, a request from a user's menu carries that user's id
\* (client_session::login sets current_user before the menu reads a line).
THEOREM RequestsOwned == Spec => []RequestsAreTheOwners
  <1>1. Inv => RequestsAreTheOwners
    BY DEF Inv
  <1> QED
    BY <1>1, AlwaysInv, PTL

\* The seller menu is only ever that of a seller (gen_user_menu).
THEOREM SellersOnly == Spec => []SellerMenuIsASellers
  <1>1. Inv => SellerMenuIsASellers
    BY DEF Inv, StackInv, SellerMenuIsASellers
  <1> QED
    BY <1>1, AlwaysInv, PTL

\* A loop whose session was freed never reads a line (session->Exit() comes before
\* the session is replaced in login and logout).
THEOREM FreedUnread == Spec => []FreedNeverRead
  <1>1. Inv => FreedNeverRead
    BY DEF Inv, StackInv, FreedNeverRead
  <1> QED
    BY <1>1, AlwaysInv, PTL

\* The login shown and the login used differ only after a logout or an answer that
\* never came (client_session::logout, signup).
THEOREM LoginShown == Spec => []LoginsAgree
  <1>1. Inv => LoginsAgree
    BY DEF Inv
  <1> QED
    BY <1>1, AlwaysInv, PTL
=============================================================================
