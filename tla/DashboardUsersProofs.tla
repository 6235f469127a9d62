------------------------- MODULE DashboardUsersProofs -------------------------
(***************************************************************************)
(* Proofs about DashboardUsers for every set of accounts and browsers, all *)
(* rules of locking and every bound.                                       *)
(***************************************************************************)
EXTENDS DashboardUsers, FiniteSetTheorems, TLAPS

(***************************************************************************)
(* The states: what an account, a session and a request may be.            *)
(***************************************************************************)
Fields == [there : BOOLEAN, admin : BOOLEAN, active : BOOLEAN, word : Nat, strong : BOOLEAN]
Rows   == {r \in Fields : r.active => r.there}

Logins  == [op : {"login"}, target : Accounts]
Entries == [op : {"enter"}, target : Accounts, word : Nat, weak : BOOLEAN]
Pages   == [op : PageOps, target : Accounts, me : Rows, was : Rows, row : Rows, ask : BOOLEAN,
            saved : BOOLEAN]

TypeOK ==
  /\ account \in [Accounts -> Rows]
  /\ must \in [Accounts -> BOOLEAN] /\ strict \in BOOLEAN
  /\ failures \in [Accounts -> Seq(Nat)]
  /\ session \in [Browsers -> [who : Accounts \cup {NONE}, word : Nat, weak : BOOLEAN]]
  /\ request \in [Browsers -> {NoRequest} \cup Logins \cup Entries \cup Pages]
  /\ changes \in Nat /\ crossed \in BOOLEAN /\ overtaken \in BOOLEAN

(***************************************************************************)
(* An admin remains: what a page was let through with.                     *)
(***************************************************************************)
Good(row) == row.there /\ row.admin /\ row.active

\* A page that may take an admin away was asked for by another one, who stays one.
Asked(b) ==
  LET r == request[b]
      who == session[b].who
  IN Changing(b) /\ ~r.saved =>
       /\ who \in Accounts
       /\ r.op = "account" => r.target = who /\ (Good(r.was) => Good(r.row))
       /\ r.op \in {"edit", "password", "delete"} => Good(r.me) /\ (r.target = who => Good(r.row))

AdminInv == TypeOK /\ AnAdminRemains /\ \A b \in Browsers : Asked(b)

(***************************************************************************)
(* The lock: the failures, and the logins that are past the check.         *)
(***************************************************************************)
Trying(a) == {b \in Browsers : request[b].op = "login" /\ request[b].target = a}

LockInv == TypeOK /\ \A a \in Accounts :
             Len(failures[a]) + Cardinality(Trying(a)) < LOCK_AFTER + Cardinality(Browsers)

(***************************************************************************)
(* Weak passwords: every new password is a new word.                       *)
(***************************************************************************)
NewWords == {"account", "password", "add"}

Bounded ==
  /\ \A a \in Accounts : account[a].word <= changes
  /\ \A b \in Browsers :
       /\ session[b].word <= changes
       /\ request[b].op = "enter" => request[b].word <= changes
       /\ Changing(b) => request[b].was.word <= changes /\ request[b].row.word <= changes

\* The word of a page that is not saved yet is nobody else's.
Fresh(b) ==
  LET word == request[b].row.word
  IN request[b].op \in NewWords /\ ~request[b].saved =>
       /\ word # 0
       /\ \A a \in Accounts : account[a].word # word
       /\ \A other \in Browsers :
            /\ session[other].word # word
            /\ request[other].op = "enter" => request[other].word # word
            /\ Changing(other) /\ other # b => request[other].row.word # word

\* What a page writes besides: an edit keeps the password, a deletion leaves nothing.
Written(b) ==
  LET r == request[b]
  IN /\ r.op = "edit" => r.row.word = r.was.word /\ r.row.there /\ r.was.there
     /\ r.op = "delete" => r.row = Gone
     /\ r.op \in {"edit", "delete"} => ~r.saved

\* Somebody is logged in, or about to be, with a password of a that fell short of the rules.
SessionWeak(b, a) == session[b].who = a /\ session[b].weak /\ session[b].word = account[a].word
EntryWeak(b, a)   == /\ request[b].op = "enter" /\ request[b].target = a
                     /\ request[b].weak /\ request[b].word = account[a].word
HasWeak(a) == account[a].there /\ \E b \in Browsers : SessionWeak(b, a) \/ EntryWeak(b, a)

Flagged == /\ \A a \in Accounts : HasWeak(a) => must[a]
           /\ \A b \in Browsers : Changing(b) /\ request[b].saved => ~HasWeak(request[b].target)

WeakInv == /\ TypeOK /\ Bounded
           /\ \A b \in Browsers : Fresh(b) /\ Written(b)
           /\ crossed \/ overtaken \/ Flagged

-----------------------------------------------------------------------------
USE UsersAssumption

(***************************************************************************)
(* Type correctness.                                                       *)
(***************************************************************************)
\* A request is what its operation says.
LEMMA Kinds ==
  ASSUME TypeOK, NEW b \in Browsers
  PROVE  /\ request[b] \in {NoRequest} \cup Logins \cup Entries \cup Pages
         /\ Changing(b) <=> request[b] \in Pages
         /\ Logging(b) <=> request[b] \in Logins
         /\ request[b].op = "enter" <=> request[b] \in Entries
         /\ request[b] = NoRequest => ~Changing(b) /\ ~Logging(b) /\ request[b].op # "enter"
BY DEF TypeOK, Changing, Logging, Logins, Entries, Pages, PageOps, NoRequest

LEMMA NewRow ==
  ASSUME NEW row \in Rows, NEW strong \in BOOLEAN, changes \in Nat
  PROVE  /\ WithWord(row, strong) \in Rows
         /\ WithWord(row, strong).word = changes + 1
         /\ WithWord(row, strong).there = row.there
         /\ Good(WithWord(row, strong)) <=> Good(row)
<1> DEFINE new == WithWord(row, strong)
<1>1. row \in Fields /\ (row.active => row.there) /\ changes + 1 \in Nat
  BY DEF Rows
<1>2. new \in Fields
  BY <1>1 DEF Fields, WithWord
<1>3. new.word = changes + 1 /\ new.there = row.there /\ new.admin = row.admin
      /\ new.active = row.active
  BY <1>1 DEF Fields, WithWord
<1> QED
  BY <1>1, <1>2, <1>3 DEF Rows, Good

LEMMA Aging ==
  ASSUME NEW ages \in Seq(Nat)
  PROVE  Older(ages) \in Seq(Nat) /\ Len(Older(ages)) <= Len(ages)
<1>1. IsFiniteSet(1..Len(ages)) /\ Cardinality(1..Len(ages)) = Len(ages)
  <2>1. Len(ages) \in Nat /\ 1 \in Int /\ Len(ages) \in Int
    OBVIOUS
  <2>2. IsFiniteSet(1..Len(ages))
        /\ Cardinality(1..Len(ages)) = IF 1 > Len(ages) THEN 0 ELSE Len(ages) - 1 + 1
    BY <2>1, FS_Interval, Zenon
  <2> QED
    BY <2>1, <2>2
<1>2. Recent(ages) \in SUBSET (1..Len(ages))
  BY DEF Recent
<1>3. Cardinality(Recent(ages)) \in Nat /\ Cardinality(Recent(ages)) <= Len(ages)
  BY <1>1, <1>2, FS_Subset, FS_CardinalityType
<1> QED
  BY <1>3 DEF Older

\* What every page that changes an account begins with.
LEMMA TypedBegins ==
  ASSUME TypeOK, NEW b \in Browsers, NEW op \in PageOps, NEW a \in Accounts, NEW row \in Rows,
         NEW ask \in BOOLEAN, session[b].who \in Accounts, Begins(b, op, a, row, ask)
  PROVE  TypeOK'
<1> DEFINE page == [op |-> op, target |-> a, me |-> account[session[b].who], was |-> account[a],
                    row |-> row, ask |-> ask, saved |-> FALSE]
<1>1. page \in Pages
  BY DEF Pages, TypeOK
<1>2. request' = [request EXCEPT ![b] = page] /\ changes' \in Nat
  BY DEF Begins, TypeOK, OneChange
<1>3. UNCHANGED <<account, must, strict, failures, session, crossed, overtaken>>
  BY DEF Begins, Gaps
<1> QED
  BY <1>1, <1>2, <1>3 DEF TypeOK

\* A browser that works has an account that may log in.
LEMMA Worker ==
  ASSUME TypeOK, NEW b \in Browsers, LoggedIn(b)
  PROVE  /\ request[b] = NoRequest /\ session[b].who \in Accounts
         /\ account[session[b].who].there /\ account[session[b].who].active
BY DEF LoggedIn, Known, TypeOK, Rows

LEMMA InitTyped == Init => TypeOK
<1>1. ASSUME NEW a \in Accounts
      PROVE  [there |-> TRUE, admin |-> TRUE, active |-> TRUE, word |-> 0, strong |-> a = Seed] \in Rows
  <2>1. (a = Seed) \in BOOLEAN
    OBVIOUS
  <2> QED
    BY <2>1 DEF Rows, Fields
<1> QED
  <2> SUFFICES ASSUME Init PROVE TypeOK
    OBVIOUS
  <2>1. account \in [Accounts -> Rows]
    BY <1>1 DEF Init
  <2>2. session \in [Browsers -> [who : Accounts \cup {NONE}, word : Nat, weak : BOOLEAN]]
    BY DEF Init, NoSession
  <2>3. request \in [Browsers -> {NoRequest} \cup Logins \cup Entries \cup Pages]
    BY DEF Init
  <2>4. must \in [Accounts -> BOOLEAN]
    BY DEF Init
  <2>5. failures \in [Accounts -> Seq(Nat)]
    <3>1. <<>> \in Seq(Nat)
      OBVIOUS
    <3> QED
      BY <3>1 DEF Init
  <2>6. strict \in BOOLEAN /\ changes \in Nat /\ crossed \in BOOLEAN /\ overtaken \in BOOLEAN
    BY DEF Init
  <2> QED
    BY <2>1, <2>2, <2>3, <2>4, <2>5, <2>6 DEF TypeOK

LEMMA TypedLogin ==
  ASSUME TypeOK, NEW b \in Browsers,
         \/ \E a \in Accounts : LoginChecks(b, a)
         \/ LoginFails(b) \/ LoginPasses(b) \/ LoginEnters(b)
         \/ Logout(b) \/ PolicyChanges(b)
  PROVE  TypeOK'
<1>1. ASSUME NEW a \in Accounts, LoginChecks(b, a) PROVE TypeOK'
  <2>1. [op |-> "login", target |-> a] \in Logins
    BY DEF Logins
  <2>2. request' \in [Browsers -> {NoRequest} \cup Logins \cup Entries \cup Pages]
    BY <1>1, <2>1 DEF LoginChecks, TypeOK
  <2>3. UNCHANGED <<account, must, strict, failures, session, changes, crossed, overtaken>>
    BY <1>1 DEF LoginChecks, Refused, Gaps
  <2> QED
    BY <2>2, <2>3 DEF TypeOK
<1>2. CASE LoginFails(b)
  <2>1. request[b].target \in Accounts
    BY <1>2, Kinds DEF LoginFails, Logins
  <2>2. <<0>> \o failures[request[b].target] \in Seq(Nat)
    BY <2>1 DEF TypeOK
  <2>3. failures' \in [Accounts -> Seq(Nat)]
    BY <1>2, <2>1, <2>2 DEF LoginFails, TypeOK
  <2> QED
    BY <1>2, <2>3 DEF LoginFails, TypeOK, Gaps
<1>3. CASE LoginPasses(b)
  <2> DEFINE a == request[b].target
  <2>1. a \in Accounts
    BY <1>3, Kinds DEF LoginPasses, Logins
  <2>2. account[a].word \in Nat /\ MeetsRules(account[a].strong) \in BOOLEAN
    BY <2>1 DEF TypeOK, Rows, Fields, MeetsRules
  <2>3. [op |-> "enter", target |-> a, word |-> account[a].word,
         weak |-> ~MeetsRules(account[a].strong)] \in Entries
    BY <2>1, <2>2 DEF Entries
  <2>4. must' \in [Accounts -> BOOLEAN]
    BY <1>3, <2>1, <2>2 DEF LoginPasses, Outdated, TypeOK
  <2>5. overtaken' \in BOOLEAN
    BY <1>3, <2>1, <2>4 DEF LoginPasses, TypeOK, Flagging
  <2> QED
    BY <1>3, <2>3, <2>4, <2>5 DEF LoginPasses, TypeOK
<1>4. CASE LoginEnters(b)
  <2>1. request[b] \in Entries
    BY <1>4, Kinds DEF LoginEnters
  <2> DEFINE new == [who |-> request[b].target, word |-> request[b].word, weak |-> request[b].weak]
  <2>2. new \in [who : Accounts \cup {NONE}, word : Nat, weak : BOOLEAN]
    BY <2>1 DEF Entries
  <2>3. \/ UNCHANGED <<session, failures>>
        \/ /\ session' = [session EXCEPT ![b] = new]
           /\ failures' = [failures EXCEPT ![request[b].target] = <<>>]
    BY <1>4 DEF LoginEnters
  <2>4. <<>> \in Seq(Nat)
    OBVIOUS
  <2>5. session' \in [Browsers -> [who : Accounts \cup {NONE}, word : Nat, weak : BOOLEAN]]
    BY <2>2, <2>3 DEF TypeOK
  <2>6. failures' \in [Accounts -> Seq(Nat)]
    BY <2>3, <2>4 DEF TypeOK
  <2>7. request' \in [Browsers -> {NoRequest} \cup Logins \cup Entries \cup Pages]
    BY <1>4 DEF LoginEnters, TypeOK
  <2> QED
    BY <1>4, <2>5, <2>6, <2>7 DEF LoginEnters, TypeOK, Gaps
<1>5. CASE Logout(b)
  BY <1>5 DEF Logout, TypeOK, NoSession, Gaps
<1>6. CASE PolicyChanges(b)
  BY <1>6 DEF PolicyChanges, OneChange, TypeOK, Gaps
<1> QED
  BY <1>1, <1>2, <1>3, <1>4, <1>5, <1>6

\* The five pages, each as what it begins with.
LEMMA PageBegins ==
  ASSUME TypeOK, NEW b \in Browsers,
         \/ \E strong \in BOOLEAN : AccountPost(b, strong)
         \/ \E a \in Accounts, admin, active \in BOOLEAN : EditPost(b, a, admin, active)
         \/ \E a \in Accounts, strong, ask \in BOOLEAN : PasswordPost(b, a, strong, ask)
         \/ \E a \in Accounts, admin, strong, ask \in BOOLEAN : AddPost(b, a, admin, strong, ask)
         \/ \E a \in Accounts : DeletePost(b, a)
  PROVE  \E op \in PageOps, a \in Accounts, row \in Rows, ask \in BOOLEAN :
           LET who == session[b].who IN
           /\ LoggedIn(b) /\ Begins(b, op, a, row, ask)
           /\ op # "account" => account[who].admin
           /\ op # "add" => account[a].there
           /\ op = "account" => a = who
           /\ op \in NewWords => row.word = changes + 1 /\ row.there
           /\ op \in {"account", "password"} => (Good(account[a]) => Good(row))
           /\ op = "password" => a # who
           /\ op = "edit" => /\ row.word = account[a].word /\ row.there
                             /\ a = who => Good(row)
           /\ op = "delete" => row = Gone /\ a # who
<1> DEFINE who == session[b].who
<1>1. ASSUME NEW strong \in BOOLEAN, AccountPost(b, strong)
      PROVE  /\ LoggedIn(b) /\ who \in Accounts /\ WithWord(account[who], strong) \in Rows
             /\ Begins(b, "account", who, WithWord(account[who], strong), FALSE)
             /\ WithWord(account[who], strong).word = changes + 1
             /\ account[who].there /\ WithWord(account[who], strong).there
             /\ Good(account[who]) => Good(WithWord(account[who], strong))
  <2>1. LoggedIn(b) /\ Begins(b, "account", who, WithWord(account[who], strong), FALSE)
    BY <1>1 DEF AccountPost
  <2>2. who \in Accounts /\ account[who].there
    BY <2>1, Worker
  <2>3. account[who] \in Rows /\ changes \in Nat
    BY <2>2 DEF TypeOK
  <2> QED
    BY <2>1, <2>2, <2>3, NewRow
<1>2. ASSUME NEW a \in Accounts, NEW admin \in BOOLEAN, NEW active \in BOOLEAN,
             EditPost(b, a, admin, active)
      PROVE  LET row == [account[a] EXCEPT !.admin = admin, !.active = active] IN
             /\ LoggedIn(b) /\ account[who].admin /\ account[a].there
             /\ row \in Rows /\ Begins(b, "edit", a, row, FALSE)
             /\ row.word = account[a].word /\ row.there
             /\ a = who => Good(row)
  <2> DEFINE row == [account[a] EXCEPT !.admin = admin, !.active = active]
  <2>1. /\ LoggedIn(b) /\ account[who].admin /\ account[a].there
        /\ Begins(b, "edit", a, row, FALSE) /\ (a = who => admin /\ active)
    BY <1>2 DEF EditPost, IsAdmin, MayWork, LockoutError
  <2>2. account[a] \in Fields
    BY DEF TypeOK, Rows
  <2>3. /\ row \in Fields /\ row.word = account[a].word /\ row.there = account[a].there
        /\ row.admin = admin /\ row.active = active
    BY <2>2 DEF Fields
  <2>4. row \in Rows /\ row.there
    BY <2>1, <2>3 DEF Rows
  <2> QED
    BY <2>1, <2>3, <2>4 DEF Good
<1>3. ASSUME NEW a \in Accounts, NEW strong \in BOOLEAN, NEW ask \in BOOLEAN,
             PasswordPost(b, a, strong, ask)
      PROVE  LET row == WithWord(account[a], strong) IN
             /\ LoggedIn(b) /\ account[who].admin /\ account[a].there /\ a # who
             /\ row \in Rows /\ Begins(b, "password", a, row, ask)
             /\ row.word = changes + 1 /\ row.there
             /\ Good(account[a]) => Good(row)
  <2>1. account[a] \in Rows /\ changes \in Nat
    BY DEF TypeOK
  <2>2. /\ LoggedIn(b) /\ account[who].admin /\ account[a].there /\ a # who
        /\ Begins(b, "password", a, WithWord(account[a], strong), ask)
    BY <1>3 DEF PasswordPost, IsAdmin, MayWork
  <2> QED
    BY <2>1, <2>2, NewRow
<1>4. ASSUME NEW a \in Accounts, NEW admin \in BOOLEAN, NEW strong \in BOOLEAN, NEW ask \in BOOLEAN,
             AddPost(b, a, admin, strong, ask)
      PROVE  \E row \in Rows : /\ LoggedIn(b) /\ account[who].admin
                               /\ Begins(b, "add", a, row, ask)
                               /\ row.word = changes + 1 /\ row.there
  <2> DEFINE new == [there |-> TRUE, admin |-> admin, active |-> TRUE, word |-> 0, strong |-> FALSE]
  <2>1. new \in Rows /\ new.there
    BY DEF Rows, Fields
  <2>2. WithWord(new, strong) \in Rows /\ WithWord(new, strong).word = changes + 1
        /\ WithWord(new, strong).there
    BY <2>1, NewRow DEF TypeOK
  <2> QED
    BY <1>4, <2>2 DEF AddPost, IsAdmin, MayWork
<1>5. ASSUME NEW a \in Accounts, DeletePost(b, a)
      PROVE  /\ LoggedIn(b) /\ account[who].admin /\ account[a].there
             /\ Gone \in Rows /\ Begins(b, "delete", a, Gone, FALSE) /\ a # who
  BY <1>5 DEF DeletePost, IsAdmin, MayWork, LockoutError, Gone, Rows, Fields
<1>6. CASE \E strong \in BOOLEAN : AccountPost(b, strong)
  BY <1>1, <1>6 DEF PageOps, NewWords
<1>7. CASE \E a \in Accounts, admin, active \in BOOLEAN : EditPost(b, a, admin, active)
  <2>1. PICK a \in Accounts, admin \in BOOLEAN, active \in BOOLEAN : EditPost(b, a, admin, active)
    BY <1>7
  <2>2. "edit" \in PageOps /\ "edit" \notin NewWords
    BY DEF PageOps, NewWords
  <2> DEFINE row == [account[a] EXCEPT !.admin = admin, !.active = active]
  <2>3. /\ LoggedIn(b) /\ account[who].admin /\ account[a].there
        /\ row \in Rows /\ Begins(b, "edit", a, row, FALSE)
        /\ row.word = account[a].word /\ row.there
        /\ a = who => Good(row)
    BY <1>2, <2>1
  <2> HIDE DEF row
  <2> QED
    BY <2>2, <2>3
<1>8. CASE \E a \in Accounts, strong, ask \in BOOLEAN : PasswordPost(b, a, strong, ask)
  BY <1>3, <1>8 DEF PageOps, NewWords
<1>9. CASE \E a \in Accounts, admin, strong, ask \in BOOLEAN : AddPost(b, a, admin, strong, ask)
  BY <1>4, <1>9 DEF PageOps, NewWords
<1>10. CASE \E a \in Accounts : DeletePost(b, a)
  BY <1>5, <1>10 DEF PageOps, NewWords
<1> QED
  BY <1>6, <1>7, <1>8, <1>9, <1>10

LEMMA TypedPage ==
  ASSUME TypeOK, NEW b \in Browsers,
         \/ \E strong \in BOOLEAN : AccountPost(b, strong)
         \/ \E a \in Accounts, admin, active \in BOOLEAN : EditPost(b, a, admin, active)
         \/ \E a \in Accounts, strong, ask \in BOOLEAN : PasswordPost(b, a, strong, ask)
         \/ \E a \in Accounts, admin, strong, ask \in BOOLEAN : AddPost(b, a, admin, strong, ask)
         \/ \E a \in Accounts : DeletePost(b, a)
  PROVE  TypeOK'
<1>1. PICK op \in PageOps, a \in Accounts, row \in Rows, ask \in BOOLEAN :
        LoggedIn(b) /\ Begins(b, op, a, row, ask)
  BY PageBegins
<1> QED
  BY <1>1, TypedBegins, Worker

LEMMA TypedSaves == ASSUME TypeOK, NEW b \in Browsers, Saves(b) PROVE TypeOK'
<1> DEFINE r == request[b]
<1>1. r \in Pages
  BY Kinds DEF Saves
<1>2. r.target \in Accounts /\ r.row \in Rows /\ [r EXCEPT !.saved = TRUE] \in Pages
  BY <1>1 DEF Pages
<1>3. account' \in [Accounts -> Rows] /\ must' \in [Accounts -> BOOLEAN]
  BY <1>2 DEF Saves, TypeOK
<1>4. request' \in [Browsers -> {NoRequest} \cup Logins \cup Entries \cup Pages]
  BY <1>2 DEF Saves, TypeOK
<1>5. crossed' \in BOOLEAN
  BY DEF Saves, TypeOK, Stale
<1> QED
  BY <1>3, <1>4, <1>5 DEF Saves, TypeOK

LEMMA TypedFlags == ASSUME TypeOK, NEW b \in Browsers, Flags(b) PROVE TypeOK'
<1> DEFINE r == request[b]
<1>1. r \in Pages
  BY Kinds DEF Flags
<1>2. r.target \in Accounts /\ r.ask \in BOOLEAN /\ r.row.word \in Nat
  BY <1>1 DEF Pages, Rows, Fields
<1>3. must' \in [Accounts -> BOOLEAN]
  BY <1>2 DEF Flags, TypeOK
<1>4. session' \in [Browsers -> [who : Accounts \cup {NONE}, word : Nat, weak : BOOLEAN]]
  BY <1>2 DEF Flags, TypeOK
<1>5. request' \in [Browsers -> {NoRequest} \cup Logins \cup Entries \cup Pages]
  BY DEF Flags, TypeOK
<1> QED
  BY <1>3, <1>4, <1>5 DEF Flags, TypeOK, Gaps

LEMMA TypedRest == ASSUME TypeOK, Restart \/ Tick PROVE TypeOK'
<1>1. CASE Restart
  <2>1. changes' \in Nat
    BY <1>1 DEF Restart, OneChange, TypeOK
  <2>2. [there |-> TRUE, admin |-> TRUE, active |-> TRUE, word |-> changes', strong |-> TRUE] \in Rows
    BY <2>1 DEF Rows, Fields
  <2>3. account' \in [Accounts -> Rows]
    BY <1>1, <2>2 DEF Restart, TypeOK
  <2> QED
    BY <1>1, <2>1, <2>3 DEF Restart, TypeOK, Gaps
<1>2. CASE Tick
  <2>1. failures' \in [Accounts -> Seq(Nat)]
    BY <1>2, Aging DEF Tick, TypeOK
  <2> QED
    BY <1>2, <2>1 DEF Tick, TypeOK, Gaps
<1> QED
  BY <1>1, <1>2

LEMMA TypedNext == TypeOK /\ [Next]_vars => TypeOK'
<1> SUFFICES ASSUME TypeOK, [Next]_vars PROVE TypeOK'
  OBVIOUS
<1>1. ASSUME NEW b \in Browsers, Request(b) PROVE TypeOK'
  BY <1>1, TypedLogin, TypedPage, TypedSaves, TypedFlags DEF Request
<1>2. CASE UNCHANGED vars
  BY <1>2 DEF vars, TypeOK
<1> QED
  BY <1>1, <1>2, TypedRest DEF Next

\* Type correctness: every account, session and request is one of the kinds the code makes.
THEOREM Typed == Spec => []TypeOK
BY InitTyped, TypedNext, PTL DEF Spec

(***************************************************************************)
(* An admin remains.                                                       *)
(***************************************************************************)
LEMMA InitAdmin == Init => AdminInv
<1> SUFFICES ASSUME Init PROVE AdminInv
  OBVIOUS
<1>1. Good(account[Seed])
  BY DEF Init, Good
<1>2. ASSUME NEW b \in Browsers PROVE Asked(b)
  BY DEF Init, Asked, Changing, NoRequest, PageOps
<1> QED
  BY <1>1, <1>2, InitTyped DEF AdminInv, AnAdminRemains, Good

\* A step that leaves the accounts alone, and the request and session of b, keeps what b asked.
LEMMA SameAsked ==
  ASSUME NEW b \in Browsers, Asked(b), UNCHANGED <<request[b], session[b]>>
  PROVE  Asked(b)'
BY DEF Asked, Changing, Good

\* A request that is done, or that is no page, has asked nothing.
LEMMA NothingAsked ==
  ASSUME NEW b \in Browsers, request'[b].op \notin PageOps \/ request'[b].saved
  PROVE  Asked(b)'
BY DEF Asked, Changing

LEMMA AdminLogin ==
  ASSUME AdminInv, TypeOK', NEW b \in Browsers,
         \/ \E a \in Accounts : LoginChecks(b, a)
         \/ LoginFails(b) \/ LoginPasses(b) \/ LoginEnters(b)
         \/ Logout(b) \/ PolicyChanges(b)
  PROVE  AdminInv'
<1> USE DEF AdminInv
<1>1. account' = account /\ crossed' = crossed
  BY DEF LoginChecks, LoginFails, LoginPasses, LoginEnters, Logout, PolicyChanges, Gaps
<1>2. ASSUME NEW other \in Browsers, other # b PROVE Asked(other)'
  BY <1>2, SameAsked
     DEF LoginChecks, LoginFails, LoginPasses, LoginEnters, Logout, PolicyChanges, TypeOK
<1>3. Asked(b)'
  <2>1. CASE UNCHANGED <<request[b], session[b]>>
    BY <2>1, SameAsked
  <2>2. CASE request'[b].op \notin PageOps
    BY <2>2, NothingAsked
  <2>3. NONE \notin PageOps /\ "login" \notin PageOps /\ "enter" \notin PageOps
    BY DEF PageOps
  <2>4. CASE \E a \in Accounts : LoginChecks(b, a)
    BY <2>1, <2>2, <2>3, <2>4 DEF LoginChecks, TypeOK
  <2>5. CASE LoginFails(b) \/ LoginPasses(b) \/ LoginEnters(b)
    BY <2>2, <2>3, <2>5 DEF LoginFails, LoginPasses, LoginEnters, NoRequest, TypeOK
  <2>6. CASE Logout(b)
    BY <2>2, <2>3, <2>6 DEF Logout, NoRequest
  <2>7. CASE PolicyChanges(b)
    BY <2>1, <2>7 DEF PolicyChanges
  <2> QED
    BY <2>4, <2>5, <2>6, <2>7
<1> QED
  BY <1>1, <1>2, <1>3 DEF AnAdminRemains

LEMMA AdminPage ==
  ASSUME AdminInv, TypeOK', NEW b \in Browsers,
         \/ \E strong \in BOOLEAN : AccountPost(b, strong)
         \/ \E a \in Accounts, admin, active \in BOOLEAN : EditPost(b, a, admin, active)
         \/ \E a \in Accounts, strong, ask \in BOOLEAN : PasswordPost(b, a, strong, ask)
         \/ \E a \in Accounts, admin, strong, ask \in BOOLEAN : AddPost(b, a, admin, strong, ask)
         \/ \E a \in Accounts : DeletePost(b, a)
  PROVE  AdminInv'
<1> DEFINE who == session[b].who
<1>1. PICK op \in PageOps, a \in Accounts, row \in Rows, ask \in BOOLEAN :
        /\ LoggedIn(b) /\ Begins(b, op, a, row, ask)
        /\ op # "account" => account[who].admin
        /\ op = "account" => a = who
        /\ op \in {"account", "password"} => (Good(account[a]) => Good(row))
        /\ op = "password" => a # who
        /\ op = "edit" => (a = who => Good(row))
        /\ op = "delete" => a # who
  BY PageBegins DEF AdminInv
<1>2. who \in Accounts /\ account[who].there /\ account[who].active
  BY <1>1, Worker DEF AdminInv
<1>3. /\ request' = [request EXCEPT ![b] =
           [op |-> op, target |-> a, me |-> account[who], was |-> account[a], row |-> row,
            ask |-> ask, saved |-> FALSE]]
      /\ UNCHANGED <<account, session, crossed>>
  BY <1>1 DEF Begins, Gaps
<1>4. Asked(b)'
  <2>1. request'[b] = [op |-> op, target |-> a, me |-> account[who], was |-> account[a], row |-> row,
                       ask |-> ask, saved |-> FALSE]
    BY <1>3 DEF AdminInv, TypeOK
  <2> QED
    BY <1>1, <1>2, <1>3, <2>1 DEF Asked, Good
<1>5. ASSUME NEW other \in Browsers, other # b PROVE Asked(other)'
  BY <1>3, <1>5, SameAsked DEF AdminInv, TypeOK
<1> QED
  BY <1>3, <1>4, <1>5 DEF AdminInv, AnAdminRemains

LEMMA AdminSaves ==
  ASSUME AdminInv, TypeOK', NEW b \in Browsers, Saves(b)
  PROVE  AdminInv'
<1> DEFINE r == request[b]
           who == session[b].who
<1> USE DEF AdminInv
<1>1. r \in Pages /\ ~r.saved /\ Changing(b) /\ r.target \in Accounts /\ r.row \in Rows
  BY Kinds DEF Saves, Pages
<1>2. ASSUME NEW other \in Browsers PROVE Asked(other)'
  <2>1. CASE other # b
    BY <2>1, SameAsked DEF Saves, TypeOK
  <2>2. CASE other = b
    <3>1. request'[b] = NoRequest \/ request'[b] = [r EXCEPT !.saved = TRUE]
      BY DEF Saves, TypeOK
    <3>2. request'[b].op \notin PageOps \/ request'[b].saved
      BY <1>1, <3>1 DEF NoRequest, Pages
    <3> QED
      BY <2>2, <3>2, NothingAsked
  <2> QED
    BY <2>1, <2>2
<1>3. AnAdminRemains'
  <2> SUFFICES ASSUME ~crossed' PROVE \E a \in Accounts : Good(account'[a])
    BY DEF AnAdminRemains, Good
  <2>1. CASE r.op = "add" /\ account[r.target].there
    BY <2>1 DEF Saves, AnAdminRemains, Good
  <2>2. CASE ~(r.op = "add" /\ account[r.target].there)
    <3>1. account' = [account EXCEPT ![r.target] = r.row] /\ ~crossed /\ ~Stale(b)
      BY <2>2 DEF Saves
    <3>2. account[who] = r.me /\ account[r.target] = r.was
      BY <3>1 DEF Stale
    <3>3. who \in Accounts
      BY <1>1 DEF Asked
    <3>4. PICK a \in Accounts : Good(account[a])
      BY <3>1 DEF AnAdminRemains, Good
    <3>5. CASE r.op = "add"
      BY <2>2, <3>1, <3>4, <3>5 DEF Good, TypeOK
    <3>6. CASE r.op = "account"
      <4>1. r.target = who /\ (Good(r.was) => Good(r.row))
        BY <1>1, <3>6 DEF Asked
      <4> QED
        BY <1>1, <3>1, <3>2, <3>4, <4>1 DEF TypeOK
    <3>7. CASE r.op \in {"edit", "password", "delete"}
      <4>1. Good(r.me) /\ (r.target = who => Good(r.row))
        BY <1>1, <3>7 DEF Asked
      <4> QED
        BY <1>1, <3>1, <3>2, <3>3, <4>1 DEF TypeOK
    <3> QED
      BY <1>1, <3>5, <3>6, <3>7 DEF Pages, PageOps
  <2> QED
    BY <2>1, <2>2
<1> QED
  BY <1>2, <1>3

LEMMA AdminFlags ==
  ASSUME AdminInv, TypeOK', NEW b \in Browsers, Flags(b)
  PROVE  AdminInv'
<1> USE DEF AdminInv
<1>1. UNCHANGED <<account, crossed>>
  BY DEF Flags, Gaps
<1>2. ASSUME NEW other \in Browsers, other # b PROVE Asked(other)'
  BY <1>2, SameAsked DEF Flags, TypeOK
<1>3. Asked(b)'
  BY NothingAsked DEF Flags, NoRequest, PageOps, TypeOK
<1> QED
  BY <1>1, <1>2, <1>3 DEF AnAdminRemains

LEMMA AdminRest == ASSUME AdminInv, TypeOK', Restart \/ Tick PROVE AdminInv'
<1> USE DEF AdminInv
<1>1. CASE Restart
  <2>1. \A b \in Browsers : Asked(b)'
    BY <1>1, NothingAsked DEF Restart, NoRequest, PageOps
  <2>2. AnAdminRemains'
    BY <1>1 DEF Restart, AnAdminRemains, Gaps, TypeOK
  <2> QED
    BY <2>1, <2>2
<1>2. CASE Tick
  BY <1>2, SameAsked DEF Tick, AnAdminRemains, Gaps
<1> QED
  BY <1>1, <1>2

LEMMA AdminNext == AdminInv /\ [Next]_vars => AdminInv'
<1> SUFFICES ASSUME AdminInv, [Next]_vars PROVE AdminInv'
  OBVIOUS
<1>1. TypeOK'
  BY TypedNext DEF AdminInv
<1>2. ASSUME NEW b \in Browsers, Request(b) PROVE AdminInv'
  BY <1>1, <1>2, AdminLogin, AdminPage, AdminSaves, AdminFlags DEF Request
<1>3. CASE UNCHANGED vars
  BY <1>1, <1>3, SameAsked DEF vars, AdminInv, AnAdminRemains
<1> QED
  BY <1>1, <1>2, <1>3, AdminRest DEF Next

\* There is always an admin who can log in, unless a page has written over a row that changed after it
\* was read (_lockout_error()).
THEOREM AdminRemains == Spec => []AnAdminRemains
<1>1. AdminInv => AnAdminRemains
  BY DEF AdminInv
<1> QED
  BY <1>1, InitAdmin, AdminNext, PTL DEF Spec

(***************************************************************************)
(* The lock holds.                                                         *)
(***************************************************************************)
LEMMA TryingCount ==
  ASSUME NEW a \in Accounts
  PROVE  /\ IsFiniteSet(Trying(a))
         /\ Cardinality(Trying(a)) \in Nat /\ Cardinality(Browsers) \in Nat
         /\ Cardinality(Trying(a)) <= Cardinality(Browsers)
<1>1. Trying(a) \in SUBSET Browsers
  BY DEF Trying
<1> QED
  BY <1>1, FS_Subset, FS_CardinalityType

\* Fewer failures, and no login more past the check, keep the bound.
LEMMA FewerHold ==
  ASSUME LockInv, NEW a \in Accounts, Len(failures'[a]) \in Nat, Len(failures'[a]) <= Len(failures[a]),
         Trying(a)' \subseteq Trying(a)
  PROVE  (Len(failures[a]) + Cardinality(Trying(a)) < LOCK_AFTER + Cardinality(Browsers))'
<1>1. Cardinality(Trying(a)') \in Nat /\ Cardinality(Trying(a)') <= Cardinality(Trying(a))
  BY TryingCount, FS_Subset, FS_CardinalityType
<1>2. Len(failures[a]) \in Nat /\ LOCK_AFTER \in Nat
  BY DEF LockInv, TypeOK
<1>3. Len(failures[a]) + Cardinality(Trying(a)) < LOCK_AFTER + Cardinality(Browsers)
  BY DEF LockInv
<1> QED
  BY <1>1, <1>2, <1>3, TryingCount

\* A request that becomes something else than a login adds none.
LEMMA NoMoreTrying ==
  ASSUME NEW b \in Browsers, request'[b].op # "login",
         \A other \in Browsers : other # b => request'[other] = request[other], NEW a \in Accounts
  PROVE  Trying(a)' \subseteq Trying(a)
BY DEF Trying

LEMMA InitLock == Init => LockInv
<1> SUFFICES ASSUME Init PROVE LockInv
  OBVIOUS
<1>1. ASSUME NEW a \in Accounts PROVE Trying(a) = {} /\ Len(failures[a]) = 0
  BY <1>1 DEF Init, Trying, NoRequest
<1>2. LOCK_AFTER \in Nat /\ LOCK_AFTER > 0 /\ Cardinality(Browsers) \in Nat
  BY FS_CardinalityType
<1> QED
  <2> SUFFICES ASSUME NEW a \in Accounts
               PROVE  Len(failures[a]) + Cardinality(Trying(a)) < LOCK_AFTER + Cardinality(Browsers)
    BY InitTyped DEF LockInv
  <2>1. Cardinality(Trying(a)) = 0
    BY <1>1, FS_EmptySet
  <2> QED
    BY <1>1, <1>2, <2>1

\* A login passes the check below the limit: with it, at most one per browser is past it.
LEMMA LockChecks ==
  ASSUME LockInv, NEW b \in Browsers, NEW a \in Accounts, LoginChecks(b, a), NEW x \in Accounts
  PROVE  (Len(failures[x]) + Cardinality(Trying(x)) < LOCK_AFTER + Cardinality(Browsers))'
<1>1. failures' = failures /\ Len(failures[x]) \in Nat /\ LOCK_AFTER \in Nat
  BY DEF LoginChecks, Refused, LockInv, TypeOK
<1>2. CASE x = a /\ ~Locked(a)
  <2>1. Len(failures[a]) < LOCK_AFTER
    BY <1>1, <1>2 DEF Locked
  <2>2. Trying(a)' \in SUBSET Browsers
    BY DEF Trying
  <2>3. Cardinality(Trying(a)') \in Nat /\ Cardinality(Trying(a)') <= Cardinality(Browsers)
    BY <2>2, FS_Subset, FS_CardinalityType
  <2> QED
    BY <1>1, <1>2, <2>1, <2>3, TryingCount
<1>3. CASE x # a \/ Locked(a)
  <2>1. Trying(x)' \subseteq Trying(x)
    <3>1. CASE request' = request
      BY <3>1 DEF Trying
    <3>2. CASE x # a /\ request' = [request EXCEPT ![b] = [op |-> "login", target |-> a]]
      <4>1. /\ request'[b] = [op |-> "login", target |-> a]
            /\ \A other \in Browsers : other # b => request'[other] = request[other]
        BY <3>2 DEF LockInv, TypeOK
      <4> QED
        BY <3>2, <4>1 DEF Trying
    <3> QED
      BY <1>3, <3>1, <3>2 DEF LoginChecks
  <2> QED
    BY <1>1, <2>1, FewerHold
<1> QED
  BY <1>2, <1>3

\* A wrong password is one failure more and one login less.
LEMMA LockFails ==
  ASSUME LockInv, NEW b \in Browsers, LoginFails(b), NEW x \in Accounts
  PROVE  (Len(failures[x]) + Cardinality(Trying(x)) < LOCK_AFTER + Cardinality(Browsers))'
<1> DEFINE a == request[b].target
<1>1. a \in Accounts
  BY Kinds DEF LoginFails, Logins, LockInv
<1>2. Trying(x)' = Trying(x) \ {b}
  BY DEF LoginFails, Trying, NoRequest, LockInv, TypeOK
<1>3. CASE x = a
  <2>1. b \in Trying(x)
    BY <1>3 DEF Trying, LoginFails, Logging
  <2>2. Cardinality(Trying(x)') = Cardinality(Trying(x)) - 1
    BY <1>2, <2>1, TryingCount, FS_RemoveElement
  <2>3. failures[x] \in Seq(Nat) /\ failures' \in {failures, [failures EXCEPT ![x] = <<0>> \o @]}
    BY <1>3 DEF LoginFails, LockInv, TypeOK
  <2>4. Len(failures'[x]) \in Nat /\ Len(failures'[x]) <= Len(failures[x]) + 1
    BY <2>3 DEF LockInv, TypeOK
  <2>5. Len(failures[x]) + Cardinality(Trying(x)) < LOCK_AFTER + Cardinality(Browsers)
        /\ LOCK_AFTER \in Nat /\ Len(failures[x]) \in Nat
    BY <2>3 DEF LockInv
  <2> QED
    BY <2>2, <2>4, <2>5, TryingCount
<1>4. CASE x # a
  <2>1. failures'[x] = failures[x] /\ Len(failures[x]) \in Nat
    BY <1>1, <1>4 DEF LoginFails, LockInv, TypeOK
  <2>2. Trying(x)' \subseteq Trying(x) /\ Len(failures'[x]) \in Nat /\ Len(failures'[x]) <= Len(failures[x])
    BY <1>2, <2>1
  <2> QED
    BY <2>2, FewerHold
<1> QED
  BY <1>3, <1>4

\* Every other step of a request leaves the failures, or ends the count, and adds no login.
LEMMA LockOthers ==
  ASSUME LockInv, NEW b \in Browsers, Request(b), ~LoginFails(b),
         ~\E a \in Accounts : LoginChecks(b, a), NEW x \in Accounts
  PROVE  (Len(failures[x]) + Cardinality(Trying(x)) < LOCK_AFTER + Cardinality(Browsers))'
<1>1. failures[x] \in Seq(Nat) /\ Len(failures[x]) \in Nat /\ LockInv /\ TypeOK
  BY DEF LockInv, TypeOK
<1>2. CASE LoginPasses(b)
  <2>1. request'[b].op # "login" /\ \A other \in Browsers : other # b => request'[other] = request[other]
    BY <1>1, <1>2 DEF LoginPasses, TypeOK
  <2> QED
    BY <1>1, <1>2, <2>1, NoMoreTrying, FewerHold DEF LoginPasses
<1>3. CASE LoginEnters(b)
  <2>1. Trying(x)' \subseteq Trying(x)
    <3>1. request'[b].op # "login" /\ \A other \in Browsers : other # b => request'[other] = request[other]
      BY <1>1, <1>3 DEF LoginEnters, TypeOK, NoRequest
    <3> QED
      BY <3>1, NoMoreTrying
  <2>2. failures'[x] = failures[x] \/ failures'[x] = <<>>
    BY <1>1, <1>3 DEF LoginEnters, TypeOK
  <2> QED
    BY <1>1, <2>1, <2>2, FewerHold
<1>4. CASE Logout(b)
  BY <1>1, <1>4, FewerHold DEF Logout, Trying
<1>5. CASE PolicyChanges(b)
  BY <1>1, <1>5, FewerHold DEF PolicyChanges, Trying
<1>6. ASSUME NEW op \in PageOps, NEW a \in Accounts, NEW row \in Rows, NEW ask \in BOOLEAN,
             Begins(b, op, a, row, ask)
      PROVE  failures' = failures /\ Trying(x)' \subseteq Trying(x)
  <2>1. request'[b].op # "login" /\ \A other \in Browsers : other # b => request'[other] = request[other]
    BY <1>1, <1>6 DEF Begins, TypeOK, PageOps
  <2> QED
    BY <1>6, <2>1, NoMoreTrying DEF Begins
<1>7. CASE Saves(b)
  <2> DEFINE r == request[b]
  <2>1. r \in Pages /\ [r EXCEPT !.saved = TRUE].op # "login"
    BY <1>1, <1>7, Kinds DEF Saves, Pages, PageOps
  <2>2. \/ request' = [request EXCEPT ![b] = NoRequest]
        \/ request' = [request EXCEPT ![b] = [r EXCEPT !.saved = TRUE]]
    BY <1>7 DEF Saves
  <2>3. request'[b].op # "login" /\ \A other \in Browsers : other # b => request'[other] = request[other]
    <3>1. request'[b] \in {NoRequest, [r EXCEPT !.saved = TRUE]}
          /\ \A other \in Browsers : other # b => request'[other] = request[other]
      BY <1>1, <2>2 DEF TypeOK
    <3>2. NoRequest.op # "login"
      BY DEF NoRequest
    <3> QED
      BY <2>1, <3>1, <3>2
  <2> QED
    BY <1>1, <1>7, <2>3, NoMoreTrying, FewerHold DEF Saves
<1>8. CASE Flags(b)
  <2>1. request'[b].op # "login" /\ \A other \in Browsers : other # b => request'[other] = request[other]
    BY <1>1, <1>8 DEF Flags, NoRequest, TypeOK
  <2> QED
    BY <1>1, <1>8, <2>1, NoMoreTrying, FewerHold DEF Flags
<1> QED
  BY <1>1, <1>2, <1>3, <1>4, <1>5, <1>6, <1>7, <1>8, PageBegins, FewerHold DEF Request

LEMMA LockNext == LockInv /\ [Next]_vars => LockInv'
<1> SUFFICES ASSUME LockInv, [Next]_vars, NEW x \in Accounts
             PROVE  (Len(failures[x]) + Cardinality(Trying(x)) < LOCK_AFTER + Cardinality(Browsers))'
  BY TypedNext DEF LockInv
<1>1. failures[x] \in Seq(Nat) /\ Len(failures[x]) \in Nat
  BY DEF LockInv, TypeOK
<1>2. ASSUME NEW b \in Browsers, Request(b)
      PROVE  (Len(failures[x]) + Cardinality(Trying(x)) < LOCK_AFTER + Cardinality(Browsers))'
  BY <1>2, LockChecks, LockFails, LockOthers
<1>3. CASE Restart
  BY <1>1, <1>3, FewerHold DEF Restart, Trying, NoRequest
<1>4. CASE Tick
  <2>1. Trying(x)' = Trying(x)
    BY <1>4 DEF Tick, Trying
  <2>2. Older(failures[x]) \in Seq(Nat) /\ Len(Older(failures[x])) <= Len(failures[x])
    BY <1>1, Aging
  <2>3. failures'[x] = Older(failures[x])
    BY <1>4 DEF Tick
  <2>4. Len(failures'[x]) \in Nat /\ Len(failures'[x]) <= Len(failures[x])
    BY <2>2, <2>3
  <2> QED
    BY <2>1, <2>4, FewerHold
<1>5. CASE UNCHANGED vars
  BY <1>1, <1>5, FewerHold DEF vars, Trying
<1> QED
  BY <1>2, <1>3, <1>4, <1>5 DEF Next

\* However many browsers try at once: no account has more failures in the lock's period than the rules
\* say, and one for each other worker that was already past the check (lock_until()).
THEOREM Lock == Spec => []LockHolds
<1>1. LockInv => LockHolds
  <2> SUFFICES ASSUME LockInv, NEW a \in Accounts
               PROVE  Len(failures[a]) < LOCK_AFTER + Cardinality(Browsers)
    BY DEF LockHolds
  <2>1. Len(failures[a]) \in Nat /\ LOCK_AFTER \in Nat
        /\ Len(failures[a]) + Cardinality(Trying(a)) < LOCK_AFTER + Cardinality(Browsers)
    BY DEF LockInv, TypeOK
  <2> QED
    BY <2>1, TryingCount
<1> QED
  BY <1>1, InitLock, LockNext, PTL DEF Spec

(***************************************************************************)
(* A weak password is replaced first.                                      *)
(***************************************************************************)
LEMMA InitWeak == Init => WeakInv
<1> SUFFICES ASSUME Init PROVE WeakInv
  OBVIOUS
<1>1. Bounded
  BY DEF Init, Bounded, NoSession, NoRequest, Changing, PageOps
<1>2. ASSUME NEW b \in Browsers PROVE Fresh(b) /\ Written(b)
  BY DEF Init, Fresh, Written, NewWords, NoRequest, PageOps
<1>3. Flagged
  BY DEF Init, Flagged, HasWeak, SessionWeak, EntryWeak, NoSession, NoRequest, Changing, PageOps
<1> QED
  BY <1>1, <1>2, <1>3, InitTyped DEF WeakInv

\* Passwords are numbered.
LEMMA Words ==
  ASSUME TypeOK
  PROVE  /\ changes \in Nat /\ \A a \in Accounts : account[a].word \in Nat
         /\ \A b \in Browsers : /\ session[b].word \in Nat
                                /\ request[b].op = "enter" => request[b].word \in Nat
                                /\ Changing(b) => request[b].was.word \in Nat /\ request[b].row.word \in Nat
<1>1. ASSUME NEW b \in Browsers, request[b].op = "enter" PROVE request[b].word \in Nat
  BY <1>1, Kinds DEF Entries
<1>2. ASSUME NEW b \in Browsers, Changing(b) PROVE request[b].was.word \in Nat /\ request[b].row.word \in Nat
  BY <1>2, Kinds DEF Pages, Rows, Fields
<1>3. \A a \in Accounts : account[a].word \in Nat
  BY DEF TypeOK, Rows, Fields
<1>4. changes \in Nat /\ \A b \in Browsers : session[b].word \in Nat
  BY DEF TypeOK
<1> QED
  BY <1>1, <1>2, <1>3, <1>4

\* The logins' steps that touch neither flags nor passwords.
LEMMA WeakQuiet ==
  ASSUME WeakInv, TypeOK', NEW b \in Browsers,
         \/ \E a \in Accounts : LoginChecks(b, a)
         \/ LoginFails(b) \/ Logout(b) \/ PolicyChanges(b)
  PROVE  WeakInv'
<1>1. UNCHANGED <<account, must, crossed, overtaken>> /\ changes' \in Nat /\ changes <= changes'
  BY DEF LoginChecks, LoginFails, Logout, PolicyChanges, OneChange, Gaps, WeakInv, TypeOK
<1>2. /\ \A other \in Browsers : request'[other] = request[other]
                                  \/ request'[other].op = NONE \/ request'[other].op = "login"
      /\ \A other \in Browsers : session'[other] = session[other] \/ session'[other] = NoSession
  BY DEF LoginChecks, LoginFails, Logout, PolicyChanges, WeakInv, TypeOK, NoRequest
<1>3. NONE \notin PageOps /\ "login" \notin PageOps /\ NONE # "enter" /\ NewWords \subseteq PageOps
      /\ {"edit", "delete"} \subseteq PageOps
  BY DEF PageOps, NewWords
<1>4. NoSession.word = 0 /\ ~NoSession.weak
  BY DEF NoSession
<1>5. Bounded'
  <2>1. TypeOK /\ Bounded
    BY DEF WeakInv
  <2>2. \A a \in Accounts : account'[a].word <= changes'
    BY <1>1, <2>1, Words DEF Bounded
  <2>3. \A other \in Browsers : session'[other].word <= changes'
    BY <1>1, <1>2, <1>4, <2>1, Words DEF Bounded
  <2>4. ASSUME NEW other \in Browsers PROVE request'[other].op = "enter" => request'[other].word <= changes'
    BY <1>1, <1>2, <1>3, <2>1, Words DEF Bounded
  <2>5. ASSUME NEW other \in Browsers, Changing(other)'
        PROVE  request'[other].was.word <= changes' /\ request'[other].row.word <= changes'
    BY <1>1, <1>2, <1>3, <2>1, <2>5, Words DEF Bounded, Changing
  <2> QED
    BY <2>2, <2>3, <2>4, <2>5 DEF Bounded
<1>6. ASSUME NEW other \in Browsers PROVE Fresh(other)' /\ Written(other)'
  <2>1. Fresh(other) /\ Written(other)
    BY DEF WeakInv
  <2>2. Written(other)'
    BY <1>2, <1>3, <2>1 DEF Written
  <2>3. Fresh(other)'
    BY <1>1, <1>2, <1>3, <1>4, <2>1 DEF Fresh, Changing
  <2> QED
    BY <2>2, <2>3
<1>7. Flagged => Flagged'
  <2>1. ASSUME NEW a \in Accounts, HasWeak(a)' PROVE HasWeak(a)
    BY <1>1, <1>2, <1>3, <1>4, <2>1 DEF HasWeak, SessionWeak, EntryWeak
  <2> QED
    BY <1>1, <1>2, <1>3, <2>1, Kinds DEF Flagged, Changing, WeakInv, Pages
<1> QED
  BY <1>1, <1>5, <1>6, <1>7 DEF WeakInv

LEMMA WeakPasses ==
  ASSUME WeakInv, TypeOK', NEW b \in Browsers, LoginPasses(b)
  PROVE  WeakInv'
<1> DEFINE a == request[b].target
           entry == [op |-> "enter", target |-> a, word |-> account[a].word,
                     weak |-> ~MeetsRules(account[a].strong)]
<1>0. TypeOK /\ Bounded
  BY DEF WeakInv
<1>1. a \in Accounts
  BY <1>0, Kinds DEF LoginPasses, Logins
<1>2. /\ UNCHANGED <<account, session, changes, crossed>> /\ request'[b] = entry
      /\ \A other \in Browsers : other # b => request'[other] = request[other]
      /\ must' = Outdated(a)
  BY <1>0 DEF LoginPasses, TypeOK
<1>3. ~Changing(b)' /\ "enter" \notin PageOps /\ "enter" \notin NewWords
  BY <1>2 DEF Changing, PageOps, NewWords
<1>4. Bounded'
  BY <1>0, <1>1, <1>2, <1>3 DEF Bounded, Changing
<1>5. ASSUME NEW other \in Browsers PROVE Fresh(other)' /\ Written(other)'
  <2>1. Fresh(other) /\ Written(other)
    BY DEF WeakInv
  <2>2. Written(other)'
    BY <1>2, <2>1 DEF Written
  <2>3. Fresh(other)'
    <3>1. CASE other = b
      BY <1>2, <1>3, <3>1 DEF Fresh
    <3>2. CASE other # b
      BY <1>1, <1>2, <1>3, <2>1, <3>2 DEF Fresh, Changing
    <3> QED
      BY <3>1, <3>2
  <2> QED
    BY <2>2, <2>3
<1>6. ASSUME Flagged, ~overtaken' PROVE Flagged'
  <2>1. ASSUME NEW x \in Accounts, HasWeak(x)' PROVE HasWeak(x) \/ (x = a /\ ~MeetsRules(account[a].strong))
    <3>1. account'[x].there /\ \E y \in Browsers : SessionWeak(y, x)' \/ EntryWeak(y, x)'
      BY <2>1 DEF HasWeak
    <3>2. ASSUME NEW y \in Browsers, SessionWeak(y, x)' PROVE HasWeak(x)
      BY <1>2, <3>1, <3>2 DEF HasWeak, SessionWeak
    <3>3. ASSUME NEW y \in Browsers, EntryWeak(y, x)', y # b PROVE HasWeak(x)
      BY <1>2, <3>1, <3>3 DEF HasWeak, EntryWeak
    <3>4. ASSUME EntryWeak(b, x)' PROVE x = a /\ ~MeetsRules(account[a].strong)
      <4> DEFINE short == ~MeetsRules(account[a].strong)
      <4>1. short \in BOOLEAN
        OBVIOUS
      <4> HIDE DEF short
      <4>2. request'[b] = [op |-> "enter", target |-> a, word |-> account[a].word, weak |-> short]
        BY <1>2 DEF short
      <4>3. request'[b].target = a /\ request'[b].weak = short
        BY <4>2
      <4>4. request'[b].target = x /\ request'[b].weak
        BY <3>4 DEF EntryWeak
      <4>5. x = a /\ short
        BY <4>1, <4>3, <4>4
      <4> QED
        BY <4>5 DEF short
    <3> QED
      BY <3>1, <3>2, <3>3, <3>4
  <2> HIDE DEF entry
  <2>2. ASSUME NEW x \in Accounts, HasWeak(x)' PROVE must'[x]
    <3>1. must[x] \/ (x = a /\ ~MeetsRules(account[a].strong))
      BY <1>6, <2>1, <2>2 DEF Flagged
    <3>2. must'[a] <=> (must[a] \/ ~MeetsRules(account[a].strong))
      BY <1>0, <1>1, <1>2 DEF Outdated, TypeOK
    <3>3. x # a => must'[x] = must[x]
      BY <1>0, <1>1, <1>2 DEF Outdated, TypeOK
    <3> QED
      BY <3>1, <3>2, <3>3
  <2>3. ASSUME NEW other \in Browsers, Changing(other)', request'[other].saved
        PROVE  ~HasWeak(request[other].target)'
    <3>1. other # b /\ request'[other] = request[other] /\ Changing(other)
      BY <1>2, <1>3, <2>3 DEF Changing
    <3>2. request[other].target \in Accounts /\ Written(other) /\ ~HasWeak(request[other].target)
      BY <1>0, <1>6, <2>3, <3>1, Kinds DEF WeakInv, Flagged, Pages
    <3>3. Flagging(other, request[other].target)
      BY <2>3, <3>1, <3>2 DEF Flagging, Written, Changing, PageOps
    <3>4. request[other].target = a => ~must'[a]
      BY <1>6, <3>3 DEF LoginPasses
    <3>5. request[other].target = a => MeetsRules(account[a].strong)
      BY <1>0, <1>1, <1>2, <3>4 DEF Outdated, TypeOK
    <3>6. request'[other].target \in Accounts /\ ~HasWeak(request[other].target)
      BY <3>1, <3>2
    <3> QED
      BY <2>1, <3>1, <3>5, <3>6
  <2> QED
    BY <2>2, <2>3 DEF Flagged
<1> QED
  BY <1>2, <1>4, <1>5, <1>6 DEF WeakInv, LoginPasses, TypeOK

LEMMA WeakEnters ==
  ASSUME WeakInv, TypeOK', NEW b \in Browsers, LoginEnters(b)
  PROVE  WeakInv'
<1> DEFINE a == request[b].target
<1>0. TypeOK /\ Bounded
  BY DEF WeakInv
<1>1. request[b] \in Entries /\ a \in Accounts /\ request[b].op = "enter"
  BY <1>0, Kinds DEF LoginEnters, Entries
<1>2. /\ UNCHANGED <<account, must, changes, crossed, overtaken>> /\ request'[b] = NoRequest
      /\ \A other \in Browsers : other # b => request'[other] = request[other]
  BY <1>0 DEF LoginEnters, TypeOK, Gaps
<1>3. /\ \A other \in Browsers : other # b => session'[other] = session[other]
      /\ session'[b] = session[b] \/
           (session'[b].who = a /\ session'[b].word = request[b].word /\ session'[b].weak = request[b].weak)
  BY <1>0 DEF LoginEnters, TypeOK
<1>4. NONE \notin PageOps /\ NONE # "enter" /\ NONE \notin NewWords /\ NoRequest.op = NONE /\ NONE # "edit"
      /\ NONE # "delete"
  BY DEF PageOps, NewWords, NoRequest
<1>5. Bounded'
  BY <1>0, <1>1, <1>2, <1>3, <1>4 DEF Bounded, Changing
<1>6. ASSUME NEW other \in Browsers PROVE Fresh(other)' /\ Written(other)'
  <2>1. Fresh(other) /\ Written(other)
    BY DEF WeakInv
  <2>2. Written(other)'
    BY <1>2, <1>4, <2>1 DEF Written
  <2>3. Fresh(other)'
    <3>1. CASE other = b
      BY <1>2, <1>4, <3>1 DEF Fresh
    <3>2. CASE other # b
      BY <1>1, <1>2, <1>3, <1>4, <2>1, <3>2 DEF Fresh, Changing
    <3> QED
      BY <3>1, <3>2
  <2> QED
    BY <2>2, <2>3
<1>7. ASSUME Flagged PROVE Flagged'
  <2>1. ASSUME NEW x \in Accounts, HasWeak(x)' PROVE HasWeak(x)
    BY <1>1, <1>2, <1>3, <1>4, <2>1 DEF HasWeak, SessionWeak, EntryWeak
  <2>2. ASSUME NEW other \in Browsers, Changing(other)', request'[other].saved
        PROVE  /\ Changing(other) /\ request'[other] = request[other]
               /\ request[other].target \in Accounts
    <3>1. other # b
      BY <1>2, <1>4, <2>2 DEF Changing
    <3> QED
      BY <1>0, <1>2, <2>2, <3>1, Kinds DEF Changing, Pages
  <2> QED
    BY <1>2, <1>7, <2>1, <2>2 DEF Flagged
<1> QED
  BY <1>2, <1>5, <1>6, <1>7 DEF WeakInv

\* A page that begins: its new password, if it brings one, is the first with that word.
LEMMA WeakPage ==
  ASSUME WeakInv, TypeOK', NEW b \in Browsers,
         \/ \E strong \in BOOLEAN : AccountPost(b, strong)
         \/ \E a \in Accounts, admin, active \in BOOLEAN : EditPost(b, a, admin, active)
         \/ \E a \in Accounts, strong, ask \in BOOLEAN : PasswordPost(b, a, strong, ask)
         \/ \E a \in Accounts, admin, strong, ask \in BOOLEAN : AddPost(b, a, admin, strong, ask)
         \/ \E a \in Accounts : DeletePost(b, a)
  PROVE  WeakInv'
<1>0. TypeOK /\ Bounded
  BY DEF WeakInv
<1>1. PICK op \in PageOps, a \in Accounts, row \in Rows, ask \in BOOLEAN :
        /\ LoggedIn(b) /\ Begins(b, op, a, row, ask)
        /\ op # "add" => account[a].there
        /\ op = "account" => a = session[b].who
        /\ op \in NewWords => row.word = changes + 1
        /\ op = "edit" => row.word = account[a].word /\ row.there
        /\ op = "delete" => row = Gone
  BY <1>0, PageBegins
<1> DEFINE page == [op |-> op, target |-> a, me |-> account[session[b].who], was |-> account[a],
                    row |-> row, ask |-> ask, saved |-> FALSE]
<1>2. /\ UNCHANGED <<account, must, session, crossed, overtaken>> /\ changes' = changes + 1
      /\ request'[b] = page /\ \A other \in Browsers : other # b => request'[other] = request[other]
  BY <1>0, <1>1 DEF Begins, Gaps, OneChange, TypeOK
<1>3. /\ page.op = op /\ page.was = account[a] /\ page.row = row /\ page.saved = FALSE
      /\ op \in PageOps /\ op # "enter" /\ NewWords \subseteq PageOps
      /\ op \in PageOps \ NewWords => op \in {"edit", "delete"}
  BY DEF PageOps, NewWords
<1>4. row.word \in Nat /\ row.word <= changes + 1 /\ (op \in {"edit", "delete"} => row.word <= changes)
  <2>1. row.word \in Nat
    BY DEF Rows, Fields
  <2>2. op \in NewWords => row.word = changes + 1
    BY <1>1
  <2>3. op = "edit" => row.word <= changes
    BY <1>0, <1>1, Words DEF Bounded
  <2>4. op = "delete" => row.word = 0
    BY <1>1 DEF Gone
  <2> QED
    BY <1>0, <1>3, <2>1, <2>2, <2>3, <2>4, Words
<1>5. Bounded'
  <2>1. changes' \in Nat /\ changes <= changes'
    BY <1>0, <1>2, Words
  <2>2. \A x \in Accounts : account'[x].word <= changes'
    BY <1>0, <1>2, Words DEF Bounded
  <2>3. \A other \in Browsers : session'[other].word <= changes'
    BY <1>0, <1>2, Words DEF Bounded
  <2>4. ASSUME NEW other \in Browsers PROVE request'[other].op = "enter" => request'[other].word <= changes'
    BY <1>0, <1>2, <1>3, Words DEF Bounded
  <2>5. ASSUME NEW other \in Browsers, Changing(other)'
        PROVE  request'[other].was.word <= changes' /\ request'[other].row.word <= changes'
    <3>1. CASE other = b
      BY <1>0, <1>2, <1>3, <1>4, <3>1, Words DEF Bounded
    <3>2. CASE other # b
      BY <1>0, <1>2, <2>5, <3>2, Words DEF Bounded, Changing
    <3> QED
      BY <3>1, <3>2
  <2> QED
    BY <2>2, <2>3, <2>4, <2>5 DEF Bounded
<1>6. ASSUME NEW other \in Browsers PROVE Fresh(other)' /\ Written(other)'
  <2>1. Fresh(other) /\ Written(other)
    BY DEF WeakInv
  <2>2. CASE other = b
    <3>1. Written(b)'
      BY <1>1, <1>2, <1>3 DEF Written
    <3>2. ASSUME op \in NewWords PROVE Fresh(b)'
      <4>1. row.word = changes + 1 /\ changes \in Nat /\ row.word # 0
        BY <1>0, <1>1, <3>2, Words
      <4>2. \A x \in Accounts : account'[x].word # row.word
        BY <1>0, <1>2, <4>1, Words DEF Bounded
      <4>3. \A y \in Browsers : session'[y].word # row.word
        BY <1>0, <1>2, <4>1, Words DEF Bounded
      <4>4. \A y \in Browsers : request'[y].op = "enter" => request'[y].word # row.word
        BY <1>0, <1>2, <1>3, <4>1, Words DEF Bounded
      <4>5. \A y \in Browsers : Changing(y)' /\ y # b => request'[y].row.word # row.word
        BY <1>0, <1>2, <4>1, Words DEF Bounded, Changing
      <4> QED
        BY <1>2, <1>3, <4>1, <4>2, <4>3, <4>4, <4>5 DEF Fresh
    <3> QED
      BY <1>2, <1>3, <2>2, <3>1, <3>2 DEF Fresh
  <2>3. CASE other # b
    <3>1. Written(other)'
      BY <1>2, <2>1, <2>3 DEF Written
    <3>2. ASSUME request[other].op \in NewWords, ~request[other].saved
          PROVE  row.word # request[other].row.word
      <4>1. Changing(other)
        BY <1>3, <3>2 DEF Changing
      <4>2. CASE op \in NewWords
        BY <1>0, <1>1, <4>1, <4>2, Words DEF Bounded
      <4>3. CASE op = "edit"
        BY <1>1, <2>1, <3>2, <4>3 DEF Fresh
      <4>4. CASE op = "delete"
        BY <1>1, <2>1, <3>2, <4>4 DEF Fresh, Gone
      <4> QED
        BY <1>3, <4>2, <4>3, <4>4
    <3>3. Fresh(other)'
      BY <1>2, <1>3, <2>1, <2>3, <3>2 DEF Fresh, Changing
    <3> QED
      BY <3>1, <3>3
  <2> QED
    BY <2>2, <2>3
<1>7. ASSUME Flagged PROVE Flagged'
  <2>1. ASSUME NEW x \in Accounts, HasWeak(x)' PROVE HasWeak(x)
    BY <1>2, <1>3, <2>1 DEF HasWeak, SessionWeak, EntryWeak
  <2>2. ASSUME NEW other \in Browsers, Changing(other)', request'[other].saved
        PROVE  /\ Changing(other) /\ request'[other] = request[other]
               /\ request[other].target \in Accounts
    <3>1. other # b
      BY <1>2, <1>3, <2>2
    <3> QED
      BY <1>0, <1>2, <2>2, <3>1, Kinds DEF Changing, Pages
  <2> QED
    BY <1>2, <1>7, <2>1, <2>2 DEF Flagged
<1> QED
  BY <1>2, <1>5, <1>6, <1>7 DEF WeakInv

\* A save: the row it writes has a new word, the word it had, or is gone.
LEMMA WeakSaves ==
  ASSUME WeakInv, TypeOK', NEW b \in Browsers, Saves(b)
  PROVE  WeakInv'
<1> DEFINE r == request[b]
           refused == r.op = "add" /\ account[r.target].there
<1>0. TypeOK /\ Bounded /\ Fresh(b) /\ Written(b)
  BY DEF WeakInv
<1>1. r \in Pages /\ Changing(b) /\ ~r.saved /\ r.op # "enter"
  BY <1>0, Kinds DEF Saves, Pages, PageOps
<1>2. r.target \in Accounts /\ [r EXCEPT !.saved = TRUE] \in Pages /\ r.op \in PageOps
      /\ NewWords \subseteq PageOps /\ PageOps \ NewWords = {"edit", "delete"}
  BY <1>1 DEF Pages, PageOps, NewWords
<1>3. /\ UNCHANGED <<session, changes, overtaken>>
      /\ \A other \in Browsers : other # b => request'[other] = request[other]
      /\ request'[b] = NoRequest \/ request'[b] = [r EXCEPT !.saved = TRUE]
  BY <1>0 DEF Saves, TypeOK
<1>4. /\ [r EXCEPT !.saved = TRUE].op = r.op /\ [r EXCEPT !.saved = TRUE].saved
      /\ [r EXCEPT !.saved = TRUE].row = r.row /\ [r EXCEPT !.saved = TRUE].was = r.was
      /\ [r EXCEPT !.saved = TRUE].target = r.target
      /\ NoRequest.op = NONE /\ NONE \notin PageOps /\ NONE # "enter"
  BY <1>1 DEF Pages, NoRequest
<1> DEFINE saved == [r EXCEPT !.saved = TRUE]
<1> HIDE DEF saved
<1>5. \A x \in Accounts : account'[x] = account[x] \/ (x = r.target /\ account'[x] = r.row)
  BY <1>0, <1>2 DEF Saves, TypeOK
<1>6. Bounded'
  <2>1. \A x \in Accounts : account'[x].word <= changes'
    BY <1>0, <1>1, <1>3, <1>5 DEF Bounded
  <2>2. \A other \in Browsers : session'[other].word <= changes'
    BY <1>0, <1>3 DEF Bounded
  <2>3. ASSUME NEW other \in Browsers PROVE request'[other].op = "enter" => request'[other].word <= changes'
    BY <1>0, <1>1, <1>3, <1>4 DEF Bounded, saved
  <2>4. ASSUME NEW other \in Browsers, Changing(other)'
        PROVE  request'[other].was.word <= changes' /\ request'[other].row.word <= changes'
    <3>1. CASE other = b
      BY <1>0, <1>1, <1>3, <1>4, <2>4, <3>1 DEF Bounded, saved, Changing
    <3>2. CASE other # b
      BY <1>0, <1>3, <2>4, <3>2 DEF Bounded, Changing
    <3> QED
      BY <3>1, <3>2
  <2> QED
    BY <2>1, <2>2, <2>3, <2>4 DEF Bounded
<1>7. ASSUME NEW other \in Browsers PROVE Fresh(other)' /\ Written(other)'
  <2>1. Fresh(other) /\ Written(other)
    BY DEF WeakInv
  <2>2. CASE other = b
    <3>1. request'[b] = NoRequest \/ (request'[b] = saved /\ r.op \notin {"edit", "delete"})
      BY <1>0, <1>1, <1>4 DEF Saves, saved, TypeOK
    <3>2. Fresh(b)'
      BY <1>2, <1>4, <3>1 DEF Fresh, saved
    <3>3. Written(b)'
      BY <1>2, <1>4, <3>1 DEF Written, saved
    <3> QED
      BY <2>2, <3>2, <3>3
  <2>3. CASE other # b
    <3>1. Written(other)'
      BY <1>3, <2>1, <2>3 DEF Written
    <3>2. ASSUME request[other].op \in NewWords, ~request[other].saved
          PROVE  /\ request[other].row.word # r.row.word
                 /\ \A x \in Accounts : account'[x].word # request[other].row.word
      BY <1>1, <1>5, <2>1, <2>3, <3>2 DEF Fresh
    <3>3. \A y \in Browsers : request'[y].op = "enter" => request[y].op = "enter" /\ request'[y] = request[y]
      BY <1>1, <1>3, <1>4 DEF saved
    <3>4. \A y \in Browsers : Changing(y)' => Changing(y) /\ request'[y].row = request[y].row
      BY <1>1, <1>3, <1>4 DEF saved, Changing
    <3>5. Fresh(other)'
      BY <1>3, <2>1, <2>3, <3>2, <3>3, <3>4 DEF Fresh
    <3> QED
      BY <3>1, <3>5
  <2> QED
    BY <2>2, <2>3
<1>8. ASSUME Flagged, ~crossed' PROVE Flagged'
  <2>0. PICK t \in Accounts : t = r.target
    BY <1>2
  <2>1. ASSUME NEW x \in Accounts, x # t \/ refused, HasWeak(x)'
        PROVE  HasWeak(x) /\ must'[x] = must[x]
    <3>1. account'[x] = account[x] /\ must'[x] = must[x]
      BY <1>0, <2>0, <2>1 DEF Saves, TypeOK
    <3> QED
      BY <1>1, <1>3, <1>4, <2>1, <3>1 DEF HasWeak, SessionWeak, EntryWeak, saved
  <2>2. CASE refused
    <3>1. account' = account /\ request'[b] = NoRequest
      BY <1>0, <2>2 DEF Saves, TypeOK
    <3>2. ASSUME NEW other \in Browsers, Changing(other)', request'[other].saved
          PROVE  /\ Changing(other) /\ request'[other] = request[other]
                 /\ request[other].target \in Accounts
      <4>1. other # b
        BY <1>4, <3>1, <3>2 DEF Changing
      <4> QED
        BY <1>0, <1>3, <3>2, <4>1, Kinds DEF Changing, Pages
    <3>3. \A x \in Accounts : HasWeak(x)' => HasWeak(x) /\ must'[x] = must[x]
      BY <2>1, <2>2
    <3>4. \A x \in Accounts : HasWeak(x)' => must'[x]
      BY <1>8, <3>3 DEF Flagged
    <3>5. ASSUME NEW other \in Browsers, Changing(other)', request'[other].saved
          PROVE  request'[other].target \in Accounts /\ request'[other].target = request[other].target
                 /\ ~(HasWeak(request[other].target)')
      BY <1>8, <3>2, <3>3, <3>5 DEF Flagged
    <3> QED
      BY <3>4, <3>5 DEF Flagged
  <2>3. CASE ~refused
    <3>1. /\ account' = [account EXCEPT ![r.target] = r.row] /\ ~Stale(b)
          /\ must' = IF r.op = "delete" THEN [must EXCEPT ![r.target] = FALSE] ELSE must
      BY <1>8, <2>3 DEF Saves
    <3>2. account'[r.target] = r.row /\ account[r.target] = r.was
      BY <1>0, <1>2, <3>1 DEF Stale, TypeOK
    <3>3. r.op \in NewWords => ~HasWeak(t)'
      <4>1. ASSUME r.op \in NewWords, NEW y \in Browsers
            PROVE  session'[y].word # r.row.word /\ (request'[y].op = "enter" => request'[y].word # r.row.word)
        BY <1>0, <1>1, <1>3, <1>4, <4>1 DEF Fresh, saved
      <4> QED
        BY <2>0, <3>2, <4>1 DEF HasWeak, SessionWeak, EntryWeak
    <3>4. r.op = "delete" => ~HasWeak(t)'
      BY <1>0, <2>0, <3>2 DEF Written, HasWeak, Gone
    <3>5. r.op = "edit" => (HasWeak(t)' => HasWeak(t)) /\ must' = must
      BY <1>0, <1>1, <1>3, <1>4, <2>0, <3>1, <3>2 DEF Written, HasWeak, SessionWeak, EntryWeak, saved
    <3>6. ASSUME NEW x \in Accounts, HasWeak(x)' PROVE HasWeak(x) /\ must'[x] = must[x]
      BY <1>2, <2>0, <2>1, <3>3, <3>4, <3>5, <3>6
    <3>7. ASSUME NEW other \in Browsers, other # b, Changing(other)', request'[other].saved
          PROVE  /\ Changing(other) /\ request'[other] = request[other]
                 /\ request[other].target \in Accounts
      BY <1>0, <1>3, <3>7, Kinds DEF Changing, Pages
    <3>8. Changing(b)' /\ request'[b].saved => request'[b].target = r.target /\ r.op \in NewWords
      <4>1. request'[b] = NoRequest \/ (request'[b] = saved /\ r.op \notin {"edit", "delete"})
        BY <1>0, <1>1, <1>4 DEF Saves, saved, TypeOK
      <4> QED
        BY <1>2, <1>4, <4>1 DEF Changing, saved
    <3>9. \A x \in Accounts : HasWeak(x)' => must'[x]
      BY <1>8, <3>6 DEF Flagged
    <3>10. ASSUME NEW other \in Browsers, Changing(other)', request'[other].saved
           PROVE  request'[other].target \in Accounts /\ ~(HasWeak(request[other].target)')
      BY <1>2, <1>8, <2>0, <3>3, <3>6, <3>7, <3>8, <3>10 DEF Flagged
    <3>11. \A other \in Browsers : Changing(other)' => request'[other].target = request[other].target
      BY <1>3, <1>4 DEF Changing, saved
    <3> QED
      BY <3>9, <3>10, <3>11 DEF Flagged
  <2> QED
    BY <2>2, <2>3
<1>9. crossed => crossed'
  BY DEF Saves
<1> QED
  BY <1>3, <1>6, <1>7, <1>8, <1>9 DEF WeakInv

\* The flag is lowered only where nobody has got in with a weak password since the save.
LEMMA WeakFlags ==
  ASSUME WeakInv, TypeOK', NEW b \in Browsers, Flags(b)
  PROVE  WeakInv'
<1> DEFINE r == request[b]
<1>0. TypeOK /\ Bounded
  BY DEF WeakInv
<1>1. r \in Pages /\ Changing(b) /\ r.saved /\ r.op # "enter"
  BY <1>0, Kinds DEF Flags, Pages, PageOps
<1>2. PICK t \in Accounts : t = r.target
  BY <1>1 DEF Pages
<1>3. /\ UNCHANGED <<account, changes, crossed, overtaken>> /\ request'[b] = NoRequest
      /\ \A other \in Browsers : other # b => request'[other] = request[other]
      /\ must' = IF account[t].there THEN [must EXCEPT ![t] = r.ask] ELSE must
  BY <1>0, <1>2 DEF Flags, Gaps, TypeOK
<1>4. NoRequest.op = NONE /\ NONE \notin PageOps /\ NONE # "enter" /\ NONE \notin NewWords
      /\ NONE \notin {"edit", "delete"}
  BY DEF NoRequest, PageOps, NewWords
<1>5. \A other \in Browsers :
        \/ session'[other] = session[other]
        \/ other = b /\ session'[other].word = r.row.word /\ ~session'[other].weak
  BY <1>0 DEF Flags, TypeOK
<1>6. \A y \in Browsers : /\ request'[y].op = "enter" => request[y].op = "enter" /\ request'[y] = request[y]
                          /\ Changing(y)' => Changing(y) /\ request'[y] = request[y] /\ y # b
  BY <1>3, <1>4 DEF Changing
<1>7. Bounded'
  BY <1>0, <1>1, <1>3, <1>5, <1>6 DEF Bounded
<1>8. ASSUME NEW other \in Browsers PROVE Fresh(other)' /\ Written(other)'
  <2>1. Fresh(other) /\ Written(other)
    BY DEF WeakInv
  <2>2. Written(other)'
    BY <1>3, <1>4, <2>1 DEF Written
  <2>3. CASE other = b
    BY <1>3, <1>4, <2>2, <2>3 DEF Fresh
  <2>4. CASE other # b
    <3>1. request'[other] = request[other]
      BY <1>3, <2>4
    <3>2. ASSUME request[other].op \in NewWords, ~request[other].saved
          PROVE  r.row.word # request[other].row.word
      BY <1>1, <2>1, <2>4, <3>2 DEF Fresh
    <3>3. Fresh(other)'
      BY <1>3, <1>5, <1>6, <2>1, <3>1, <3>2 DEF Fresh
    <3> QED
      BY <2>2, <3>3
  <2> QED
    BY <2>3, <2>4
<1>9. ASSUME Flagged PROVE Flagged'
  <2>1. ASSUME NEW x \in Accounts, HasWeak(x)' PROVE HasWeak(x)
    BY <1>3, <1>5, <1>6, <2>1 DEF HasWeak, SessionWeak, EntryWeak
  <2>2. ~HasWeak(t)
    BY <1>1, <1>2, <1>9 DEF Flagged
  <2>3. ASSUME NEW x \in Accounts, HasWeak(x)' PROVE must'[x]
    <3>1. HasWeak(x) /\ x # t
      BY <2>1, <2>2, <2>3
    <3>2. must'[x] = must[x]
      BY <1>0, <1>2, <1>3, <3>1 DEF TypeOK
    <3> QED
      BY <1>9, <3>1, <3>2 DEF Flagged
  <2>4. ASSUME NEW other \in Browsers, Changing(other)', request'[other].saved
        PROVE  /\ request'[other].target = request[other].target /\ request'[other].target \in Accounts
               /\ ~(HasWeak(request[other].target)')
    <3>1. Changing(other) /\ request[other].saved /\ request[other].target \in Accounts
          /\ request'[other] = request[other]
      BY <1>0, <1>6, <2>4, Kinds DEF Pages
    <3>2. ~HasWeak(request[other].target)
      BY <1>9, <3>1 DEF Flagged
    <3> QED
      BY <2>1, <3>1, <3>2
  <2> QED
    BY <2>3, <2>4 DEF Flagged
<1> QED
  BY <1>3, <1>7, <1>8, <1>9 DEF WeakInv

LEMMA WeakRest == ASSUME WeakInv, TypeOK', Restart \/ Tick PROVE WeakInv'
<1>0. TypeOK /\ Bounded /\ NoRequest.op = NONE /\ NONE \notin PageOps /\ NONE # "enter"
      /\ NONE \notin NewWords /\ NONE \notin {"edit", "delete"}
  BY DEF WeakInv, NoRequest, PageOps, NewWords
<1>1. CASE Restart
  <2>1. /\ UNCHANGED <<must, session, crossed, overtaken>> /\ changes' = changes + 1
        /\ \A b \in Browsers : request'[b] = NoRequest
        /\ \A a \in Accounts : account'[a] = account[a] \/ account'[a].word = changes'
    BY <1>0, <1>1 DEF Restart, OneChange, Gaps, TypeOK
  <2>2. Bounded'
    <3>1. \A a \in Accounts : account'[a].word <= changes'
      BY <1>0, <2>1, Words DEF Bounded
    <3>2. \A b \in Browsers : session'[b].word <= changes'
      BY <1>0, <2>1, Words DEF Bounded
    <3> QED
      BY <1>0, <2>1, <3>1, <3>2 DEF Bounded, Changing
  <2>3. \A b \in Browsers : Fresh(b)' /\ Written(b)'
    BY <1>0, <2>1 DEF Fresh, Written
  <2>4. ASSUME Flagged PROVE Flagged'
    <3>1. ASSUME NEW a \in Accounts, HasWeak(a)' PROVE HasWeak(a)
      <4>1. PICK b \in Browsers : SessionWeak(b, a)'
        BY <1>0, <2>1, <3>1 DEF HasWeak, EntryWeak
      <4>2. session[b].word <= changes /\ session[b].word = account'[a].word /\ changes \in Nat
        BY <1>0, <2>1, <4>1, Words DEF Bounded, SessionWeak
      <4>3. account'[a] = account[a]
        BY <2>1, <4>2
      <4> QED
        BY <2>1, <3>1, <4>1, <4>3 DEF HasWeak, SessionWeak
    <3> QED
      BY <1>0, <2>1, <2>4, <3>1 DEF Flagged, Changing
  <2> QED
    BY <2>1, <2>2, <2>3, <2>4 DEF WeakInv
<1>2. CASE Tick
  BY <1>2 DEF Tick, Gaps, WeakInv, Bounded, Fresh, Written, Flagged, HasWeak, SessionWeak, EntryWeak, Changing
<1> QED
  BY <1>1, <1>2

LEMMA WeakNext == WeakInv /\ [Next]_vars => WeakInv'
<1> SUFFICES ASSUME WeakInv, [Next]_vars PROVE WeakInv'
  OBVIOUS
<1>1. TypeOK'
  BY TypedNext DEF WeakInv
<1>2. ASSUME NEW b \in Browsers, Request(b) PROVE WeakInv'
  BY <1>1, <1>2, WeakQuiet, WeakPasses, WeakEnters, WeakPage, WeakSaves, WeakFlags DEF Request
<1>3. CASE UNCHANGED vars
  BY <1>1, <1>3 DEF vars, WeakInv, Bounded, Fresh, Written, Flagged, HasWeak, SessionWeak, EntryWeak, Changing
<1> QED
  BY <1>1, <1>2, <1>3, WeakRest DEF Next

\* Nobody works with a password that fell short of the rules when they logged in with it, unless a page
\* brought that password back, or lowered the flag the login had just raised
\* (DashboardSecurityMiddleware, LockingAuthenticationForm).
THEOREM WeakReplaced == Spec => []ReplacedFirst
<1>1. WeakInv => ReplacedFirst
  <2> SUFFICES ASSUME WeakInv, ~crossed, ~overtaken, NEW b \in Browsers, MayWork(b), session[b].weak
               PROVE  FALSE
    BY DEF ReplacedFirst
  <2>1. /\ session[b].who \in Accounts /\ account[session[b].who].there
        /\ account[session[b].who].word = session[b].word /\ ~must[session[b].who]
    BY Worker DEF MayWork, LoggedIn, Known, WeakInv
  <2>2. HasWeak(session[b].who)
    BY <2>1 DEF HasWeak, SessionWeak
  <2> QED
    BY <2>1, <2>2 DEF WeakInv, Flagged
<1> QED
  BY <1>1, InitWeak, WeakNext, PTL DEF Spec
=============================================================================
