---------------------------- MODULE DashboardUsers ----------------------------
(***************************************************************************)
(* Who may use the dashboard: its accounts, their passwords and rules, the *)
(* lock after failed logins and the sessions of the browsers (dashboard/   *)
(* security.py, the users' pages of dashboard/views.py, their forms).      *)
(* Requests run in several workers without a transaction around them: a    *)
(* page that changes an account reads its row, and writes all of it back   *)
(* later.                                                                  *)
(***************************************************************************)
EXTENDS Integers, Sequences, FiniteSets

CONSTANTS NONE, Accounts, Browsers,
          Mistyped,     \* bound: the accounts somebody tries wrong passwords for, whose failures are followed
          Seed,         \* DJANGO_SUPERUSER_USERNAME
          LOCK_AFTER,   \* the policy's lock_after_failures
          LOCK,         \* its lock_minutes, in steps of the clock
          MaxChanges    \* bound: changes of accounts and rules begun, and restarts of the stack

PageOps == {"account", "edit", "password", "add", "delete"}

ASSUME UsersAssumption == /\ NONE \notin Accounts \cup PageOps \cup {"login", "enter"}
                          /\ Seed \in Accounts /\ Mistyped \subseteq Accounts
                          /\ IsFiniteSet(Browsers) /\ {LOCK_AFTER, LOCK} \subseteq Nat \ {0}

VARIABLES account,    \* the rows of auth_user
          must,       \* AccountSecurity.must_change_password
          strict,     \* whether the rules are those that weak passwords fall short of
          failures,   \* ages of an account's failed logins since its last login, the newest first
          session,    \* per browser: whose it is, and the password hash it holds
          request,    \* per browser: the request a worker is busy with
          changes,
          crossed,    \* gap: a page wrote over a row that had changed since it was read
          overtaken   \* gap: a login raised the flag that a page under way then lowers

vars == <<account, must, strict, failures, session, request, changes, crossed, overtaken>>

Gone      == [there |-> FALSE, admin |-> FALSE, active |-> FALSE, word |-> 0, strong |-> FALSE]
NoSession == [who |-> NONE, word |-> 0, weak |-> FALSE]
NoRequest == [op |-> NONE]

Init ==
  /\ account = [a \in Accounts |-> [there |-> TRUE, admin |-> TRUE, active |-> TRUE, word |-> 0,
                                    strong |-> a = Seed]]
  /\ must = [a \in Accounts |-> FALSE] /\ strict = FALSE
  /\ failures = [a \in Accounts |-> <<>>]
  /\ session = [b \in Browsers |-> NoSession] /\ request = [b \in Browsers |-> NoRequest]
  /\ changes = 0 /\ crossed = FALSE /\ overtaken = FALSE

Gaps == <<crossed, overtaken>>

MeetsRules(strong) == strict => strong

(***************************************************************************)
(* Logging in.                                                             *)
(***************************************************************************)
\* lock_until(): as many failures of the last LOCK minutes, since the last login.
Locked(a) == Len(failures[a]) >= LOCK_AFTER

\* Mutant: a refused attempt counts like a failed one.
RefusedCounts(a) == [failures EXCEPT ![a] = SubSeq(<<0>> \o @, 1, LOCK_AFTER)]
\* What a refused attempt leaves in the count: its row, auth.locked, is not among those that count.
Refused(a) == failures

\* Mutant: one more failure than the rules say.
LoginChecksLate(b, a) ==
  /\ request[b] = NoRequest
  /\ IF Len(failures[a]) > LOCK_AFTER THEN UNCHANGED <<failures, request>>
     ELSE request' = [request EXCEPT ![b] = [op |-> "login", target |-> a]] /\ UNCHANGED failures
  /\ UNCHANGED <<account, must, strict, session, changes, Gaps>>
\* LockingAuthenticationForm.clean(): the lock is looked at before the password.
LoginChecks(b, a) ==
  /\ request[b] = NoRequest
  /\ IF Locked(a) THEN failures' = Refused(a) /\ UNCHANGED request
                  ELSE request' = [request EXCEPT ![b] = [op |-> "login", target |-> a]] /\ UNCHANGED failures
  /\ UNCHANGED <<account, must, strict, session, changes, Gaps>>

Logging(b) == request[b].op = "login"

\* A wrong password, or an account that is gone or locked by an admin.
LoginFails(b) ==
  LET a == request[b].target
  IN /\ Logging(b) /\ (a \in Mistyped \/ ~account[a].there \/ ~account[a].active)
     /\ failures' = IF a \in Mistyped THEN [failures EXCEPT ![a] = <<0>> \o @] ELSE failures
     /\ request' = [request EXCEPT ![b] = NoRequest]
     /\ UNCHANGED <<account, must, strict, session, changes, Gaps>>

\* Mutant: get_or_create() instead of update_or_create().
OutdatedOnce(a) == must
\* The flag that a password too weak for today's rules raises, before the login itself.
Outdated(a) == [must EXCEPT ![a] = @ \/ ~MeetsRules(account[a].strong)]

Flagging(b, a) == request[b].op \in {"account", "password", "add"} /\ request[b].saved /\ request[b].target = a

LoginPasses(b) ==
  LET a == request[b].target
  IN /\ Logging(b) /\ account[a].there /\ account[a].active
     /\ must' = Outdated(a)
     /\ overtaken' = (overtaken \/ (must'[a] /\ \E other \in Browsers : Flagging(other, a)))
     /\ request' = [request EXCEPT ![b] = [op |-> "enter", target |-> a, word |-> account[a].word,
                                           weak |-> ~MeetsRules(account[a].strong)]]
     /\ UNCHANGED <<account, strict, failures, session, changes, crossed>>

\* login(): the row of auth.login ends the count; a user deleted meanwhile fails it.
LoginEnters(b) ==
  LET entry == request[b]
  IN /\ entry.op = "enter"
     /\ request' = [request EXCEPT ![b] = NoRequest]
     /\ IF account[entry.target].there
        THEN /\ session' = [session EXCEPT ![b] = [who |-> entry.target, word |-> entry.word,
                                                   weak |-> entry.weak]]
             /\ failures' = [failures EXCEPT ![entry.target] = <<>>]
        ELSE UNCHANGED <<session, failures>>
     /\ UNCHANGED <<account, must, strict, changes, Gaps>>

(***************************************************************************)
(* Every request of the dashboard.                                         *)
(***************************************************************************)
\* AuthenticationMiddleware: the account may log in, its password is the session's.
Known(b) == LET s == session[b] IN s.who # NONE /\ account[s.who].active /\ account[s.who].word = s.word

\* DashboardSecurityMiddleware lets the request through to its page; superuser_required.
LoggedIn(b) == request[b] = NoRequest /\ Known(b)
MayWork(b)  == LoggedIn(b) /\ ~must[session[b].who]
IsAdmin(b)  == MayWork(b) /\ account[session[b].who].admin

\* Logged out: by hand, after inactivity (at any time: how long that is, is left out), or because the
\* session no longer fits the account.
Logout(b) ==
  /\ request[b] = NoRequest /\ session[b].who # NONE
  /\ session' = [session EXCEPT ![b] = NoSession]
  /\ UNCHANGED <<account, must, strict, failures, request, changes, Gaps>>

OneChange == changes < MaxChanges /\ changes' = changes + 1

PolicyChanges(b) ==
  /\ IsAdmin(b) /\ OneChange /\ strict' = ~strict
  /\ UNCHANGED <<account, must, failures, session, request, Gaps>>

(***************************************************************************)
(* Pages that change an account: what they read and check, then what they  *)
(* write.                                                                  *)
(***************************************************************************)
Begins(b, op, a, row, ask) ==
  /\ OneChange
  /\ request' = [request EXCEPT ![b] = [op |-> op, target |-> a, me |-> account[session[b].who],
                                        was |-> account[a], row |-> row, ask |-> ask, saved |-> FALSE]]
  /\ UNCHANGED <<account, must, strict, failures, session, Gaps>>

\* A new password; each has a hash of its own.
WithWord(row, strong) == [row EXCEPT !.word = changes + 1, !.strong = strong]

\* account(): everyone's own page, also while the password has to be changed.
AccountPost(b, strong) ==
  LET me == session[b].who
  IN LoggedIn(b) /\ MeetsRules(strong) /\ Begins(b, "account", me, WithWord(account[me], strong), FALSE)

\* Mutant: only oneself locked, not demoted or deleted.
LockError(b, a, admin, active) == a = session[b].who /\ admin /\ ~active
\* _lockout_error(): not oneself.
LockoutError(b, a, admin, active) == a = session[b].who /\ (~admin \/ ~active)

EditPost(b, a, admin, active) ==
  /\ IsAdmin(b) /\ account[a].there /\ ~LockoutError(b, a, admin, active)
  /\ Begins(b, "edit", a, [account[a] EXCEPT !.admin = admin, !.active = active], FALSE)

PasswordPost(b, a, strong, ask) ==
  /\ IsAdmin(b) /\ account[a].there /\ a # session[b].who /\ MeetsRules(strong)
  /\ Begins(b, "password", a, WithWord(account[a], strong), ask)

AddPost(b, a, admin, strong, ask) ==
  /\ IsAdmin(b) /\ ~account[a].there /\ MeetsRules(strong)
  /\ Begins(b, "add", a, WithWord([there |-> TRUE, admin |-> admin, active |-> TRUE, word |-> 0,
                                   strong |-> FALSE], strong), ask)

DeletePost(b, a) ==
  /\ IsAdmin(b) /\ account[a].there /\ ~LockoutError(b, a, FALSE, FALSE)
  /\ Begins(b, "delete", a, Gone, FALSE)

Changing(b) == request[b].op \in PageOps

\* Whether the row of the one who asked, or the one that is written, is no longer what the page read.
Stale(b) == account[session[b].who] # request[b].me \/ account[request[b].target] # request[b].was

\* The row is saved with every field as the page has it - and created again if it is gone.  An account
\* whose name has been taken meanwhile is refused; a deletion takes the flag with it.
Saves(b) ==
  LET r == request[b]
  IN /\ Changing(b) /\ ~r.saved
     /\ IF r.op = "add" /\ account[r.target].there
        THEN request' = [request EXCEPT ![b] = NoRequest] /\ UNCHANGED <<account, must, crossed>>
        ELSE /\ account' = [account EXCEPT ![r.target] = r.row]
             /\ must' = IF r.op = "delete" THEN [must EXCEPT ![r.target] = FALSE] ELSE must
             /\ request' = [request EXCEPT ![b] = IF r.op \in {"edit", "delete"} THEN NoRequest
                                                  ELSE [r EXCEPT !.saved = TRUE]]
             /\ crossed' = (crossed \/ Stale(b))
     /\ UNCHANGED <<strict, failures, session, changes, overtaken>>

\* Then the flag: lowered for one's own new password, as the admin asked for somebody else's.  One's own
\* session goes on with the new password.
Flags(b) ==
  LET r == request[b]
  IN /\ Changing(b) /\ r.saved
     /\ must' = IF account[r.target].there THEN [must EXCEPT ![r.target] = r.ask] ELSE must
     /\ session' = IF r.op = "account"
                   THEN [session EXCEPT ![b].word = r.row.word, ![b].weak = FALSE] ELSE session
     /\ request' = [request EXCEPT ![b] = NoRequest]
     /\ UNCHANGED <<account, strict, failures, changes, Gaps>>

\* The stack restarts: requests end where they are; ensure_superuser brings the first admin back.
Restart ==
  /\ OneChange
  /\ request' = [b \in Browsers |-> NoRequest]
  /\ IF account[Seed].there THEN UNCHANGED account
     ELSE account' = [account EXCEPT ![Seed] = [there |-> TRUE, admin |-> TRUE, active |-> TRUE,
                                                word |-> changes', strong |-> TRUE]]
  /\ UNCHANGED <<must, strict, failures, session, Gaps>>

\* A failure counts for LOCK steps of the clock: the newest are kept, one step older.
Recent(ages) == {i \in 1..Len(ages) : ages[i] < LOCK}
Older(ages)  == [i \in 1..Cardinality(Recent(ages)) |-> ages[i] + 1]

Tick ==
  /\ failures' = [a \in Accounts |-> Older(failures[a])]
  /\ UNCHANGED <<account, must, strict, session, request, changes, Gaps>>

Request(b) ==
  \/ \E a \in Accounts : LoginChecks(b, a)
  \/ LoginFails(b) \/ LoginPasses(b) \/ LoginEnters(b)
  \/ Logout(b) \/ PolicyChanges(b)
  \/ \E strong \in BOOLEAN : AccountPost(b, strong)
  \/ \E a \in Accounts, admin, active \in BOOLEAN : EditPost(b, a, admin, active)
  \/ \E a \in Accounts, strong, ask \in BOOLEAN : PasswordPost(b, a, strong, ask)
  \/ \E a \in Accounts, admin, strong, ask \in BOOLEAN : AddPost(b, a, admin, strong, ask)
  \/ \E a \in Accounts : DeletePost(b, a)
  \/ Saves(b) \/ Flags(b)

Next == (\E b \in Browsers : Request(b)) \/ Restart \/ Tick

Spec     == Init /\ [][Next]_vars
FairSpec == Spec /\ WF_vars(Tick)

(***************************************************************************)
(* Properties.                                                             *)
(***************************************************************************)
\* There is always an admin who can log in, whoever edits, locks and deletes whom, in whatever order -
\* as long as no page writes over a row that has changed since it was read (_lockout_error()).
AnAdminRemains == crossed \/ \E a \in Accounts : account[a].there /\ account[a].admin /\ account[a].active

\* However many browsers try at once, and whoever logs in in between: no account has more failures
\* within the lock's period than the rules say, and one for each other worker that was already past the
\* check (lock_until()).
LockHolds == \A a \in Accounts : Len(failures[a]) < LOCK_AFTER + Cardinality(Browsers)

\* An account is never locked for good, however persistently it is tried meanwhile: an unlock is simply
\* time passing (lock_until()).
LockLifts == \A a \in Accounts : []<>~Locked(a)

\* Nobody works with a password that fell short of the rules when they logged in with it: it has to be
\* replaced first.  The gaps: a page that brings the replaced password back, one that lowers the flag a
\* login has just raised (DashboardSecurityMiddleware, LockingAuthenticationForm).
ReplacedFirst == crossed \/ overtaken \/ \A b \in Browsers : MayWork(b) => ~session[b].weak
=============================================================================
