---------------------------- MODULE KioskSession ----------------------------
(***************************************************************************)
(* kiosk/views.py: the session of the one kiosk browser, served by several *)
(* gunicorn workers (docker-compose.yml), while cards are tapped and an    *)
(* admin changes the members under it (dashboard/views.py).                *)
(*                                                                         *)
(* A request reads the whole session when it starts, changes its own copy  *)
(* and writes the whole copy back when it ends - if it changed it, and if  *)
(* the answer is no 500.  Every statement in between is its own            *)
(* transaction, so one action here is what runs between two of them.       *)
(*                                                                         *)
(* Abstractions.  A card is a member's uid or an extra card linked to one. *)
(* Deadlines count down: TimePasses is one tick.  There is a coffee sort,  *)
(* the ranking is switched on, and what only the picture on the screen     *)
(* depends on (thank-you, chosen sort and its pages, language, payments)   *)
(* is left out.  A name is good or not; `fixable` ones count as good.      *)
(***************************************************************************)
EXTENDS Integers, Sequences, FiniteSets

CONSTANTS
  Cards,         \* the cards people hold to the reader
  FirstMembers,  \* those that are members at first
  FirstNamed,    \* the ones among them whose name passes coffee/names.py
  FirstExtras,   \* cards that are one member's extra cards at first
  Workers,       \* gunicorn workers
  LogoutTime,    \* ORDER_AUTO_CHECKOUT_SECONDS, AUTO_LOGOUT_SECONDS
  IdleTime,      \* IDLE_RETURN_SECONDS
  CaptureTime,   \* ALT_UID_CAPTURE_SECONDS, CARD_ADD_CAPTURE_SECONDS
  NONE,          \* nobody, no card that could be read, nothing
  \* bounds of the environment, not of the program:
  MaxScans,      \* cards held to the reader
  MaxTouches,    \* buttons pressed at the kiosk, page loads
  MaxEdits,      \* what the admin does
  MaxNights,     \* times the screen goes dark
  MaxCuts        \* power cuts

ASSUME CardAssumption ==
  /\ FirstNamed \subseteq FirstMembers /\ FirstMembers \subseteq Cards
  /\ FirstExtras \subseteq Cards \ FirstMembers
ASSUME TimeAssumption == {LogoutTime, IdleTime, CaptureTime} \subseteq Nat \ {0}
ASSUME BoundAssumption == {MaxScans, MaxTouches, MaxEdits, MaxNights, MaxCuts} \subseteq Nat
ASSUME NoneAssumption == NONE \notin Cards

VARIABLES
  \* the database
  session,   \* the kiosk's row in django_session
  scans,     \* NfcScan, oldest first
  members,   \* Member
  named,     \* those with a proper name
  departed,  \* those with departed_at
  linked,    \* MemberCard: extra card -> member
  capture,   \* AltUidCapture: [member, left]
  orders,    \* Order: [id, member, tap, overruled, proper]; the last three known to the model only
  merge,     \* member_merge_confirm's open transaction: [keep, remove, name, moved, cards]
  proper,    \* (history) those who had a proper name at some time
  \* the machine
  req,       \* worker -> its request
  screen,    \* "off", "loading" (the page), "on"
  touches, edits, nights, cuts,
  \* history
  booked,    \* orders placed so far
  decided,   \* the taps after which Cancel, another sort or Order now was pressed
  failed     \* the taps whose login a request with a 500 was to end

database == <<session, scans, members, named, departed, linked, capture, orders, merge, proper>>
ledger   == <<members, named, departed, linked, merge, proper>>
budget   == <<touches, edits, nights, cuts>>
history  == <<booked, decided, failed>>
vars     == <<database, req, screen, budget, history>>

-----------------------------------------------------------------------------
Modes == {"order", "info", "settings", "ranking"}
Kinds == {"load", "poll", "nav", "button", "aborted"}

\* uid NONE: logged out.  tap: the scan this login came from (0: none), known to the model only.
Sessions == [mode : Modes, uid : Cards \cup {NONE}, left : 0..LogoutTime, auto : BOOLEAN,
             then_order : BOOLEAN, last_scan : 0..MaxScans, idle : 0..IdleTime, tap : 0..MaxScans]
\* AltUidCapture: the member whose next card is linked, and how long the row counts.
Captures == [member : Cards, left : 0..CaptureTime]
Requests == [kind : Kinds, step : {"panel", "confirm", "checkout", "save"}, s : Sessions, modified : BOOLEAN]
ASSUME RequestAssumption == NONE \notin Requests

CardsOf(m) == {m} \cup {c \in Cards : linked[c] = m}
Owners(card) == {m \in members : card \in CardsOf(m)}
LoggedIn(s) == s.uid # NONE
In(s, mode) == LoggedIn(s) /\ s.mode = mode
Newest == Len(scans)
Capturing == capture # NONE /\ capture.left > 0

Touched(s) == [s EXCEPT !.idle = IdleTime]
ResetSession(s) ==
  Touched([s EXCEPT !.uid = NONE, !.left = 0, !.auto = TRUE, !.then_order = FALSE, !.tap = 0])
StartSession(s, mode, uid, tap) ==
  [s EXCEPT !.mode = mode, !.uid = uid, !.left = LogoutTime, !.auto = TRUE, !.tap = tap]

FirstSession == [mode |-> "order", uid |-> NONE, left |-> 0, auto |-> TRUE, then_order |-> FALSE,
                 last_scan |-> 0, idle |-> IdleTime, tap |-> 0]

Init ==
  /\ session = FirstSession
  /\ scans = <<>>
  /\ members = FirstMembers /\ named = FirstNamed /\ departed = {}
  /\ \E m \in FirstMembers : linked = [c \in Cards |-> IF c \in FirstExtras THEN m ELSE NONE]
  /\ capture = NONE /\ orders = {} /\ merge = NONE /\ proper = FirstNamed
  /\ req = [w \in Workers |-> NONE] /\ screen = "loading"
  /\ touches = 0 /\ edits = 0 /\ nights = 0 /\ cuts = 0
  /\ booked = 0 /\ decided = {} /\ failed = {}

-----------------------------------------------------------------------------
(* The browser: one poll at a time, one finger.  A page that goes away     *)
(* aborts what is in flight - for the browser; the worker still runs it.   *)

InFlight(kinds) == \E w \in Workers : req[w] # NONE /\ req[w].kind \in kinds
Aborted(kinds) ==
  [w \in Workers |-> IF req[w] # NONE /\ req[w].kind \in kinds
                     THEN [req[w] EXCEPT !.kind = "aborted"] ELSE req[w]]

Request(kind, step, s, modified) == [kind |-> kind, step |-> step, s |-> s, modified |-> modified]

\* a button press, free to come while a poll is in flight
Press(w) ==
  /\ screen = "on" /\ req[w] = NONE /\ ~InFlight({"button", "nav"})
  /\ touches < MaxTouches /\ touches' = touches + 1
  /\ UNCHANGED <<screen, edits, nights, cuts>>
Answer(w, step, s, modified) ==
  req' = [req EXCEPT ![w] = Request("button", step, s, modified)]

\* Mutant: the page goes on from the scan it had last seen.
IndexGoesOn(w) ==
  /\ screen = "loading" /\ req[w] = NONE /\ ~InFlight({"load"})
  /\ req' = [req EXCEPT ![w] = Request("load", "save", session, TRUE)]
  /\ UNCHANGED <<database, screen, budget, history>>

\* index(): from the newest scan
Index(w) ==
  /\ screen = "loading" /\ req[w] = NONE /\ ~InFlight({"load"})
  /\ req' = [req EXCEPT ![w] = Request("load", "save", [session EXCEPT !.last_scan = Newest], TRUE)]
  /\ UNCHANGED <<database, screen, budget, history>>

\* panel(): the poll twice a second
Panel(w) ==
  /\ screen = "on" /\ req[w] = NONE /\ ~InFlight({"poll", "nav"})
  /\ req' = [req EXCEPT ![w] = Request("poll", "panel", session, FALSE)]
  /\ UNCHANGED <<database, screen, budget, history>>

\* nav(): hx-sync aborts the poll that is in flight
Nav(w, mode) ==
  /\ Press(w)
  /\ req' = [Aborted({"poll"}) EXCEPT
               ![w] = Request("nav", "panel", ResetSession([session EXCEPT !.mode = mode]), TRUE)]
  /\ UNCHANGED <<database, history>>

\* (history) the member has said what they want
Decides == decided' = IF In(session, "order") THEN decided \cup {session.tap} ELSE decided

\* Mutant: a pick moves the deadline, but leaves the automatic booking on.
OrderSelectStaysAuto(w) ==
  /\ Press(w) /\ Decides
  /\ IF In(session, "order")
     THEN Answer(w, "save", [session EXCEPT !.left = LogoutTime], TRUE)
     ELSE Answer(w, "save", session, FALSE)
  /\ UNCHANGED <<database, booked, failed>>


OrderSelect(w) ==
  /\ Press(w) /\ Decides
  /\ IF In(session, "order")
     THEN Answer(w, "save", [session EXCEPT !.auto = FALSE, !.left = LogoutTime], TRUE)
     ELSE Answer(w, "save", session, FALSE)
  /\ UNCHANGED <<database, booked, failed>>

\* order_confirm() up to the insert in _place_order()
OrderConfirm(w) ==
  /\ Press(w) /\ Decides
  /\ IF ~In(session, "order") THEN Answer(w, "panel", session, FALSE)
     ELSE IF session.uid \in members THEN Answer(w, "confirm", session, TRUE)
     ELSE Answer(w, "panel", ResetSession(session), TRUE)
  /\ UNCHANGED <<database, booked, failed>>

OrderCancel(w) ==
  /\ Press(w) /\ Decides
  /\ IF In(session, "order") THEN Answer(w, "panel", ResetSession(session), TRUE)
     ELSE Answer(w, "panel", session, FALSE)
  /\ UNCHANGED <<database, booked, failed>>

\* settings_save() with a name that won't do: asked again
SettingsRefused(w) ==
  /\ Press(w) /\ In(session, "settings")
  /\ Answer(w, "panel", [session EXCEPT !.left = LogoutTime], TRUE)
  /\ UNCHANGED <<database, history>>

\* a member is created or given a name that will do
Saved(m) ==
  /\ members' = members \cup {m} /\ named' = named \cup {m} /\ proper' = proper \cup {m}

\* settings_save() with a good one: update_or_create(), then on to the order
SettingsSave(w) ==
  /\ Press(w)
  /\ IF In(session, "settings")
     THEN /\ Saved(session.uid)
          /\ Answer(w, "panel",
                    IF session.then_order
                    THEN StartSession(ResetSession(session), "order", session.uid, session.tap)
                    ELSE ResetSession(session), TRUE)
     ELSE Answer(w, "panel", session, FALSE) /\ UNCHANGED <<members, named, proper>>
  /\ UNCHANGED <<session, scans, departed, linked, capture, orders, merge, history>>

\* settings_touch(), and pay() - whose insert fails for a member who is gone
KeepAlive(w) ==
  /\ Press(w) /\ LoggedIn(session)
  /\ session.mode = "info" => session.uid \in members
  /\ Answer(w, "panel", [session EXCEPT !.left = LogoutTime], TRUE)
  /\ UNCHANGED <<database, history>>

\* the language button, the watchdog's restart of the browser: the page is loaded again
Reload ==
  /\ screen = "on" /\ touches < MaxTouches /\ touches' = touches + 1
  /\ screen' = "loading" /\ req' = Aborted(Kinds)
  /\ UNCHANGED <<database, edits, nights, cuts, history>>

\* install/kiosk_night.py: the browser is ended, hours later started again
NightBegins ==
  /\ screen # "off" /\ nights < MaxNights /\ nights' = nights + 1
  /\ screen' = "off" /\ req' = Aborted(Kinds)
  /\ UNCHANGED <<database, touches, edits, cuts, history>>
NightEnds ==
  /\ screen = "off" /\ ~InFlight(Kinds)
  /\ screen' = "loading"
  /\ UNCHANGED <<database, req, budget, history>>

-----------------------------------------------------------------------------
(* The workers.                                                            *)

Go(w, step, s, modified) ==
  req' = [req EXCEPT ![w].step = step, ![w].s = s, ![w].modified = modified]
Fail(w) == req' = [req EXCEPT ![w] = NONE]  \* a 500: the session is not saved
Render(w) == req[w] # NONE /\ req[w].step = "panel" /\ UNCHANGED <<screen, budget>>
Consume(s) == Touched([s EXCEPT !.last_scan = Newest])
Handles(w, s) == Render(w) /\ ~LoggedIn(s) /\ s.last_scan < Newest

\* _handle_new_scan() while a card is to be added: the own card, an unreadable one or
\* somebody else's is left alone ...
CaptureRefuses(w) ==
  LET s == req[w].s card == scans[Newest].card IN
  /\ Handles(w, s) /\ Capturing
  /\ card = NONE \/ card = capture.member \/ Owners(card) \ {capture.member} # {}
  /\ Go(w, "save", Consume(s), TRUE)
  /\ UNCHANGED <<database, booked, decided, failed>>

\* ... a new one is linked ...
CaptureLinks(w) ==
  LET s == req[w].s card == scans[Newest].card IN
  /\ Handles(w, s) /\ Capturing
  /\ card # NONE /\ Owners(card) = {}
  /\ linked' = [linked EXCEPT ![card] = capture.member]
  /\ capture' = NONE
  /\ Go(w, "save", Consume(s), TRUE)
  /\ UNCHANGED <<session, scans, members, named, departed, orders, merge, proper, booked, decided, failed>>

\* ... and MemberCard.uid is unique: an extra card the member already has is a 500
CaptureFails(w) ==
  LET s == req[w].s card == scans[Newest].card IN
  /\ Handles(w, s) /\ Capturing
  /\ card # NONE /\ card # capture.member /\ Owners(card) = {capture.member}
  /\ Fail(w) /\ failed' = failed \cup {session.tap}
  /\ UNCHANGED <<database, booked, decided>>

\* Mutant: only new cards are asked for a name.
OpensUnnamed(s, card, member) ==
  LET uid == IF member = NONE THEN card ELSE member
      to(mode) == StartSession(s, mode, uid, Newest)
  IN CASE s.mode = "settings" -> to("settings")
       [] s.mode = "info" -> to(IF member = NONE THEN "settings" ELSE "info")
       [] member # NONE -> to("order")
       [] OTHER -> [to("settings") EXCEPT !.then_order = TRUE]

\* names.problem(), and fixable(): which names do is not looked into.
NameWillDo(member) == member \in named

\* The session a card opens; member NONE: a new card.
Opens(s, card, member) ==
  LET uid == IF member = NONE THEN card ELSE member
      to(mode) == StartSession(s, mode, uid, Newest)
  IN CASE s.mode = "settings" -> to("settings")
       [] s.mode = "info" -> to(IF member = NONE THEN "settings" ELSE "info")
       [] NameWillDo(member) -> to("order")
       [] OTHER -> [to("settings") EXCEPT !.then_order = TRUE]

CardRefused(w) ==
  LET s == req[w].s card == scans[Newest].card IN
  /\ Handles(w, s) /\ ~Capturing
  /\ card = NONE \/ Owners(card) \cap departed # {}
  /\ Go(w, "save", Consume(s), TRUE)
  /\ UNCHANGED <<database, booked, decided, failed>>

CardLogsIn(w) ==
  LET s == req[w].s card == scans[Newest].card IN
  /\ Handles(w, s) /\ ~Capturing /\ card # NONE
  /\ \E member \in IF Owners(card) = {} THEN {NONE} ELSE Owners(card) \ departed :
       Go(w, "save", Opens(Consume(s), card, member), TRUE)
  /\ UNCHANGED <<database, booked, decided, failed>>

\* Mutant: any capture row keeps the screen, also one nobody cleans up any more.
IdleReturnUnlessRow(w) ==
  LET s == req[w].s
      due == s.mode # "order" /\ s.idle = 0 /\ capture = NONE
  IN /\ Render(w) /\ ~LoggedIn(s) /\ s.last_scan = Newest
     /\ IF due THEN Go(w, "save", [s EXCEPT !.mode = "order"], TRUE)
        ELSE Go(w, "save", s, req[w].modified)
     /\ UNCHANGED <<database, history>>

\* _idle_return(): never while a card is being added
IdleReturn(w) ==
  LET s == req[w].s
      due == s.mode # "order" /\ s.idle = 0 /\ ~Capturing
  IN /\ Render(w) /\ ~LoggedIn(s) /\ s.last_scan = Newest
     /\ IF due THEN Go(w, "save", [s EXCEPT !.mode = "order"], TRUE)
        ELSE Go(w, "save", s, req[w].modified)
     /\ UNCHANGED <<database, history>>

\* Mutant: the auto-checkout does not look whether the member still exists.
TickUnchecked(w) ==
  LET s == req[w].s IN
  /\ Render(w) /\ LoggedIn(s)
  /\ IF s.left > 0 THEN Go(w, "save", s, req[w].modified)
     ELSE IF s.mode = "order" /\ s.auto THEN Go(w, "checkout", s, TRUE)
     ELSE Go(w, "save", ResetSession(s), TRUE)
  /\ UNCHANGED <<database, history>>

\* _tick(): auto-checkout or auto-logout
Tick(w) ==
  LET s == req[w].s IN
  /\ Render(w) /\ LoggedIn(s)
  /\ IF s.left > 0 THEN Go(w, "save", s, req[w].modified)
     ELSE IF s.mode = "order" /\ s.auto /\ s.uid \in members THEN Go(w, "checkout", s, TRUE)
     ELSE Go(w, "save", ResetSession(s), TRUE)
  /\ UNCHANGED <<database, history>>

\* Order.objects.create() in _place_order() and the rest of the view: back to the panel
\* from order_confirm(), to the end from _tick()
PlaceOrder(w) ==
  LET r == req[w] IN
  /\ r # NONE /\ r.step \in {"confirm", "checkout"}
  /\ IF r.s.uid \in members
     THEN /\ booked' = booked + 1
          /\ orders' = orders \cup {[id |-> booked', member |-> r.s.uid, tap |-> r.s.tap,
                                     overruled |-> r.step = "checkout" /\ r.s.tap \in decided,
                                     proper |-> r.s.uid \in proper]}
          /\ Go(w, IF r.step = "confirm" THEN "panel" ELSE "save", ResetSession(r.s), TRUE)
          /\ UNCHANGED failed
     ELSE Fail(w) /\ failed' = failed \cup {r.s.tap} /\ UNCHANGED <<orders, booked>>
  /\ UNCHANGED <<session, scans, ledger, capture, screen, budget, decided>>

\* SessionMiddleware.process_response()
SaveSession(w) ==
  LET r == req[w] IN
  /\ r # NONE /\ r.step = "save"
  /\ session' = IF r.modified THEN r.s ELSE session
  /\ screen' = IF r.kind = "load" THEN "on" ELSE screen
  /\ Fail(w)
  /\ UNCHANGED <<scans, ledger, capture, orders, budget, history>>

-----------------------------------------------------------------------------
(* Cards, the admin, time and power.                                       *)

\* coffee/management/commands/mqtt_listener.py: handle_payload()
CardTapped(card) ==
  /\ Len(scans) < MaxScans
  /\ scans' = Append(scans, [card |-> card, dark |-> screen = "off" /\ ~InFlight(Kinds)])
  /\ UNCHANGED <<session, ledger, capture, orders, req, screen, budget, history>>

Edit == edits < MaxEdits /\ edits' = edits + 1
        /\ UNCHANGED <<session, scans, req, screen, touches, nights, cuts, history>>

\* member_alt_uid_start(), card_add_start(): the one capture there is
ArmCapture(m) ==
  /\ Edit /\ m \in members
  /\ capture' = [member |-> m, left |-> CaptureTime]
  /\ UNCHANGED <<ledger, orders>>

\* the page that armed it finds it expired
CaptureTimedOut ==
  /\ capture # NONE /\ capture.left = 0
  /\ capture' = NONE
  /\ UNCHANGED <<session, scans, ledger, orders, req, screen, budget, history>>

MarkDeparted(m) ==
  /\ Edit /\ m \in members \ departed
  /\ departed' = departed \cup {m}
  /\ UNCHANGED <<members, named, linked, merge, proper, capture, orders>>

Reactivate(m) ==
  /\ Edit /\ m \in departed
  /\ departed' = departed \ {m}
  /\ UNCHANGED <<members, named, linked, merge, proper, capture, orders>>

\* member_add(), member_edit(): MemberForm takes the names the kiosk takes
MemberSaved(m) ==
  /\ Edit /\ Saved(m)
  /\ UNCHANGED <<departed, linked, merge, capture, orders>>

\* member_name_rules(): a name that was fine is blocked now
NameBlocked(m) ==
  /\ Edit /\ m \in named
  /\ named' = named \ {m}
  /\ UNCHANGED <<members, departed, linked, merge, proper, capture, orders>>

\* a member's row goes, and by cascade the capture, with the names, cards and orders given
Drop(m, names, cards, rows) ==
  /\ members' = members \ {m} /\ departed' = departed \ {m}
  /\ named' = names \ {m} /\ proper' = (proper \cup names) \ {m}
  /\ linked' = cards
  /\ capture' = IF capture # NONE /\ capture.member = m THEN NONE ELSE capture
  /\ orders' = rows

\* Mutant: their extra cards outlive them.
MemberDeleteKeepsCards(m) ==
  /\ Edit /\ m \in members
  /\ Drop(m, named, linked, {o \in orders : o.member # m})
  /\ UNCHANGED merge

\* member_delete()
MemberDelete(m) ==
  /\ Edit /\ m \in members
  /\ Drop(m, named, [c \in Cards |-> IF linked[c] = m THEN NONE ELSE linked[c]],
          {o \in orders : o.member # m})
  /\ UNCHANGED merge

\* member_merge_confirm(): orders and cards are moved, and the more recently active of the
\* two names stays ...
MergeBegins(keep, remove) ==
  /\ Edit /\ merge = NONE /\ keep # remove /\ {keep, remove} \subseteq members
  /\ \E name \in {"own", IF remove \in named THEN "good" ELSE "bad"} :
       merge' = [keep |-> keep, remove |-> remove, name |-> name,
                 moved |-> {o \in orders : o.member = remove},
                 cards |-> {c \in Cards : linked[c] = remove}]
  /\ UNCHANGED <<members, named, proper, departed, linked, capture, orders>>

\* ... then remove.delete() takes what has come since along with it
MergeEnds ==
  LET k == merge.keep r == merge.remove IN
  /\ merge # NONE /\ {k, r} \subseteq members /\ linked[r] = NONE
  /\ Drop(r, CASE merge.name = "own" -> named [] merge.name = "good" -> named \cup {k}
               [] OTHER -> named \ {k},
          [c \in Cards |-> IF c = r \/ c \in merge.cards THEN k
                              ELSE IF linked[c] = r THEN NONE ELSE linked[c]],
          {o \in orders : o.member # r} \cup {[o EXCEPT !.member = k] : o \in merge.moved})
  /\ merge' = NONE
  /\ UNCHANGED <<session, scans, req, screen, budget, history>>

\* a member gone meanwhile, or the card's number taken: rolled back
MergeFails ==
  /\ merge # NONE
  /\ ~({merge.keep, merge.remove} \subseteq members /\ linked[merge.remove] = NONE)
  /\ merge' = NONE
  /\ UNCHANGED <<session, scans, members, named, proper, departed, linked, capture, orders, req,
                 screen, budget, history>>

Down(n) == IF n > 0 THEN n - 1 ELSE 0
Later(s) == [s EXCEPT !.left = Down(@), !.idle = Down(@)]
TimePasses ==
  /\ \/ session.left > 0 \/ session.idle > 0 \/ Capturing
     \/ \E w \in Workers : req[w] # NONE /\ Later(req[w].s) # req[w].s
  /\ session' = Later(session)
  /\ req' = [w \in Workers |-> IF req[w] = NONE THEN NONE ELSE [req[w] EXCEPT !.s = Later(@)]]
  /\ capture' = IF Capturing THEN [capture EXCEPT !.left = @ - 1] ELSE capture
  /\ UNCHANGED <<scans, ledger, orders, screen, budget, history>>

\* everything committed stays; the browser comes back with its cookie, unless it is night
PowerCut ==
  /\ cuts < MaxCuts /\ cuts' = cuts + 1
  /\ req' = [w \in Workers |-> NONE] /\ merge' = NONE
  /\ screen' = IF screen = "off" THEN "off" ELSE "loading"
  /\ UNCHANGED <<session, scans, members, named, proper, departed, linked, capture, orders,
                 touches, edits, nights, history>>

Serve(w) ==
  \/ CaptureRefuses(w) \/ CaptureLinks(w) \/ CaptureFails(w)
  \/ CardRefused(w) \/ CardLogsIn(w)
  \/ IdleReturn(w) \/ Tick(w) \/ PlaceOrder(w) \/ SaveSession(w)

Buttons(w) ==
  \/ \E mode \in Modes : Nav(w, mode)
  \/ OrderSelect(w) \/ OrderConfirm(w) \/ OrderCancel(w)
  \/ SettingsRefused(w) \/ SettingsSave(w) \/ KeepAlive(w)

Admin ==
  \/ \E m \in Cards : ArmCapture(m) \/ MarkDeparted(m) \/ Reactivate(m)
                     \/ MemberSaved(m) \/ NameBlocked(m) \/ MemberDelete(m)
  \/ \E keep, remove \in Cards : MergeBegins(keep, remove)
  \/ MergeEnds \/ MergeFails \/ CaptureTimedOut

Next ==
  \/ \E w \in Workers : Index(w) \/ Panel(w) \/ Buttons(w) \/ Serve(w)
  \/ Reload \/ NightBegins \/ NightEnds
  \/ \E card \in Cards \cup {NONE} : CardTapped(card)
  \/ Admin \/ TimePasses \/ PowerCut

Spec == Init /\ [][Next]_vars

\* Workers answer, the page polls every 500 ms, the morning comes, transactions end.
\* Nobody has to touch the screen, hold up a card or cut the power.
Fairness ==
  /\ \A w \in Workers : WF_vars(Serve(w))
  /\ WF_vars(\E w \in Workers : Index(w))
  /\ WF_vars(\E w \in Workers : Panel(w))
  /\ WF_vars(NightEnds) /\ WF_vars(TimePasses) /\ WF_vars(MergeEnds \/ MergeFails)
FairSpec == Spec /\ Fairness

-----------------------------------------------------------------------------
(* Properties.                                                             *)

TypeOK ==
  /\ session \in Sessions
  /\ scans \in Seq([card : Cards \cup {NONE}, dark : BOOLEAN]) /\ Newest <= MaxScans
  /\ named \subseteq proper /\ proper \subseteq members /\ departed \subseteq members /\ members \subseteq Cards
  /\ linked \in [Cards -> members \cup {NONE}]
  /\ capture = NONE \/ (capture \in Captures /\ capture.member \in members)
  /\ \A o \in orders : o.id \in 1..booked /\ o.member \in members /\ o.tap \in 1..Newest
  /\ \A w \in Workers : req[w] = NONE \/ req[w] \in Requests
  /\ screen \in {"off", "loading", "on"}

\* A card held to the reader while the screen was dark for the night (and the last poll of the
\* evening answered) never books anything, "not later in the morning either" (docs/MANUAL.en.md:678): index() starts every page from
\* the newest scan, whatever the sessions and requests of the evening were doing.
NightTapsNotBooked == \A o \in orders : ~scans[o.tap].dark

\* Nobody books who never had a proper name: the order screen only opens for a member who has
\* one, or through settings_save(), which asks for it (coffee/names.py:8-9). (A name blocked
\* or merged away while the order screen is open does not close it.)
NamedBeforeOrder == \A o \in orders : o.proper

\* One login books at most one coffee, by the button or by itself (kiosk/tests/test_panel.py:75:
\* one order after "Order now"), and none against a pick or Cancel pressed in it - for every login
\* none of whose requests failed: what the handlers promise as long as they run one after the other.
BookedAsAsked ==
  \A o \in orders : o.tap \in failed \/ (~o.overruled /\ \A p \in orders : o.tap = p.tap => o = p)

\* Nobody stays logged in: the poll ends the session, also when the member is deleted or
\* merged away while it is open ("leaving the kiosk stuck on an error for good",
\* kiosk/views.py:355-357).
SessionEnds == LoggedIn(session) ~> ~LoggedIn(session)

\* "Pay, Settings and the Ranking go back to Order by themselves": the next person always
\* finds the kiosk ready to order, also after a card was being added meanwhile.
IdleReturns == session.mode # "order" /\ ~LoggedIn(session) ~> session.mode = "order" \/ LoggedIn(session)
=============================================================================
