------------------------- MODULE KioskSessionProofs -------------------------
(***************************************************************************)
(* Proofs about KioskSession for any set of cards, members and workers and *)
(* any length of the deadlines: who books, and from which tap.             *)
(***************************************************************************)
EXTENDS KioskSession, TLAPS

(***************************************************************************)
(* The database.                                                           *)
(***************************************************************************)
Taps   == [card : Cards \cup {NONE}, dark : BOOLEAN]
Orders == [id : Nat, member : Cards, tap : Nat, overruled : BOOLEAN, proper : BOOLEAN]
Merges == [keep : Cards, remove : Cards, name : {"own", "good", "bad"}, moved : SUBSET Orders, cards : SUBSET Cards]

LedgerOK ==
  /\ named \subseteq proper /\ proper \subseteq members /\ departed \subseteq members /\ members \subseteq Cards
  /\ linked \in [Cards -> members \cup {NONE}]
  /\ capture = NONE \/ (capture \in Captures /\ capture.member \in members)

TapsOK == scans \in Seq(Taps) /\ Newest <= MaxScans

\* A coffee of a tap at a lit screen, by somebody who had a proper name.
GoodOrder(o) == o \in Orders /\ o.id \in 1..booked /\ o.tap \in 1..Newest /\ ~scans[o.tap].dark /\ o.proper

\* What a merge is about to move is as good as what is in the table.
RowsOK ==
  /\ booked \in Nat
  /\ \A o \in orders : GoodOrder(o) /\ o.member \in members
  /\ merge # NONE => merge \in Merges /\ merge.keep # merge.remove /\ \A o \in merge.moved : GoodOrder(o)

(***************************************************************************)
(* The session, and the copies of it that requests work with.              *)
(***************************************************************************)
\* Gone, or has had a proper name: whoever is created again gets one.
Proper(m) == m \in proper \/ m \notin members

GoodSession(s) ==
  /\ s \in Sessions /\ s.tap <= Newest /\ s.last_scan <= Newest
  /\ LoggedIn(s) => s.tap >= 1 /\ ~scans[s.tap].dark
  /\ In(s, "order") => Proper(s.uid)

\* It does not go back behind a tap at the dark screen.
PastDark(s) == \A i \in 1..Newest : scans[i].dark => i <= s.last_scan

GoodRequest(r) ==
  /\ GoodSession(r.s) /\ PastDark(r.s)
  /\ r.step \in {"confirm", "checkout"} => In(r.s, "order")
  /\ r.kind = "load" => r.step = "save" /\ r.modified

SessionOK ==
  /\ GoodSession(session)
  /\ screen \in {"off", "loading", "on"} /\ (screen = "on" => PastDark(session))
  /\ req \in [Workers -> Requests \cup {NONE}]
  /\ \A w \in Workers : req[w] # NONE => GoodRequest(req[w])

KioskInv == LedgerOK /\ TapsOK /\ RowsOK /\ SessionOK

-----------------------------------------------------------------------------
USE CardAssumption, TimeAssumption, BoundAssumption, NoneAssumption, RequestAssumption

(***************************************************************************)
(* What the views do to a copy of the session.                             *)
(***************************************************************************)
\* As far as cards and bookings go, the same.
Alike(t, s) == t \in Sessions /\ t.mode = s.mode /\ t.uid = s.uid /\ t.tap = s.tap /\ t.last_scan = s.last_scan

LEMMA Keeping ==
  ASSUME NEW s \in Sessions
  PROVE  /\ Alike(s, s) /\ Alike(Touched(s), s) /\ Alike(Later(s), s)
         /\ Alike([s EXCEPT !.left = LogoutTime], s)
         /\ Alike([s EXCEPT !.auto = FALSE, !.left = LogoutTime], s)
<1>1. LogoutTime \in 0..LogoutTime /\ IdleTime \in 0..IdleTime /\ 0 \in 0..LogoutTime
  OBVIOUS
<1>2. Touched(s) \in Sessions /\ Alike(Touched(s), s)
  BY <1>1 DEF Touched, Alike, Sessions
<1>3. /\ Alike([s EXCEPT !.left = LogoutTime], s)
      /\ Alike([s EXCEPT !.auto = FALSE, !.left = LogoutTime], s)
  BY <1>1 DEF Alike, Sessions
<1>4. Alike(Later(s), s)
  <2>1. s.left \in 0..LogoutTime /\ s.idle \in 0..IdleTime
    BY DEF Sessions
  <2>2. Down(s.left) \in 0..LogoutTime /\ Down(s.idle) \in 0..IdleTime
    BY <2>1 DEF Down
  <2> QED
    BY <2>2 DEF Later, Alike, Sessions
<1> QED
  BY <1>2, <1>3, <1>4 DEF Alike

LEMMA Resetting ==
  ASSUME NEW s \in Sessions
  PROVE  LET t == ResetSession(s)
         IN t \in Sessions /\ t.uid = NONE /\ t.tap = 0 /\ t.last_scan = s.last_scan /\ t.mode = s.mode
<1>1. IdleTime \in 0..IdleTime /\ 0 \in 0..LogoutTime /\ 0 \in 0..MaxScans
  OBVIOUS
<1> QED
  BY <1>1 DEF ResetSession, Touched, Sessions

LEMMA Starting ==
  ASSUME NEW s \in Sessions, NEW mode \in Modes, NEW uid \in Cards, NEW tap \in 0..MaxScans
  PROVE  LET t == StartSession(s, mode, uid, tap)
         IN t \in Sessions /\ t.uid = uid /\ t.tap = tap /\ t.last_scan = s.last_scan /\ t.mode = mode
<1>1. LogoutTime \in 0..LogoutTime
  OBVIOUS
<1> QED
  BY <1>1 DEF StartSession, Sessions

LEMMA Consuming ==
  ASSUME NEW s \in Sessions, TapsOK
  PROVE  LET t == Consume(s)
         IN t \in Sessions /\ t.uid = s.uid /\ t.tap = s.tap /\ t.last_scan = Newest /\ t.mode = s.mode
<1>1. IdleTime \in 0..IdleTime /\ Newest \in 0..MaxScans
  BY DEF TapsOK, Newest
<1> QED
  BY <1>1 DEF Consume, Touched, Sessions

LEMMA Switching ==
  ASSUME NEW s \in Sessions, NEW mode \in Modes
  PROVE  LET t == [s EXCEPT !.mode = mode]
         IN t \in Sessions /\ t.uid = s.uid /\ t.tap = s.tap /\ t.last_scan = s.last_scan /\ t.mode = mode
BY DEF Sessions

(***************************************************************************)
(* Good copies stay good.                                                  *)
(***************************************************************************)
LEMMA AlikeGood ==
  ASSUME NEW s \in Sessions, NEW t, Alike(t, s), GoodSession(s)
  PROVE  GoodSession(t) /\ (PastDark(s) => PastDark(t)) /\ (In(s, "order") => In(t, "order"))
BY DEF Alike, GoodSession, PastDark, In, LoggedIn

\* Who is logged out is good, with whatever scan they have seen.
LEMMA LoggedOutGood ==
  ASSUME NEW t \in Sessions, t.uid = NONE, t.tap <= Newest, t.last_scan <= Newest
  PROVE  GoodSession(t)
BY DEF GoodSession, LoggedIn, In

LEMMA ResetGood ==
  ASSUME NEW s \in Sessions, GoodSession(s), TapsOK
  PROVE  GoodSession(ResetSession(s)) /\ (PastDark(s) => PastDark(ResetSession(s)))
<1>1. Newest >= 0
  BY DEF TapsOK, Newest
<1> QED
  BY <1>1, Resetting, LoggedOutGood DEF GoodSession, PastDark

\* A tap not seen yet, of a copy past the dark taps, is one at a lit screen.
LEMMA FreshTap ==
  ASSUME TapsOK, NEW s \in Sessions, PastDark(s), s.last_scan < Newest
  PROVE  Newest \in 1..MaxScans /\ ~scans[Newest].dark /\ scans[Newest].card \in Cards \cup {NONE}
<1>1. Newest \in 1..Newest /\ Newest \in 1..MaxScans /\ s.last_scan \in Nat
  BY DEF TapsOK, Newest, Sessions
<1>2. scans[Newest] \in Taps
  BY <1>1 DEF TapsOK, Newest
<1> QED
  BY <1>1, <1>2 DEF PastDark, Taps

LEMMA ConsumeGood ==
  ASSUME TapsOK, NEW s \in Sessions, GoodSession(s)
  PROVE  GoodSession(Consume(s)) /\ PastDark(Consume(s))
<1>1. Newest \in Nat
  BY DEF TapsOK, Newest
<1>2. PICK t : t = Consume(s)
  OBVIOUS
<1>3. t \in Sessions /\ t.uid = s.uid /\ t.tap = s.tap /\ t.last_scan = Newest /\ t.mode = s.mode
  BY <1>2, Consuming
<1>4. GoodSession(t)
  BY <1>1, <1>3 DEF GoodSession, In, LoggedIn
<1>5. PastDark(t)
  BY <1>1, <1>3 DEF PastDark
<1> QED
  BY <1>2, <1>4, <1>5

(***************************************************************************)
(* Requests.                                                               *)
(***************************************************************************)
\* Cards, and who has had a proper name, are as they were.
Stays == scans' = scans /\ \A m \in Cards : Proper(m) => Proper(m)'

LEMMA StaysGood ==
  ASSUME Stays, NEW s \in Sessions
  PROVE  (GoodSession(s) => GoodSession(s)') /\ (PastDark(s) => PastDark(s)')
<1>1. s.uid \in Cards \cup {NONE} /\ (In(s, "order") => s.uid \in Cards)
  BY DEF Sessions, In, LoggedIn
<1> QED
  BY <1>1 DEF Stays, GoodSession, PastDark, Newest, LoggedIn, In

LEMMA StaysRequest ==
  ASSUME Stays, NEW r \in Requests, GoodRequest(r)
  PROVE  GoodRequest(r)'
<1>1. r.s \in Sessions
  BY DEF Requests
<1>2. GoodSession(r.s) /\ PastDark(r.s)
  BY DEF GoodRequest
<1>3. GoodSession(r.s)' /\ PastDark(r.s)'
  BY <1>1, <1>2, StaysGood
<1> QED
  BY <1>3 DEF GoodRequest, In, LoggedIn

LEMMA AbortedGood ==
  ASSUME NEW r \in Requests, GoodRequest(r)
  PROVE  LET a == [r EXCEPT !.kind = "aborted"] IN a \in Requests /\ GoodRequest(a)
<1>1. PICK a : a = [r EXCEPT !.kind = "aborted"]
  OBVIOUS
<1>2. a \in Requests /\ a.kind = "aborted" /\ a.step = r.step /\ a.s = r.s
  BY <1>1 DEF Requests, Kinds
<1>3. GoodRequest(a)
  BY <1>2 DEF GoodRequest
<1> QED
  BY <1>1, <1>2, <1>3

\* One worker's request moves on; others', at most, are aborted.
LEMMA OneMoves ==
  ASSUME SessionOK, Stays, UNCHANGED <<session, screen>>, NEW w \in Workers, NEW r \in Requests \cup {NONE},
         r # NONE => GoodRequest(r) \/ GoodRequest(r)',
         \/ req' = [req EXCEPT ![w] = r]
         \/ req' = [Aborted({"poll"}) EXCEPT ![w] = r]
  PROVE  SessionOK'
<1>1. req \in [Workers -> Requests \cup {NONE}] /\ \A v \in Workers : req[v] # NONE => req[v] \in Requests
  BY DEF SessionOK
<1>2. ASSUME NEW v \in Workers, req[v] # NONE
      PROVE  [req[v] EXCEPT !.kind = "aborted"] \in Requests /\ GoodRequest([req[v] EXCEPT !.kind = "aborted"])
  BY <1>1, <1>2, AbortedGood DEF SessionOK
<1>3. /\ req' \in [Workers -> Requests \cup {NONE}] /\ req'[w] = r
      /\ \A v \in Workers \ {w} : req'[v] # NONE =>
           req[v] # NONE /\ (req'[v] = req[v] \/ req'[v] = [req[v] EXCEPT !.kind = "aborted"])
  <2>1. CASE req' = [req EXCEPT ![w] = r]
    BY <1>1, <2>1
  <2>2. CASE req' = [Aborted({"poll"}) EXCEPT ![w] = r]
    <3>1. PICK polled : polled = Aborted({"poll"})
      OBVIOUS
    <3>2. /\ polled \in [Workers -> Requests \cup {NONE}]
          /\ \A v \in Workers : polled[v] # NONE =>
               req[v] # NONE /\ (polled[v] = req[v] \/ polled[v] = [req[v] EXCEPT !.kind = "aborted"])
      BY <1>1, <1>2, <3>1 DEF Aborted
    <3> QED
      BY <2>2, <3>1, <3>2
  <2> QED
    BY <2>1, <2>2
<1>4. ASSUME NEW v \in Workers, req'[v] # NONE PROVE GoodRequest(req[v])'
  <2>1. PICK q \in Requests : q = req'[v] /\ (GoodRequest(q) \/ GoodRequest(q)')
    BY <1>1, <1>2, <1>3, <1>4 DEF SessionOK
  <2>2. GoodRequest(q)'
    BY <2>1, StaysRequest
  <2> QED
    BY <2>1, <2>2 DEF GoodRequest
<1>5. GoodSession(session)' /\ (PastDark(session) => PastDark(session)')
  <2>1. session \in Sessions /\ GoodSession(session)
    BY DEF SessionOK, GoodSession
  <2>2. PICK s \in Sessions : s = session
    BY <2>1
  <2>3. GoodSession(s)' /\ (PastDark(s) => PastDark(s)')
    BY <2>1, <2>2, StaysGood
  <2> QED
    BY <2>2, <2>3 DEF GoodSession, PastDark
<1> QED
  BY <1>3, <1>4, <1>5 DEF SessionOK

\* What Go() makes of a request.
LEMMA GoIs ==
  ASSUME SessionOK, NEW w \in Workers, req[w] # NONE, NEW step \in {"panel", "confirm", "checkout", "save"},
         NEW s \in Sessions, NEW modified \in BOOLEAN, Go(w, step, s, modified)
  PROVE  \E r \in Requests : /\ req' = [req EXCEPT ![w] = r]
                             /\ r.kind = req[w].kind /\ r.step = step /\ r.s = s /\ r.modified = modified
<1>1. req \in [Workers -> Requests \cup {NONE}] /\ req[w] \in Requests
  BY DEF SessionOK
<1>2. PICK r : r = [req[w] EXCEPT !.step = step, !.s = s, !.modified = modified]
  OBVIOUS
<1>3. r \in Requests /\ r.kind = req[w].kind /\ r.step = step /\ r.s = s /\ r.modified = modified
  BY <1>1, <1>2 DEF Requests
<1>4. req' = [req EXCEPT ![w] = r]
  BY <1>1, <1>2 DEF Go
<1> QED
  BY <1>3, <1>4

\* A worker that goes on with a good copy.
LEMMA GoesOn ==
  ASSUME SessionOK, Stays, UNCHANGED <<session, screen>>, NEW w \in Workers, req[w] # NONE, req[w].step # "save",
         NEW step \in {"panel", "confirm", "checkout", "save"}, NEW s \in Sessions, NEW modified \in BOOLEAN,
         Go(w, step, s, modified), GoodSession(s), PastDark(s),
         step \in {"confirm", "checkout"} => In(s, "order")
  PROVE  SessionOK'
<1>1. PICK r \in Requests : /\ req' = [req EXCEPT ![w] = r]
                            /\ r.kind = req[w].kind /\ r.step = step /\ r.s = s /\ r.modified = modified
  BY GoIs
<1>2. GoodRequest(r)
  BY <1>1 DEF GoodRequest, SessionOK
<1> QED
  BY <1>1, <1>2, OneMoves

(***************************************************************************)
(* The page: what it asks for.                                             *)
(***************************************************************************)
LEMMA RequestIs ==
  ASSUME NEW kind \in Kinds, NEW step \in {"panel", "confirm", "checkout", "save"}, NEW s \in Sessions,
         NEW modified \in BOOLEAN, NEW r, r = Request(kind, step, s, modified)
  PROVE  r \in Requests /\ r.kind = kind /\ r.step = step /\ r.s = s /\ r.modified = modified
BY DEF Request, Requests

\* A button that is answered with a good copy.
LEMMA Answers ==
  ASSUME SessionOK, Stays, UNCHANGED <<session, screen>>, NEW w \in Workers,
         NEW step \in {"panel", "confirm", "checkout", "save"}, NEW s \in Sessions, NEW modified \in BOOLEAN,
         Answer(w, step, s, modified), GoodSession(s), PastDark(s),
         step \in {"confirm", "checkout"} => In(s, "order")
  PROVE  SessionOK'
<1>1. PICK r : r = Request("button", step, s, modified)
  OBVIOUS
<1>2. r \in Requests /\ r.kind = "button" /\ r.step = step /\ r.s = s /\ r.modified = modified
  BY <1>1, RequestIs DEF Kinds
<1>3. GoodRequest(r)
  BY <1>2 DEF GoodRequest
<1>4. req' = [req EXCEPT ![w] = r]
  BY <1>1 DEF Answer
<1> QED
  BY <1>2, <1>3, <1>4, OneMoves

\* The session as it is stored, and the two ways most buttons leave it.
LEMMA StoredGood ==
  ASSUME SessionOK, TapsOK, screen = "on"
  PROVE  \E s \in Sessions : s = session /\ GoodSession(s) /\ PastDark(s)
BY DEF SessionOK, GoodSession

LEMMA ResetOK ==
  ASSUME TapsOK, NEW s \in Sessions, GoodSession(s), PastDark(s)
  PROVE  ResetSession(s) \in Sessions /\ GoodSession(ResetSession(s)) /\ PastDark(ResetSession(s))
BY Resetting, ResetGood

LEMMA AlikeOK ==
  ASSUME NEW s \in Sessions, NEW t, Alike(t, s), GoodSession(s), PastDark(s)
  PROVE  t \in Sessions /\ GoodSession(t) /\ PastDark(t)
BY AlikeGood DEF Alike

\* The ledger is not touched.
LEMMA StaysLedger == ASSUME UNCHANGED <<scans, members, proper>> PROVE Stays
BY DEF Stays, Proper

\* Names are only added.
LEMMA StaysSaved == ASSUME NEW m \in Cards, Saved(m), scans' = scans PROVE Stays
BY DEF Saved, Stays, Proper

LEMMA IndexOK == ASSUME KioskInv, NEW w \in Workers, Index(w) PROVE SessionOK'
<1>1. SessionOK /\ TapsOK /\ Stays /\ UNCHANGED <<session, screen>> /\ session \in Sessions
  BY StaysLedger DEF KioskInv, Index, database, SessionOK, GoodSession
<1>2. PICK t : t = [session EXCEPT !.last_scan = Newest]
  OBVIOUS
<1>3. Newest \in 0..MaxScans
  BY <1>1 DEF TapsOK, Newest
<1>4. t \in Sessions /\ t.mode = session.mode /\ t.uid = session.uid /\ t.tap = session.tap /\ t.last_scan = Newest
  BY <1>1, <1>2, <1>3 DEF Sessions
<1>5. GoodSession(t) /\ PastDark(t)
  BY <1>1, <1>3, <1>4 DEF SessionOK, GoodSession, PastDark, In, LoggedIn
<1>6. PICK r : r = Request("load", "save", t, TRUE)
  OBVIOUS
<1>7. r \in Requests /\ r.kind = "load" /\ r.step = "save" /\ r.s = t /\ r.modified = TRUE
  BY <1>4, <1>6 DEF Request, Requests, Kinds
<1>8. GoodRequest(r)
  BY <1>5, <1>7 DEF GoodRequest
<1>9. req' = [req EXCEPT ![w] = r]
  BY <1>2, <1>6 DEF Index
<1> QED
  BY <1>1, <1>7, <1>8, <1>9, OneMoves

LEMMA PanelOK == ASSUME KioskInv, NEW w \in Workers, Panel(w) PROVE SessionOK'
<1>1. SessionOK /\ TapsOK /\ Stays /\ UNCHANGED <<session, screen>> /\ screen = "on"
  BY StaysLedger DEF KioskInv, Panel, database
<1>2. PICK s \in Sessions : s = session /\ GoodSession(s) /\ PastDark(s)
  BY <1>1, StoredGood
<1>3. PICK r : r = Request("poll", "panel", s, FALSE)
  OBVIOUS
<1>4. r \in Requests /\ r.kind = "poll" /\ r.step = "panel" /\ r.s = s /\ r.modified = FALSE
  BY <1>3 DEF Request, Requests, Kinds
<1>5. GoodRequest(r)
  BY <1>2, <1>4 DEF GoodRequest
<1>6. req' = [req EXCEPT ![w] = r]
  BY <1>2, <1>3 DEF Panel
<1> QED
  BY <1>1, <1>4, <1>5, <1>6, OneMoves

LEMMA NavOK == ASSUME KioskInv, NEW w \in Workers, NEW mode \in Modes, Nav(w, mode) PROVE SessionOK'
<1>1. SessionOK /\ TapsOK /\ Stays /\ UNCHANGED <<session, screen>> /\ screen = "on"
  BY StaysLedger DEF KioskInv, Nav, Press, database
<1>2. PICK s \in Sessions : s = session /\ GoodSession(s) /\ PastDark(s)
  BY <1>1, StoredGood
<1>3. PICK switched : switched = [s EXCEPT !.mode = mode]
  OBVIOUS
<1>4. switched \in Sessions /\ switched.last_scan = s.last_scan
  BY <1>3, Switching
<1>5. PICK t : t = ResetSession(switched)
  OBVIOUS
<1>6. t \in Sessions /\ t.uid = NONE /\ t.tap = 0 /\ t.last_scan = s.last_scan
  BY <1>4, <1>5, Resetting
<1>7. GoodSession(t) /\ PastDark(t)
  <2>1. Newest \in Nat /\ t.last_scan <= Newest
    BY <1>1, <1>2, <1>6 DEF TapsOK, Newest, GoodSession
  <2> QED
    BY <1>2, <1>6, <2>1, LoggedOutGood DEF PastDark
<1>8. PICK r : r = Request("nav", "panel", t, TRUE)
  OBVIOUS
<1>9. r \in Requests /\ r.kind = "nav" /\ r.step = "panel" /\ r.s = t /\ r.modified = TRUE
  BY <1>6, <1>8 DEF Request, Requests, Kinds
<1>10. GoodRequest(r)
  BY <1>7, <1>9 DEF GoodRequest
<1>11. req' = [Aborted({"poll"}) EXCEPT ![w] = r]
  BY <1>2, <1>3, <1>5, <1>8 DEF Nav
<1> QED
  BY <1>1, <1>9, <1>10, <1>11, OneMoves

\* Every button of a screen of its own.
LEMMA PickOK ==
  ASSUME KioskInv, NEW w \in Workers, OrderSelect(w) \/ OrderConfirm(w) \/ OrderCancel(w) \/ SettingsRefused(w) \/ KeepAlive(w)
  PROVE  SessionOK'
<1>1. SessionOK /\ TapsOK /\ Stays /\ UNCHANGED <<session, screen>> /\ screen = "on"
  BY StaysLedger DEF KioskInv, OrderSelect, OrderConfirm, OrderCancel, SettingsRefused, KeepAlive, Press, database
<1>2. PICK s \in Sessions : s = session /\ GoodSession(s) /\ PastDark(s)
  BY <1>1, StoredGood
<1>3. \E step \in {"panel", "confirm", "save"}, modified \in BOOLEAN,
         t \in {s, ResetSession(s), [s EXCEPT !.left = LogoutTime], [s EXCEPT !.auto = FALSE, !.left = LogoutTime]} :
        Answer(w, step, t, modified) /\ (step = "confirm" => t = s /\ In(s, "order"))
  BY <1>2 DEF OrderSelect, OrderConfirm, OrderCancel, SettingsRefused, KeepAlive
<1>4. PICK step \in {"panel", "confirm", "save"}, modified \in BOOLEAN,
           t \in {s, ResetSession(s), [s EXCEPT !.left = LogoutTime], [s EXCEPT !.auto = FALSE, !.left = LogoutTime]} :
        Answer(w, step, t, modified) /\ (step = "confirm" => t = s /\ In(s, "order"))
  BY <1>3
<1>5. t \in Sessions /\ GoodSession(t) /\ PastDark(t)
  BY <1>1, <1>2, ResetOK, AlikeOK, Keeping
<1> QED
  BY <1>1, <1>4, <1>5, Answers

LEMMA SavesOK == ASSUME KioskInv, NEW w \in Workers, SettingsSave(w) PROVE SessionOK'
<1>1. SessionOK /\ TapsOK /\ UNCHANGED <<session, screen, scans>> /\ screen = "on"
  BY DEF KioskInv, SettingsSave, Press
<1>2. PICK s \in Sessions : s = session /\ GoodSession(s) /\ PastDark(s)
  BY <1>1, StoredGood
<1>3. ResetSession(s) \in Sessions /\ GoodSession(ResetSession(s)) /\ PastDark(ResetSession(s))
  BY <1>1, <1>2, ResetOK
<1>4. CASE ~In(session, "settings")
  <2>1. Answer(w, "panel", s, FALSE) /\ Stays
    BY <1>2, <1>4, StaysLedger DEF SettingsSave
  <2> QED
    BY <1>1, <1>2, <2>1, Answers
<1>5. CASE In(session, "settings")
  <2>1. s.uid \in Cards /\ Saved(s.uid) /\ LoggedIn(s)
    BY <1>2, <1>5 DEF SettingsSave, In, LoggedIn, Sessions
  <2>2. Stays
    BY <1>1, <2>1, StaysSaved
  <2>3. CASE ~s.then_order
    <3>1. Answer(w, "panel", ResetSession(s), TRUE)
      BY <1>2, <1>5, <2>3 DEF SettingsSave
    <3> QED
      BY <1>1, <1>3, <2>2, <3>1, Answers
  <2>4. CASE s.then_order
    <3>1. PICK u \in Sessions : u = ResetSession(s) /\ u.last_scan = s.last_scan
      BY <1>3, Resetting
    <3>2. PICK t : t = StartSession(u, "order", s.uid, s.tap)
      OBVIOUS
    <3>3. /\ t \in Sessions /\ t.uid = s.uid /\ t.tap = s.tap /\ t.last_scan = s.last_scan /\ t.mode = "order"
      BY <2>1, <3>1, <3>2, Starting DEF Modes, Sessions
    <3>4. PICK r : r = Request("button", "panel", t, TRUE)
      OBVIOUS
    <3>5. r \in Requests /\ r.kind = "button" /\ r.step = "panel" /\ r.s = t
      BY <3>3, <3>4 DEF Request, Requests, Kinds
    <3>6. req' = [req EXCEPT ![w] = r]
      BY <1>2, <1>5, <2>4, <3>1, <3>2, <3>4 DEF SettingsSave, Answer
    <3>7. PastDark(t)' /\ GoodSession(t)'
      <4>1. s.uid \in proper' /\ UNCHANGED scans
        BY <1>1, <2>1 DEF Saved
      <4> QED
        BY <1>2, <2>1, <3>3, <4>1 DEF GoodSession, PastDark, Newest, Proper, LoggedIn, In
    <3>8. GoodRequest(r)'
      BY <3>5, <3>7 DEF GoodRequest
    <3> QED
      BY <1>1, <2>2, <3>5, <3>6, <3>8, OneMoves
  <2> QED
    BY <2>3, <2>4
<1> QED
  BY <1>4, <1>5

(***************************************************************************)
(* The workers.                                                            *)
(***************************************************************************)
LEMMA CopyGood ==
  ASSUME SessionOK, NEW w \in Workers, req[w] # NONE
  PROVE  /\ req[w] \in Requests /\ GoodRequest(req[w]) /\ req[w].modified \in BOOLEAN
         /\ req[w].s \in Sessions /\ GoodSession(req[w].s) /\ PastDark(req[w].s)
<1>1. req[w] \in Requests /\ GoodRequest(req[w])
  BY DEF SessionOK
<1> QED
  BY <1>1 DEF GoodRequest, Requests

\* A request that ends with a 500.
LEMMA FailOK ==
  ASSUME SessionOK, Stays, UNCHANGED <<session, screen>>, NEW w \in Workers, Fail(w) PROVE SessionOK'
<1>1. req' = [req EXCEPT ![w] = NONE]
  BY DEF Fail
<1> QED
  BY <1>1, OneMoves

\* A tap that opens no session: it is seen, and that is all.
LEMMA RefusesOK ==
  ASSUME KioskInv, NEW w \in Workers, CaptureRefuses(w) \/ CaptureLinks(w) \/ CaptureFails(w) \/ CardRefused(w)
  PROVE  SessionOK'
<1>1. SessionOK /\ TapsOK /\ Stays /\ UNCHANGED <<session, screen>> /\ req[w] # NONE /\ req[w].step = "panel"
  BY StaysLedger DEF KioskInv, CaptureRefuses, CaptureLinks, CaptureFails, CardRefused, Handles, Render, database
<1>2. CASE CaptureFails(w)
  <2>1. Fail(w)
    BY <1>2 DEF CaptureFails
  <2> QED
    BY <1>1, <2>1, FailOK
<1>3. CASE ~CaptureFails(w)
  <2>1. PICK s \in Sessions : s = req[w].s /\ GoodSession(s) /\ PastDark(s)
    BY <1>1, CopyGood
  <2>2. PICK t : t = Consume(s)
    OBVIOUS
  <2>3. Go(w, "save", t, TRUE)
    BY <1>3, <2>1, <2>2 DEF CaptureRefuses, CaptureLinks, CardRefused
  <2>4. t \in Sessions /\ GoodSession(t) /\ PastDark(t)
    BY <1>1, <2>1, <2>2, Consuming, ConsumeGood
  <2>5. TRUE \in BOOLEAN /\ req[w].step # "save"
    BY <1>1
  <2> QED
    BY <1>1, <2>3, <2>4, <2>5, GoesOn
<1> QED
  BY <1>2, <1>3

\* A card opens the order screen for a member whose name will do - and no card of the dark screen does.
LEMMA LogsInOK == ASSUME KioskInv, NEW w \in Workers, CardLogsIn(w) PROVE SessionOK'
<1>1. /\ SessionOK /\ TapsOK /\ LedgerOK /\ Stays /\ UNCHANGED <<session, screen>>
      /\ req[w] # NONE /\ req[w].step = "panel" /\ req[w].s.last_scan < Newest /\ scans[Newest].card # NONE
  BY StaysLedger DEF KioskInv, CardLogsIn, Handles, Render, database
<1>2. PICK s \in Sessions : s = req[w].s /\ GoodSession(s) /\ PastDark(s)
  BY <1>1, CopyGood
<1>3. PICK c : c = Consume(s)
  OBVIOUS
<1>4. c \in Sessions /\ c.last_scan = Newest /\ c.mode \in Modes
  BY <1>1, <1>2, <1>3, Consuming DEF Sessions
<1>5. PICK card \in Cards : card = scans[Newest].card
  BY <1>1, <1>2, FreshTap
<1>6. PICK member \in IF Owners(card) = {} THEN {NONE} ELSE Owners(card) \ departed : Go(w, "save", Opens(c, card, member), TRUE)
  BY <1>2, <1>3, <1>5 DEF CardLogsIn
<1>7. member \in Cards \cup {NONE}
  BY <1>1, <1>6 DEF Owners, LedgerOK
<1>8. PICK uid \in Cards : uid = IF member = NONE THEN card ELSE member
  BY <1>7
<1>9. Newest \in 1..MaxScans /\ Newest \in 0..MaxScans /\ ~scans[Newest].dark
  BY <1>1, <1>2, FreshTap
<1>10. PICK t : t = Opens(c, card, member)
  OBVIOUS
<1>11. PICK mode \in Modes, u \in Sessions :
         /\ u = StartSession(c, mode, uid, Newest)
         /\ t \in {u, [u EXCEPT !.then_order = TRUE]}
         /\ mode = "order" => NameWillDo(member)
  <2>1. ASSUME NEW mode \in Modes PROVE StartSession(c, mode, uid, Newest) \in Sessions
    BY <1>4, <1>9, Starting
  <2>2. \E mode \in Modes : /\ t \in {StartSession(c, mode, uid, Newest), [StartSession(c, mode, uid, Newest) EXCEPT !.then_order = TRUE]}
                            /\ mode = "order" => NameWillDo(member)
    BY <1>8, <1>10 DEF Opens, Modes
  <2> QED
    BY <2>1, <2>2
<1>12. u.uid = uid /\ u.tap = Newest /\ u.last_scan = Newest /\ u.mode = mode
  BY <1>4, <1>9, <1>11, Starting
<1>13. Alike(t, u)
  BY <1>11 DEF Alike, Sessions
<1>14. GoodSession(u)
  <2>1. mode = "order" => uid \in proper
    BY <1>1, <1>7, <1>8, <1>11 DEF NameWillDo, LedgerOK
  <2> QED
    BY <1>9, <1>11, <1>12, <2>1 DEF GoodSession, LoggedIn, In, Proper
<1>15. PastDark(u)
  BY <1>9, <1>12 DEF PastDark
<1>16. t \in Sessions /\ GoodSession(t) /\ PastDark(t)
  BY <1>13, <1>14, <1>15, AlikeOK
<1>17. TRUE \in BOOLEAN /\ req[w].step # "save" /\ Go(w, "save", t, TRUE)
  BY <1>1, <1>6, <1>10
<1> QED
  BY <1>1, <1>16, <1>17, GoesOn

LEMMA IdleReturnOK == ASSUME KioskInv, NEW w \in Workers, IdleReturn(w) PROVE SessionOK'
<1>1. /\ SessionOK /\ TapsOK /\ Stays /\ UNCHANGED <<session, screen>>
      /\ req[w] # NONE /\ req[w].step = "panel" /\ ~LoggedIn(req[w].s)
  BY StaysLedger DEF KioskInv, IdleReturn, Render, database
<1>2. PICK s \in Sessions : s = req[w].s /\ GoodSession(s) /\ PastDark(s)
  BY <1>1, CopyGood
<1>3. PICK t \in {s, [s EXCEPT !.mode = "order"]}, modified \in BOOLEAN : Go(w, "save", t, modified)
  BY <1>1, <1>2, CopyGood DEF IdleReturn
<1>4. t \in Sessions /\ t.uid = NONE /\ t.tap = s.tap /\ t.last_scan = s.last_scan
  BY <1>1, <1>2, <1>3 DEF Sessions, Modes, LoggedIn
<1>5. GoodSession(t) /\ PastDark(t)
  BY <1>2, <1>4, LoggedOutGood DEF GoodSession, PastDark
<1>6. req[w].step # "save"
  BY <1>1
<1> QED
  BY <1>1, <1>3, <1>4, <1>5, <1>6, GoesOn

LEMMA TickOK == ASSUME KioskInv, NEW w \in Workers, Tick(w) PROVE SessionOK'
<1>1. /\ SessionOK /\ TapsOK /\ Stays /\ UNCHANGED <<session, screen>>
      /\ req[w] # NONE /\ req[w].step = "panel" /\ LoggedIn(req[w].s)
  BY StaysLedger DEF KioskInv, Tick, Render, database
<1>2. PICK s \in Sessions : s = req[w].s /\ GoodSession(s) /\ PastDark(s)
  BY <1>1, CopyGood
<1>3. PICK step \in {"checkout", "save"}, t \in {s, ResetSession(s)}, modified \in BOOLEAN :
        Go(w, step, t, modified) /\ (step = "checkout" => t = s /\ In(s, "order"))
  BY <1>1, <1>2, CopyGood DEF Tick, In
<1>4. t \in Sessions /\ GoodSession(t) /\ PastDark(t)
  BY <1>1, <1>2, <1>3, ResetOK
<1>5. req[w].step # "save"
  BY <1>1
<1> QED
  BY <1>1, <1>3, <1>4, <1>5, GoesOn

LEMMA PlaceOK == ASSUME KioskInv, NEW w \in Workers, PlaceOrder(w) PROVE SessionOK'
<1>1. /\ SessionOK /\ TapsOK /\ Stays /\ UNCHANGED <<session, screen>>
      /\ req[w] # NONE /\ req[w].step \in {"confirm", "checkout"}
  BY StaysLedger DEF KioskInv, PlaceOrder, ledger
<1>2. PICK s \in Sessions : s = req[w].s /\ GoodSession(s) /\ PastDark(s)
  BY <1>1, CopyGood
<1>3. CASE Fail(w)
  BY <1>1, <1>3, FailOK
<1>4. CASE ~Fail(w)
  <2>1. PICK step \in {"panel", "save"} : Go(w, step, ResetSession(s), TRUE)
    BY <1>1, <1>2, <1>4 DEF PlaceOrder
  <2>2. ResetSession(s) \in Sessions /\ GoodSession(ResetSession(s)) /\ PastDark(ResetSession(s))
    BY <1>1, <1>2, ResetOK
  <2>3. req[w].step # "save" /\ TRUE \in BOOLEAN
    BY <1>1
  <2> QED
    BY <1>1, <2>1, <2>2, <2>3, GoesOn
<1> QED
  BY <1>3, <1>4

\* The copy is stored: a page that has loaded has stored one past the dark taps.
LEMMA SaveOK == ASSUME KioskInv, NEW w \in Workers, SaveSession(w) PROVE SessionOK'
<1>1. /\ SessionOK /\ TapsOK /\ Stays /\ req[w] # NONE /\ req' = [req EXCEPT ![w] = NONE]
      /\ session' = IF req[w].modified THEN req[w].s ELSE session
      /\ screen' = IF req[w].kind = "load" THEN "on" ELSE screen
  BY StaysLedger DEF KioskInv, SaveSession, Fail, ledger
<1>2. /\ req[w] \in Requests /\ GoodRequest(req[w]) /\ req[w].s \in Sessions
      /\ GoodSession(req[w].s) /\ PastDark(req[w].s)
  BY <1>1, CopyGood
<1>3. session \in Sessions /\ GoodSession(session) /\ (screen = "on" => PastDark(session))
  BY <1>1 DEF SessionOK, GoodSession
<1>4. PICK s \in Sessions : s = session' /\ GoodSession(s) /\ (screen' = "on" => PastDark(s))
  <2>1. CASE req[w].modified
    BY <1>1, <1>2, <2>1
  <2>2. CASE ~req[w].modified
    <3>1. req[w].kind # "load" /\ screen' = screen /\ session' = session
      BY <1>1, <1>2, <2>2 DEF GoodRequest
    <3> QED
      BY <1>3, <3>1
  <2> QED
    BY <2>1, <2>2
<1>5. GoodSession(session)' /\ (screen' = "on" => PastDark(session)')
  <2>1. GoodSession(s)' /\ (PastDark(s) => PastDark(s)')
    BY <1>1, <1>4, StaysGood
  <2> QED
    BY <1>4, <2>1 DEF GoodSession, PastDark
<1>6. req' \in [Workers -> Requests \cup {NONE}] /\ screen' \in {"off", "loading", "on"}
  BY <1>1 DEF SessionOK
<1>7. ASSUME NEW v \in Workers, req'[v] # NONE PROVE GoodRequest(req[v])'
  <2>1. PICK q \in Requests : q = req'[v] /\ GoodRequest(q)
    BY <1>1, <1>7 DEF SessionOK
  <2>2. GoodRequest(q)'
    BY <1>1, <2>1, StaysRequest
  <2> QED
    BY <2>1, <2>2 DEF GoodRequest
<1> QED
  BY <1>5, <1>6, <1>7 DEF SessionOK

(***************************************************************************)
(* The page goes away, comes back; cards, time and power.                  *)
(***************************************************************************)
\* Who reads no session yet, and no request beyond those there were.
LEMMA PageOK ==
  ASSUME KioskInv, Reload \/ NightBegins \/ NightEnds \/ PowerCut PROVE SessionOK'
<1>1. /\ SessionOK /\ Stays /\ UNCHANGED <<session, scans>> /\ screen' \in {"off", "loading"}
      /\ req' = req \/ req' = Aborted(Kinds) \/ req' = [w \in Workers |-> NONE]
  BY StaysLedger DEF KioskInv, Reload, NightBegins, NightEnds, PowerCut, database
<1>2. req \in [Workers -> Requests \cup {NONE}] /\ \A v \in Workers : req[v] # NONE => req[v] \in Requests
  BY <1>1 DEF SessionOK
<1>3. ASSUME NEW v \in Workers, req[v] # NONE
      PROVE  [req[v] EXCEPT !.kind = "aborted"] \in Requests /\ GoodRequest([req[v] EXCEPT !.kind = "aborted"])
  BY <1>1, <1>2, <1>3, AbortedGood DEF SessionOK
<1>4. /\ req' \in [Workers -> Requests \cup {NONE}]
      /\ \A v \in Workers : req'[v] # NONE =>
           req[v] # NONE /\ (req'[v] = req[v] \/ req'[v] = [req[v] EXCEPT !.kind = "aborted"])
  BY <1>1, <1>2, <1>3 DEF Aborted
<1>5. ASSUME NEW v \in Workers, req'[v] # NONE PROVE GoodRequest(req[v])'
  <2>1. PICK q \in Requests : q = req'[v] /\ GoodRequest(q)
    BY <1>1, <1>2, <1>3, <1>4, <1>5 DEF SessionOK
  <2>2. GoodRequest(q)'
    BY <1>1, <2>1, StaysRequest
  <2> QED
    BY <2>1, <2>2 DEF GoodRequest
<1>6. GoodSession(session)'
  <2>1. PICK s \in Sessions : s = session /\ GoodSession(s)
    BY <1>1 DEF SessionOK, GoodSession
  <2>2. GoodSession(s)'
    BY <1>1, <2>1, StaysGood
  <2> QED
    BY <1>1, <2>1, <2>2 DEF GoodSession
<1> QED
  BY <1>1, <1>4, <1>5, <1>6 DEF SessionOK

\* A tap changes nothing for those before it; at the dark screen there is nobody to see it go back.
LEMMA TappedOK == ASSUME KioskInv, NEW card \in Cards \cup {NONE}, CardTapped(card) PROVE SessionOK' /\ TapsOK'
<1>1. SessionOK /\ TapsOK /\ UNCHANGED <<session, req, screen, members, proper>> /\ Len(scans) < MaxScans
  BY DEF KioskInv, CardTapped, ledger
<1>2. PICK tap : tap = [card |-> card, dark |-> screen = "off" /\ ~InFlight(Kinds)]
  OBVIOUS
<1>3. tap \in Taps /\ (tap.dark => screen = "off" /\ ~InFlight(Kinds))
  BY <1>2 DEF Taps
<1>4. scans' = Append(scans, tap) /\ scans \in Seq(Taps)
  BY <1>1, <1>2 DEF CardTapped, TapsOK
<1>5. /\ TapsOK' /\ Newest \in Nat /\ Newest' = Newest + 1 /\ scans'[Newest + 1] = tap
      /\ \A i \in 1..Newest : scans'[i] = scans[i]
  BY <1>1, <1>3, <1>4 DEF TapsOK, Newest
<1>6. ASSUME NEW s \in Sessions, GoodSession(s) PROVE GoodSession(s)'
  <2>1. s.tap \in Nat /\ s.last_scan \in Nat
    BY DEF Sessions
  <2> QED
    BY <1>1, <1>5, <1>6, <2>1 DEF GoodSession, LoggedIn, In, Proper
<1>7. ASSUME NEW s \in Sessions, PastDark(s), ~tap.dark PROVE PastDark(s)'
  BY <1>5, <1>7 DEF PastDark
<1>8. GoodSession(session)' /\ (screen' = "on" => PastDark(session)')
  <2>1. PICK s \in Sessions : s = session /\ GoodSession(s) /\ (screen = "on" => PastDark(s))
    BY <1>1 DEF SessionOK, GoodSession
  <2>2. GoodSession(s)' /\ (screen = "on" => PastDark(s)')
    BY <1>3, <1>6, <1>7, <2>1
  <2> QED
    BY <1>1, <2>1, <2>2 DEF GoodSession, PastDark
<1>9. ASSUME NEW v \in Workers, req'[v] # NONE PROVE GoodRequest(req[v])'
  <2>1. PICK r \in Requests : r = req[v] /\ req'[v] = r /\ GoodRequest(r)
    BY <1>1, <1>9 DEF SessionOK
  <2>2. ~tap.dark
    BY <1>1, <1>3, <1>9, <2>1 DEF InFlight, Requests
  <2>3. r.s \in Sessions /\ GoodSession(r.s) /\ PastDark(r.s)
    BY <2>1 DEF Requests, GoodRequest
  <2>4. GoodSession(r.s)' /\ PastDark(r.s)'
    BY <1>6, <1>7, <2>2, <2>3
  <2> QED
    BY <2>1, <2>4 DEF GoodRequest, In, LoggedIn
<1> QED
  BY <1>1, <1>5, <1>8, <1>9 DEF SessionOK

LEMMA TimeOK == ASSUME KioskInv, TimePasses PROVE SessionOK'
<1>1. /\ SessionOK /\ Stays /\ UNCHANGED <<scans, screen>> /\ session' = Later(session)
      /\ req' = [w \in Workers |-> IF req[w] = NONE THEN NONE ELSE [req[w] EXCEPT !.s = Later(@)]]
  BY StaysLedger DEF KioskInv, TimePasses, ledger
<1>2. ASSUME NEW v \in Workers, req[v] # NONE
      PROVE  \E r \in Requests : r = [req[v] EXCEPT !.s = Later(@)] /\ GoodRequest(r)
  <2>1. /\ req[v] \in Requests /\ GoodRequest(req[v]) /\ req[v].s \in Sessions
        /\ GoodSession(req[v].s) /\ PastDark(req[v].s)
    BY <1>1, <1>2, CopyGood
  <2>2. PICK t : t = Later(req[v].s)
    OBVIOUS
  <2>3. t \in Sessions /\ GoodSession(t) /\ PastDark(t) /\ (In(req[v].s, "order") => In(t, "order"))
    <3>1. Alike(t, req[v].s)
      BY <2>1, <2>2, Keeping
    <3> QED
      BY <2>1, <3>1, AlikeOK, AlikeGood
  <2>4. PICK r : r = [req[v] EXCEPT !.s = t]
    OBVIOUS
  <2>5. r \in Requests /\ r.kind = req[v].kind /\ r.step = req[v].step /\ r.modified = req[v].modified /\ r.s = t
    BY <2>1, <2>3, <2>4 DEF Requests
  <2>6. GoodRequest(r)
    BY <2>1, <2>3, <2>5 DEF GoodRequest
  <2>7. r = [req[v] EXCEPT !.s = Later(@)]
    BY <2>2, <2>4
  <2> QED
    BY <2>5, <2>6, <2>7
<1>3. /\ req' \in [Workers -> Requests \cup {NONE}]
      /\ \A v \in Workers : req'[v] # NONE => req'[v] \in Requests /\ GoodRequest(req'[v])
  BY <1>1, <1>2
<1>4. ASSUME NEW v \in Workers, req'[v] # NONE PROVE GoodRequest(req[v])'
  <2>1. PICK q \in Requests : q = req'[v] /\ GoodRequest(q)
    BY <1>3, <1>4
  <2>2. GoodRequest(q)'
    BY <1>1, <2>1, StaysRequest
  <2> QED
    BY <2>1, <2>2 DEF GoodRequest
<1>5. GoodSession(session)' /\ (screen' = "on" => PastDark(session)')
  <2>1. PICK s \in Sessions : s = session /\ GoodSession(s) /\ (screen = "on" => PastDark(s))
    BY <1>1 DEF SessionOK, GoodSession
  <2>2. PICK t : t = Later(s)
    OBVIOUS
  <2>3. t \in Sessions /\ GoodSession(t) /\ (screen = "on" => PastDark(t))
    BY <2>1, <2>2, Keeping, AlikeGood DEF Alike
  <2>4. GoodSession(t)' /\ (screen = "on" => PastDark(t)')
    BY <1>1, <2>3, StaysGood
  <2>5. session' = t
    BY <1>1, <2>1, <2>2
  <2> QED
    BY <1>1, <2>4, <2>5 DEF GoodSession, PastDark
<1> QED
  BY <1>1, <1>3, <1>4, <1>5 DEF SessionOK

\* Nobody asks, nobody answers.
LEMMA StillOK ==
  ASSUME SessionOK, Stays, UNCHANGED <<session, req, screen>> PROVE SessionOK'
<1>1. ASSUME NEW v \in Workers, req'[v] # NONE PROVE GoodRequest(req[v])'
  <2>1. PICK q \in Requests : q = req[v] /\ GoodRequest(q)
    BY <1>1 DEF SessionOK
  <2>2. GoodRequest(q)'
    BY <2>1, StaysRequest
  <2> QED
    BY <2>1, <2>2 DEF GoodRequest
<1>2. GoodSession(session)' /\ (screen' = "on" => PastDark(session)')
  <2>1. PICK s \in Sessions : s = session /\ GoodSession(s) /\ (screen = "on" => PastDark(s))
    BY DEF SessionOK, GoodSession
  <2>2. GoodSession(s)' /\ (screen = "on" => PastDark(s)')
    BY <2>1, StaysGood
  <2> QED
    BY <2>1, <2>2 DEF GoodSession, PastDark
<1> QED
  BY <1>1, <1>2 DEF SessionOK

(***************************************************************************)
(* The ledger.                                                             *)
(***************************************************************************)
\* Who goes takes their name along, so whoever has not had one is still not there.
LEMMA DropOK ==
  ASSUME LedgerOK, NEW m \in members, NEW names \in SUBSET members, NEW cards, NEW rows,
         cards \in [Cards -> (members \ {m}) \cup {NONE}], Drop(m, names, cards, rows), scans' = scans
  PROVE  LedgerOK' /\ Stays /\ orders' = rows /\ members' = members \ {m}
<1>1. Stays
  BY DEF Drop, Stays, Proper
<1>2. LedgerOK'
  BY DEF Drop, LedgerOK
<1> QED
  BY <1>1, <1>2 DEF Drop

LEMMA DeleteIs ==
  ASSUME LedgerOK, NEW m \in Cards, MemberDelete(m)
  PROVE  LedgerOK' /\ Stays /\ UNCHANGED <<merge, scans, booked>> /\ members' = members \ {m}
         /\ orders' = {o \in orders : o.member # m}
<1>1. m \in members /\ named \in SUBSET members /\ UNCHANGED <<merge, scans, booked>>
  BY DEF MemberDelete, LedgerOK, Edit, history
<1>2. PICK cards : cards = [c \in Cards |-> IF linked[c] = m THEN NONE ELSE linked[c]]
  OBVIOUS
<1>3. cards \in [Cards -> (members \ {m}) \cup {NONE}]
  BY <1>2 DEF LedgerOK
<1>4. PICK rows : rows = {o \in orders : o.member # m}
  OBVIOUS
<1>5. Drop(m, named, cards, rows)
  BY <1>2, <1>4 DEF MemberDelete
<1> QED
  BY <1>1, <1>3, <1>4, <1>5, DropOK

LEMMA MergeIs ==
  ASSUME LedgerOK, RowsOK, MergeEnds
  PROVE  /\ merge \in Merges /\ merge.keep \in members \ {merge.remove}
         /\ LedgerOK' /\ Stays /\ UNCHANGED <<scans, booked>> /\ merge' = NONE /\ members' = members \ {merge.remove}
         /\ orders' = {o \in orders : o.member # merge.remove} \cup {[o EXCEPT !.member = merge.keep] : o \in merge.moved}
<1>1. PICK k \in members, r \in members : k = merge.keep /\ r = merge.remove /\ k # r
  BY DEF MergeEnds, RowsOK
<1>2. /\ merge \in Merges /\ merge.keep \in members \ {merge.remove} /\ merge' = NONE
      /\ UNCHANGED <<scans, booked>>
  BY <1>1 DEF MergeEnds, RowsOK, history
<1>3. PICK names : names = CASE merge.name = "own" -> named [] merge.name = "good" -> named \cup {k} [] OTHER -> named \ {k}
  OBVIOUS
<1>4. names \in SUBSET members
  BY <1>1, <1>3 DEF LedgerOK
<1>5. PICK cards : cards = [c \in Cards |-> IF c = r \/ c \in merge.cards THEN k ELSE IF linked[c] = r THEN NONE ELSE linked[c]]
  OBVIOUS
<1>6. cards \in [Cards -> (members \ {r}) \cup {NONE}]
  BY <1>1, <1>5 DEF LedgerOK
<1>7. PICK rows : rows = {o \in orders : o.member # r} \cup {[o EXCEPT !.member = k] : o \in merge.moved}
  OBVIOUS
<1>8. Drop(r, names, cards, rows)
  BY <1>1, <1>3, <1>5, <1>7 DEF MergeEnds
<1>9. LedgerOK' /\ Stays /\ orders' = rows /\ members' = members \ {r}
  BY <1>1, <1>2, <1>4, <1>6, <1>8, DropOK
<1> QED
  BY <1>1, <1>2, <1>7, <1>9

LEMMA LedgerStep == ASSUME KioskInv, Next PROVE LedgerOK'
<1> USE DEF KioskInv, LedgerOK
<1>1. CASE UNCHANGED <<members, named, departed, linked, proper, capture>>
  BY <1>1
<1>2. ASSUME NEW w \in Workers, CaptureLinks(w) PROVE LedgerOK'
  BY <1>2 DEF CaptureLinks, Capturing
<1>3. ASSUME NEW w \in Workers, SettingsSave(w) PROVE LedgerOK'
  <2>1. In(session, "settings") => session.uid \in Cards
    BY DEF SessionOK, GoodSession, Sessions, In, LoggedIn
  <2>2. CASE In(session, "settings")
    BY <1>3, <2>1, <2>2 DEF SettingsSave, Saved
  <2>3. CASE ~In(session, "settings")
    BY <1>3, <2>3 DEF SettingsSave
  <2> QED
    BY <2>2, <2>3
<1>4. ASSUME NEW m \in Cards, ArmCapture(m) PROVE LedgerOK'
  <2>1. [member |-> m, left |-> CaptureTime] \in Captures
    BY DEF Captures
  <2> QED
    BY <1>4, <2>1 DEF ArmCapture, ledger
<1>5. ASSUME NEW m \in Cards, MarkDeparted(m) \/ Reactivate(m) \/ MemberSaved(m) \/ NameBlocked(m) PROVE LedgerOK'
  BY <1>5 DEF MarkDeparted, Reactivate, MemberSaved, NameBlocked, Saved
<1>6. ASSUME NEW m \in Cards, MemberDelete(m) PROVE LedgerOK'
  BY <1>6, DeleteIs
<1>7. CASE MergeEnds
  BY <1>7, MergeIs
<1>8. CASE CaptureTimedOut
  BY <1>8 DEF CaptureTimedOut, ledger
<1>9. CASE TimePasses
  <2>1. UNCHANGED <<members, named, departed, linked, proper>>
    BY <1>9 DEF TimePasses, ledger
  <2>2. CASE Capturing
    <3>1. capture' = [capture EXCEPT !.left = @ - 1] /\ capture \in Captures /\ capture.left > 0
      BY <1>9, <2>2 DEF TimePasses, Capturing
    <3>2. capture' \in Captures /\ capture'.member = capture.member
      BY <3>1 DEF Captures
    <3> QED
      BY <2>1, <2>2, <3>2 DEF Capturing
  <2>3. CASE ~Capturing
    BY <1>9, <2>1, <2>3 DEF TimePasses
  <2> QED
    BY <2>2, <2>3
<1>10. ASSUME NEW w \in Workers, Index(w) \/ Panel(w) \/ (\E mode \in Modes : Nav(w, mode)) \/ OrderSelect(w) \/ OrderConfirm(w)
               \/ OrderCancel(w) \/ SettingsRefused(w) \/ KeepAlive(w) PROVE LedgerOK'
  BY <1>1, <1>10 DEF Index, Panel, Nav, OrderSelect, OrderConfirm, OrderCancel, SettingsRefused, KeepAlive, database
<1>11. ASSUME NEW w \in Workers, CaptureRefuses(w) \/ CaptureFails(w) \/ CardRefused(w) \/ CardLogsIn(w)
               \/ IdleReturn(w) \/ Tick(w) \/ PlaceOrder(w) \/ SaveSession(w) PROVE LedgerOK'
  BY <1>1, <1>11 DEF CaptureRefuses, CaptureFails, CardRefused, CardLogsIn, IdleReturn, Tick, PlaceOrder, SaveSession,
                     database, ledger
<1>12. CASE Reload \/ NightBegins \/ NightEnds \/ PowerCut \/ MergeFails \/ \E card \in Cards \cup {NONE} : CardTapped(card)
  BY <1>1, <1>12 DEF Reload, NightBegins, NightEnds, PowerCut, MergeFails, CardTapped, database, ledger
<1>13. ASSUME NEW keep \in Cards, NEW remove \in Cards, MergeBegins(keep, remove) PROVE LedgerOK'
  BY <1>1, <1>13 DEF MergeBegins
<1> HIDE DEF KioskInv, LedgerOK
<1> QED
  BY <1>2, <1>3, <1>4, <1>5, <1>6, <1>7, <1>8, <1>9, <1>10, <1>11, <1>12, <1>13 DEF Next, Buttons, Serve, Admin

(***************************************************************************)
(* The bookings.                                                           *)
(***************************************************************************)
\* What is booked stays booked; taps stay what they were.
LEMMA RowStays ==
  ASSUME TapsOK, booked \in Nat, booked' \in Nat, booked <= booked', NEW o, GoodOrder(o),
         scans' = scans \/ \E tap \in Taps : scans' = Append(scans, tap)
  PROVE  GoodOrder(o)'
<1>1. o.tap \in 1..Newest /\ o.id \in 1..booked /\ scans \in Seq(Taps)
  BY DEF GoodOrder, TapsOK
<1>2. Newest \in Nat /\ Newest' \in Nat /\ Newest <= Newest' /\ scans'[o.tap] = scans[o.tap]
  BY <1>1 DEF Newest
<1> QED
  BY <1>1, <1>2 DEF GoodOrder

LEMMA RowsStay ==
  ASSUME KioskInv, orders' \in SUBSET orders, booked' = booked, \A o \in orders' : o.member \in members',
         merge' = merge \/ merge' = NONE,
         scans' = scans \/ \E tap \in Taps : scans' = Append(scans, tap)
  PROVE  RowsOK'
<1>1. booked \in Nat /\ TapsOK
  BY DEF KioskInv, RowsOK
<1>2. \A o : GoodOrder(o) => GoodOrder(o)'
  BY <1>1, RowStays
<1>3. \A o \in orders' : GoodOrder(o)' /\ o.member \in members'
  BY <1>2 DEF KioskInv, RowsOK
<1>4. merge' # NONE => merge' \in Merges /\ merge'.keep # merge'.remove /\ \A o \in merge'.moved : GoodOrder(o)'
  BY <1>2 DEF KioskInv, RowsOK
<1> QED
  BY <1>1, <1>3, <1>4 DEF RowsOK

\* A coffee is booked by a session that the card of a lit screen opened, for who has had a proper name.
LEMMA PlaceRows == ASSUME KioskInv, NEW w \in Workers, PlaceOrder(w) PROVE RowsOK'
<1>1. /\ TapsOK /\ booked \in Nat /\ UNCHANGED <<scans, members, merge>>
      /\ req[w] # NONE /\ req[w].step \in {"confirm", "checkout"}
  BY DEF KioskInv, RowsOK, PlaceOrder, ledger
<1>2. PICK s \in Sessions : s = req[w].s /\ GoodSession(s) /\ In(s, "order")
  <2>1. GoodRequest(req[w]) /\ req[w].s \in Sessions
    BY <1>1, CopyGood DEF KioskInv
  <2> QED
    BY <1>1, <2>1 DEF GoodRequest
<1>3. CASE s.uid \notin members
  <2>1. UNCHANGED <<orders, booked>>
    BY <1>2, <1>3 DEF PlaceOrder
  <2>2. \A o \in orders' : o.member \in members'
    BY <1>1, <2>1 DEF KioskInv, RowsOK
  <2> QED
    BY <1>1, <2>1, <2>2, RowsStay
<1>4. CASE s.uid \in members
  <2>1. PICK o : o = [id |-> booked', member |-> s.uid, tap |-> s.tap,
                      overruled |-> req[w].step = "checkout" /\ s.tap \in decided, proper |-> s.uid \in proper]
    OBVIOUS
  <2>2. booked' = booked + 1 /\ orders' = orders \cup {o}
    BY <1>2, <1>4, <2>1 DEF PlaceOrder
  <2>3. s.uid \in proper /\ s.uid \in Cards /\ s.tap \in 1..Newest /\ ~scans[s.tap].dark /\ s.tap \in Nat
    BY <1>2, <1>4 DEF GoodSession, In, LoggedIn, Proper, Sessions
  <2>4. /\ o.id = booked' /\ o.member = s.uid /\ o.tap = s.tap /\ o.proper
        /\ o \in Orders
    <3>1. PICK overruled \in BOOLEAN : overruled = (req[w].step = "checkout" /\ s.tap \in decided)
      OBVIOUS
    <3>2. (s.uid \in proper) = TRUE
      BY <2>3
    <3>3. o = [id |-> booked', member |-> s.uid, tap |-> s.tap, overruled |-> overruled, proper |-> TRUE]
      BY <2>1, <3>1, <3>2
    <3>4. booked' \in Nat
      BY <1>1, <2>2
    <3> QED
      BY <2>3, <3>3, <3>4 DEF Orders
  <2>5. GoodOrder(o)'
    BY <1>1, <2>2, <2>3, <2>4 DEF GoodOrder, Newest
  <2>6. \A p : GoodOrder(p) => GoodOrder(p)'
    BY <1>1, <2>2, RowStays
  <2>7. \A p \in orders' : GoodOrder(p)' /\ p.member \in members'
    BY <1>1, <1>4, <2>2, <2>4, <2>5, <2>6 DEF KioskInv, RowsOK
  <2>8. merge' # NONE => merge' \in Merges /\ merge'.keep # merge'.remove /\ \A p \in merge'.moved : GoodOrder(p)'
    BY <1>1, <2>6 DEF KioskInv, RowsOK
  <2> QED
    BY <1>1, <2>2, <2>7, <2>8 DEF RowsOK
<1> QED
  BY <1>3, <1>4

LEMMA MergeRows ==
  ASSUME KioskInv, NEW keep \in Cards, NEW remove \in Cards, MergeBegins(keep, remove) PROVE RowsOK'
<1>1. /\ UNCHANGED <<scans, members, orders, booked>> /\ keep # remove /\ TapsOK /\ booked \in Nat
  BY DEF KioskInv, RowsOK, MergeBegins, Edit, history
<1>2. PICK name \in {"own", "good", "bad"} :
        merge' = [keep |-> keep, remove |-> remove, name |-> name, moved |-> {o \in orders : o.member = remove},
                  cards |-> {c \in Cards : linked[c] = remove}]
  BY DEF MergeBegins
<1>3. orders \in SUBSET Orders /\ \A o \in orders : GoodOrder(o) /\ o.member \in members
  BY DEF KioskInv, RowsOK, GoodOrder
<1>4. merge' \in Merges /\ merge'.keep # merge'.remove /\ merge'.moved \subseteq orders
  BY <1>1, <1>2, <1>3 DEF Merges
<1>5. \A o \in orders : GoodOrder(o)'
  BY <1>1, <1>3, RowStays
<1> QED
  BY <1>1, <1>3, <1>4, <1>5 DEF RowsOK

LEMMA MergedRows == ASSUME KioskInv, MergeEnds PROVE RowsOK'
<1>1. /\ merge \in Merges /\ merge.keep \in members \ {merge.remove} /\ merge # NONE
      /\ UNCHANGED <<scans, booked>> /\ merge' = NONE /\ members' = members \ {merge.remove}
      /\ orders' = {o \in orders : o.member # merge.remove} \cup {[o EXCEPT !.member = merge.keep] : o \in merge.moved}
  BY MergeIs DEF KioskInv, MergeEnds
<1>2. TapsOK /\ booked \in Nat /\ merge.keep \in Cards /\ merge.moved \in SUBSET Orders
  BY <1>1 DEF KioskInv, RowsOK, Merges
<1>3. \A o : GoodOrder(o) => GoodOrder(o)'
  BY <1>1, <1>2, RowStays
<1>4. ASSUME NEW o \in merge.moved PROVE GoodOrder([o EXCEPT !.member = merge.keep]) /\ [o EXCEPT !.member = merge.keep].member = merge.keep
  <2>1. GoodOrder(o) /\ o \in Orders
    BY <1>1, <1>2 DEF KioskInv, RowsOK
  <2>2. PICK p : p = [o EXCEPT !.member = merge.keep]
    OBVIOUS
  <2>3. p \in Orders /\ p.id = o.id /\ p.tap = o.tap /\ p.proper = o.proper /\ p.member = merge.keep
    BY <1>2, <2>1, <2>2 DEF Orders
  <2> QED
    BY <2>1, <2>2, <2>3 DEF GoodOrder
<1>5. \A o \in orders' : GoodOrder(o) /\ o.member \in members'
  BY <1>1, <1>4 DEF KioskInv, RowsOK
<1> QED
  BY <1>1, <1>2, <1>3, <1>5 DEF RowsOK

LEMMA RowsStep == ASSUME KioskInv, Next PROVE RowsOK'
<1>1. CASE /\ UNCHANGED <<orders, booked>> /\ members \subseteq members' /\ (merge' = merge \/ merge' = NONE)
           /\ (scans' = scans \/ \E tap \in Taps : scans' = Append(scans, tap))
  <2>1. \A o \in orders' : o.member \in members'
    BY <1>1 DEF KioskInv, RowsOK
  <2> QED
    BY <1>1, <2>1, RowsStay
<1>2. ASSUME NEW w \in Workers, PlaceOrder(w) PROVE RowsOK'
  BY <1>2, PlaceRows
<1>3. ASSUME NEW m \in Cards, MemberDelete(m) PROVE RowsOK'
  <2>1. /\ UNCHANGED <<merge, scans, booked>> /\ members' = members \ {m} /\ orders' = {o \in orders : o.member # m}
    BY <1>3, DeleteIs DEF KioskInv
  <2>2. \A o \in orders' : o.member \in members'
    BY <2>1 DEF KioskInv, RowsOK
  <2> QED
    BY <2>1, <2>2, RowsStay
<1>4. ASSUME NEW keep \in Cards, NEW remove \in Cards, MergeBegins(keep, remove) PROVE RowsOK'
  BY <1>4, MergeRows
<1>5. CASE MergeEnds
  BY <1>5, MergedRows
<1>6. ASSUME NEW card \in Cards \cup {NONE}, CardTapped(card) PROVE RowsOK'
  <2>1. UNCHANGED <<orders, booked, members, merge>>
    BY <1>6 DEF CardTapped, ledger, history
  <2>2. \E tap \in Taps : scans' = Append(scans, tap)
    <3>1. PICK dark \in BOOLEAN : dark = (screen = "off" /\ ~InFlight(Kinds))
      OBVIOUS
    <3>2. scans' = Append(scans, [card |-> card, dark |-> dark])
      BY <1>6, <3>1 DEF CardTapped
    <3> QED
      BY <3>2 DEF Taps
  <2> QED
    BY <1>1, <2>1, <2>2
<1>7. ASSUME NEW w \in Workers, Index(w) \/ Panel(w) \/ (\E mode \in Modes : Nav(w, mode)) \/ OrderSelect(w) \/ OrderConfirm(w)
               \/ OrderCancel(w) \/ SettingsRefused(w) \/ KeepAlive(w) PROVE RowsOK'
  BY <1>1, <1>7 DEF Index, Panel, Nav, OrderSelect, OrderConfirm, OrderCancel, SettingsRefused, KeepAlive, database, history
<1>8. ASSUME NEW w \in Workers, CaptureRefuses(w) \/ CaptureLinks(w) \/ CaptureFails(w) \/ CardRefused(w) \/ CardLogsIn(w)
               \/ IdleReturn(w) \/ Tick(w) \/ SaveSession(w) PROVE RowsOK'
  BY <1>1, <1>8 DEF CaptureRefuses, CaptureLinks, CaptureFails, CardRefused, CardLogsIn, IdleReturn, Tick, SaveSession,
                    database, ledger, history
<1>9. ASSUME NEW w \in Workers, SettingsSave(w) PROVE RowsOK'
  BY <1>1, <1>9 DEF SettingsSave, Saved, history
<1>10. CASE Reload \/ NightBegins \/ NightEnds \/ PowerCut \/ MergeFails \/ CaptureTimedOut \/ TimePasses
  BY <1>1, <1>10 DEF Reload, NightBegins, NightEnds, PowerCut, MergeFails, CaptureTimedOut, TimePasses, database, ledger,
                     history
<1>11. ASSUME NEW m \in Cards, ArmCapture(m) \/ MarkDeparted(m) \/ Reactivate(m) \/ MemberSaved(m) \/ NameBlocked(m) PROVE RowsOK'
  BY <1>1, <1>11 DEF ArmCapture, MarkDeparted, Reactivate, MemberSaved, NameBlocked, Saved, Edit, ledger, history
<1> QED
  BY <1>2, <1>3, <1>4, <1>5, <1>6, <1>7, <1>8, <1>9, <1>10, <1>11 DEF Next, Buttons, Serve, Admin

LEMMA SessionStep == ASSUME KioskInv, Next PROVE SessionOK' /\ TapsOK'
<1>1. SessionOK /\ TapsOK /\ LedgerOK /\ RowsOK
  BY DEF KioskInv
<1>2. ASSUME scans' = scans PROVE TapsOK'
  BY <1>1, <1>2 DEF TapsOK, Newest
<1>3. ASSUME NEW card \in Cards \cup {NONE}, CardTapped(card) PROVE SessionOK' /\ TapsOK'
  BY <1>3, TappedOK
<1>4. ASSUME NEW w \in Workers, Index(w) \/ Panel(w) \/ Buttons(w) PROVE SessionOK' /\ scans' = scans
  <2>1. scans' = scans
    BY <1>4 DEF Buttons, Index, Panel, Nav, OrderSelect, OrderConfirm, OrderCancel, SettingsRefused, KeepAlive, SettingsSave,
                database
  <2> QED
    BY <1>4, <2>1, IndexOK, PanelOK, NavOK, PickOK, SavesOK DEF Buttons
<1>5. ASSUME NEW w \in Workers, Serve(w) PROVE SessionOK' /\ scans' = scans
  <2>1. scans' = scans
    BY <1>5 DEF Serve, CaptureRefuses, CaptureLinks, CaptureFails, CardRefused, CardLogsIn, IdleReturn, Tick, PlaceOrder,
                SaveSession, database
  <2> QED
    BY <1>5, <2>1, RefusesOK, LogsInOK, IdleReturnOK, TickOK, PlaceOK, SaveOK DEF Serve
<1>6. CASE Reload \/ NightBegins \/ NightEnds \/ PowerCut
  <2>1. scans' = scans
    BY <1>6 DEF Reload, NightBegins, NightEnds, PowerCut, database
  <2> QED
    BY <1>2, <1>6, <2>1, PageOK
<1>7. CASE TimePasses
  <2>1. scans' = scans
    BY <1>7 DEF TimePasses
  <2> QED
    BY <1>2, <1>7, <2>1, TimeOK
<1>8. CASE Admin
  <2>1. UNCHANGED <<session, req, screen, scans>>
    BY <1>8 DEF Admin, ArmCapture, MarkDeparted, Reactivate, MemberSaved, NameBlocked, MemberDelete, MergeBegins, Edit,
                MergeEnds, MergeFails, CaptureTimedOut
  <2>2. Stays
    <3>1. ASSUME UNCHANGED <<members, proper>> PROVE Stays
      BY <2>1, <3>1, StaysLedger
    <3>2. ASSUME NEW m \in Cards, MemberDelete(m) PROVE Stays
      BY <1>1, <3>2, DeleteIs
    <3>3. CASE MergeEnds
      BY <1>1, <3>3, MergeIs
    <3>4. ASSUME NEW m \in Cards, MemberSaved(m) PROVE Stays
      BY <2>1, <3>4, StaysSaved DEF MemberSaved
    <3>5. ASSUME NEW m \in Cards, ArmCapture(m) \/ MarkDeparted(m) \/ Reactivate(m) \/ NameBlocked(m) PROVE Stays
      BY <3>1, <3>5 DEF ArmCapture, MarkDeparted, Reactivate, NameBlocked, ledger
    <3>6. ASSUME NEW keep \in Cards, NEW remove \in Cards, MergeBegins(keep, remove) PROVE Stays
      BY <3>1, <3>6 DEF MergeBegins
    <3>7. CASE MergeFails \/ CaptureTimedOut
      BY <3>1, <3>7 DEF MergeFails, CaptureTimedOut, ledger
    <3> QED
      BY <1>8, <3>2, <3>3, <3>4, <3>5, <3>6, <3>7 DEF Admin
  <2> QED
    BY <1>1, <1>2, <2>1, <2>2, StillOK
<1> QED
  BY <1>2, <1>3, <1>4, <1>5, <1>6, <1>7, <1>8 DEF Next

LEMMA KioskNext == KioskInv /\ [Next]_vars => KioskInv'
<1> SUFFICES ASSUME KioskInv, [Next]_vars PROVE KioskInv'
  OBVIOUS
<1>1. CASE Next
  BY <1>1, LedgerStep, RowsStep, SessionStep DEF KioskInv
<1>2. CASE UNCHANGED vars
  <2>1. UNCHANGED <<database, req, screen, booked>>
    BY <1>2 DEF vars, history
  <2>2. UNCHANGED <<session, scans, members, named, departed, linked, capture, orders, merge, proper, req, screen, booked>>
    BY <2>1 DEF database
  <2> USE DEF KioskInv
  <2>3. Stays /\ LedgerOK' /\ TapsOK'
    BY <2>2, StaysLedger DEF LedgerOK, TapsOK, Newest
  <2>4. RowsOK'
    <3>1. \A o \in orders' : o.member \in members'
      BY <2>2 DEF RowsOK
    <3> QED
      BY <2>2, <3>1, RowsStay
  <2> QED
    BY <2>2, <2>3, <2>4, StillOK
<1> QED
  BY <1>1, <1>2

LEMMA InitKiosk == Init => KioskInv
<1> SUFFICES ASSUME Init PROVE KioskInv
  OBVIOUS
<1>1. LedgerOK
  BY DEF Init, LedgerOK
<1>2. TapsOK
  BY DEF Init, TapsOK, Newest
<1>3. RowsOK
  BY DEF Init, RowsOK
<1>4. SessionOK
  <2>1. session = FirstSession /\ scans = <<>> /\ Newest = 0
    BY DEF Init, Newest
  <2>2. FirstSession \in Sessions /\ FirstSession.uid = NONE /\ FirstSession.tap = 0 /\ FirstSession.last_scan = 0
    <3>1. 0 \in 0..LogoutTime /\ 0 \in 0..MaxScans /\ IdleTime \in 0..IdleTime
      OBVIOUS
    <3> QED
      BY <3>1 DEF FirstSession, Sessions, Modes
  <2>3. GoodSession(session)
    BY <2>1, <2>2 DEF GoodSession, LoggedIn, In
  <2> QED
    BY <2>3 DEF Init, SessionOK
<1> QED
  BY <1>1, <1>2, <1>3, <1>4 DEF KioskInv

LEMMA Kept == Spec => []KioskInv
BY InitKiosk, KioskNext, PTL DEF Spec

(***************************************************************************)
(* One worker: its request, if there is one, works with a copy of the      *)
(* session that is stored.                                                 *)
(***************************************************************************)
OneWorker == \A v, w \in Workers : v = w

Rows == orders \cup (IF merge = NONE THEN {} ELSE merge.moved)

\* The tap has not booked.
Free(t) == \A o \in Rows : o.tap # t

\* A request that is going to end, or replace, the login that is stored.
Quits(r) == r.modified /\ (~LoggedIn(r.s) \/ r.s.tap # session.tap)

\* The login that is stored; r: the request, or NONE.
Stored(r) ==
  LoggedIn(session) /\ session.tap \notin failed =>
    /\ (r # NONE /\ Quits(r)) \/ Free(session.tap)
    /\ session.tap \in decided =>
         /\ session.mode = "order"
         /\ ~session.auto \/ (r # NONE /\ (Quits(r) \/ (r.modified /\ (~r.s.auto \/ r.step = "confirm"))))

\* A copy: as it is stored, or with what the request has changed so far.
CopyOK(r) ==
  /\ ~r.modified => r.s = session
  /\ r.s.last_scan >= session.last_scan /\ r.s.tap <= r.s.last_scan
  /\ r.step = "checkout" => r.s.auto
  /\ LoggedIn(r.s) =>
       /\ (LoggedIn(session) /\ r.s.tap = session.tap) \/ (r.step = "save" /\ r.s.tap > session.last_scan)
       /\ r.s.tap \notin failed =>
            Free(r.s.tap) /\ (r.s.tap \in decided => r.s.mode = "order" /\ (~r.s.auto \/ r.step = "confirm"))

Once ==
  /\ \A o, p \in Rows : o.tap \in failed \/ (~o.overruled /\ (o.tap = p.tap => o = p))
  /\ merge # NONE => \A o \in merge.moved : o.member = merge.remove
  /\ \A o \in Rows : o.tap <= session.last_scan
  /\ decided \subseteq 0..session.last_scan

OneInv ==
  /\ cuts = 0 /\ Once /\ session.tap <= session.last_scan
  /\ (\A w \in Workers : Stored(req[w])) /\ \A w \in Workers : req[w] # NONE => CopyOK(req[w])

\* The worker's own step: everything else as it was.
LEMMA OneStep ==
  ASSUME OneInv, OneWorker, NEW w \in Workers, NEW r \in Requests \cup {NONE}, req'[w] = r,
         UNCHANGED <<session, cuts>>, Once', Stored(r)', r # NONE => CopyOK(r)'
  PROVE  OneInv'
<1>1. \A v \in Workers : v = w
  BY DEF OneWorker
<1>2. ASSUME NEW v \in Workers PROVE Stored(req[v])' /\ (req'[v] # NONE => CopyOK(req[v])')
  BY <1>1 DEF Stored, CopyOK, Quits
<1> QED
  BY <1>2 DEF OneInv

\* ... that changes its copy only.
LEMMA CopyMoves ==
  ASSUME OneInv, OneWorker, NEW w \in Workers, NEW r \in Requests \cup {NONE}, req'[w] = r,
         UNCHANGED <<session, cuts, orders, merge, failed, decided>>, Stored(r), r # NONE => CopyOK(r)
  PROVE  OneInv'
<1>1. Once'
  BY DEF OneInv, Once, Rows
<1>2. Stored(r)' /\ (r # NONE => CopyOK(r)')
  BY DEF Stored, CopyOK, Quits, Free, Rows, LoggedIn
<1> QED
  BY <1>1, <1>2, OneStep

\* Nothing is asked for where a button, a poll or the page asks.
LEMMA AsksIs ==
  ASSUME OneInv, NEW w \in Workers, req[w] = NONE
  PROVE  /\ LoggedIn(session) /\ session.tap \notin failed =>
              Free(session.tap) /\ (session.tap \in decided => session.mode = "order" /\ ~session.auto)
         /\ session.tap <= session.last_scan
BY DEF OneInv, Stored

LEMMA OneAsks ==
  ASSUME KioskInv, OneInv, OneWorker, NEW w \in Workers, Index(w) \/ Panel(w) PROVE OneInv'
<1>1. /\ req[w] = NONE /\ UNCHANGED <<session, cuts, orders, merge, failed, decided>>
      /\ req \in [Workers -> Requests \cup {NONE}] /\ session \in Sessions /\ session.last_scan <= Newest
      /\ TapsOK
  BY DEF Index, Panel, database, budget, history, KioskInv, SessionOK, GoodSession
<1>2. /\ LoggedIn(session) /\ session.tap \notin failed =>
           Free(session.tap) /\ (session.tap \in decided => session.mode = "order" /\ ~session.auto)
      /\ session.tap <= session.last_scan
  BY <1>1, AsksIs
<1>3. CASE Panel(w)
  <2>1. PICK r : r = Request("poll", "panel", session, FALSE)
    OBVIOUS
  <2>2. r \in Requests /\ r.step = "panel" /\ r.s = session /\ ~r.modified
    BY <1>1, <2>1 DEF Request, Requests, Kinds
  <2>3. req'[w] = r
    BY <1>1, <1>3, <2>1 DEF Panel
  <2>4. CopyOK(r) /\ Stored(r)
    BY <1>1, <1>2, <2>2 DEF CopyOK, Stored, Sessions
  <2> QED
    BY <1>1, <2>2, <2>3, <2>4, CopyMoves
<1>4. CASE Index(w)
  <2>1. PICK t : t = [session EXCEPT !.last_scan = Newest]
    OBVIOUS
  <2>2. /\ t \in Sessions /\ t.uid = session.uid /\ t.tap = session.tap /\ t.last_scan = Newest
        /\ t.auto = session.auto /\ t.mode = session.mode
    <3>1. Newest \in 0..MaxScans
      BY <1>1 DEF TapsOK, Newest
    <3> QED
      BY <1>1, <2>1, <3>1 DEF Sessions
  <2>3. PICK r : r = Request("load", "save", t, TRUE)
    OBVIOUS
  <2>4. r \in Requests /\ r.step = "save" /\ r.s = t /\ r.modified
    BY <2>2, <2>3 DEF Request, Requests, Kinds
  <2>5. req'[w] = r
    BY <1>1, <1>4, <2>1, <2>3 DEF Index
  <2>6. Newest \in Nat /\ session.last_scan \in Nat /\ session.tap \in Nat
    BY <1>1 DEF TapsOK, Newest, Sessions
  <2>7. CopyOK(r)
    BY <1>1, <1>2, <2>2, <2>4, <2>6 DEF CopyOK, LoggedIn
  <2>8. Stored(r)
    BY <1>2 DEF Stored
  <2> QED
    BY <1>1, <2>4, <2>5, <2>7, <2>8, CopyMoves
<1> QED
  BY <1>3, <1>4

\* What a button answers with, while nothing else is under way.
LEMMA AnswerIs ==
  ASSUME KioskInv, NEW w \in Workers, NEW step \in {"panel", "confirm", "checkout", "save"}, NEW s \in Sessions,
         NEW modified \in BOOLEAN, Answer(w, step, s, modified)
  PROVE  \E r \in Requests : req'[w] = r /\ r.step = step /\ r.s = s /\ r.modified = modified
<1>1. PICK r : r = Request("button", step, s, modified)
  OBVIOUS
<1>2. r \in Requests /\ r.step = step /\ r.s = s /\ r.modified = modified
  BY <1>1, RequestIs DEF Kinds
<1>3. req'[w] = r
  BY <1>1 DEF Answer, KioskInv, SessionOK
<1> QED
  BY <1>2, <1>3

\* A copy as it is stored, or one that is logged out.
LEMMA PlainCopy ==
  ASSUME OneInv, KioskInv, NEW w \in Workers, req[w] = NONE, NEW r \in Requests,
         \/ r.s = session /\ r.step # "checkout"
         \/ r.modified /\ r.s.uid = NONE /\ r.s.tap <= r.s.last_scan /\ r.s.last_scan >= session.last_scan /\ r.step # "checkout"
  PROVE  CopyOK(r) /\ Stored(r)
<1>1. /\ LoggedIn(session) /\ session.tap \notin failed =>
           Free(session.tap) /\ (session.tap \in decided => session.mode = "order" /\ ~session.auto)
      /\ session.tap <= session.last_scan /\ session \in Sessions
  BY AsksIs DEF KioskInv, SessionOK, GoodSession
<1>2. Stored(r)
  BY <1>1 DEF Stored
<1>3. CopyOK(r)
  BY <1>1 DEF CopyOK, LoggedIn, Sessions
<1> QED
  BY <1>2, <1>3

LEMMA OneNav ==
  ASSUME KioskInv, OneInv, OneWorker, NEW w \in Workers, NEW mode \in Modes, Nav(w, mode) PROVE OneInv'
<1>1. /\ req[w] = NONE /\ UNCHANGED <<session, cuts, orders, merge, failed, decided>>
      /\ req \in [Workers -> Requests \cup {NONE}] /\ session \in Sessions
  BY DEF Nav, Press, database, history, KioskInv, SessionOK, GoodSession
<1>2. PICK switched : switched = [session EXCEPT !.mode = mode]
  OBVIOUS
<1>3. switched \in Sessions /\ switched.last_scan = session.last_scan
  BY <1>1, <1>2, Switching
<1>4. PICK t : t = ResetSession(switched)
  OBVIOUS
<1>5. t \in Sessions /\ t.uid = NONE /\ t.tap = 0 /\ t.last_scan = session.last_scan
  BY <1>3, <1>4, Resetting
<1>6. PICK r : r = Request("nav", "panel", t, TRUE)
  OBVIOUS
<1>7. r \in Requests /\ r.step = "panel" /\ r.s = t /\ r.modified
  BY <1>5, <1>6 DEF Request, Requests, Kinds
<1>8. req'[w] = r
  BY <1>1, <1>2, <1>4, <1>6 DEF Nav, Aborted
<1>9. CopyOK(r) /\ Stored(r)
  <2>1. session.last_scan \in Nat
    BY <1>1 DEF Sessions
  <2>2. r.s.uid = NONE /\ r.s.tap <= r.s.last_scan /\ r.s.last_scan >= session.last_scan
    BY <1>5, <1>7, <2>1
  <2> QED
    BY <1>1, <1>7, <2>2, PlainCopy
<1> QED
  BY <1>1, <1>7, <1>8, <1>9, CopyMoves

\* A member who says what they want is not booked for by itself any more.
LEMMA OneDecides ==
  ASSUME KioskInv, OneInv, OneWorker, NEW w \in Workers, OrderSelect(w) \/ OrderConfirm(w) \/ OrderCancel(w)
  PROVE  OneInv'
<1>1. /\ req[w] = NONE /\ UNCHANGED <<session, cuts, orders, merge, failed>> /\ Decides
      /\ session \in Sessions
  BY DEF OrderSelect, OrderConfirm, OrderCancel, Press, database, KioskInv, SessionOK, GoodSession
<1>2. /\ LoggedIn(session) /\ session.tap \notin failed =>
           Free(session.tap) /\ (session.tap \in decided => session.mode = "order" /\ ~session.auto)
      /\ session.tap <= session.last_scan
  BY <1>1, AsksIs
<1>3. PICK u \in Sessions : u = ResetSession(session) /\ u.uid = NONE /\ u.tap = 0 /\ u.last_scan = session.last_scan
  BY <1>1, Resetting
<1>4. Once'
  <2>1. Once /\ Rows' = Rows
    BY <1>1 DEF OneInv, Rows
  <2>2. session.tap \in 0..session.last_scan
    BY <1>1, <1>2 DEF Sessions
  <2>3. decided' \subseteq 0..session.last_scan
    <3>1. decided' = decided \/ decided' = decided \cup {session.tap}
      BY <1>1 DEF Decides
    <3>2. decided \subseteq 0..session.last_scan
      BY <2>1 DEF Once
    <3> QED
      BY <2>2, <3>1, <3>2
  <2> QED
    BY <1>1, <2>1, <2>3 DEF Once
<1>5. CASE ~In(session, "order")
  <2>1. decided' = decided
    BY <1>1, <1>5 DEF Decides
  <2>2. PICK step \in {"panel", "save"} : Answer(w, step, session, FALSE)
    BY <1>5 DEF OrderSelect, OrderConfirm, OrderCancel
  <2>3. PICK modified \in BOOLEAN : Answer(w, step, session, modified)
    BY <2>2
  <2>4. PICK r \in Requests : req'[w] = r /\ r.step = step /\ r.s = session
    BY <1>1, <2>3, AnswerIs
  <2>5. CopyOK(r) /\ Stored(r)
    BY <1>1, <2>4, PlainCopy
  <2> QED
    BY <1>1, <2>1, <2>4, <2>5, CopyMoves
<1>6. CASE In(session, "order")
  <2>1. PICK step \in {"save", "confirm", "panel"}, s \in Sessions :
          /\ Answer(w, step, s, TRUE)
          /\ s.last_scan = session.last_scan /\ s.tap <= s.last_scan
          /\ s.uid = NONE \/ (s.uid = session.uid /\ s.tap = session.tap /\ s.mode = "order" /\ (~s.auto \/ step = "confirm"))
    <3>1. CASE OrderSelect(w)
      <4>1. PICK s : s = [session EXCEPT !.auto = FALSE, !.left = LogoutTime]
        OBVIOUS
      <4>2. s \in Sessions /\ s.uid = session.uid /\ s.tap = session.tap /\ s.mode = session.mode /\ s.last_scan = session.last_scan
        <5>1. LogoutTime \in 0..LogoutTime
          OBVIOUS
        <5> QED
          BY <1>1, <4>1, <5>1 DEF Sessions
      <4>3. ~s.auto
        BY <1>1, <4>1 DEF Sessions
      <4>4. Answer(w, "save", s, TRUE) /\ session.mode = "order"
        BY <1>6, <3>1, <4>1 DEF OrderSelect, In
      <4> QED
        BY <1>2, <4>2, <4>3, <4>4
    <3>2. CASE Answer(w, "confirm", session, TRUE)
      <4>1. session.mode = "order"
        BY <1>6 DEF In
      <4> QED
        BY <1>1, <1>2, <3>2, <4>1
    <3>3. CASE Answer(w, "panel", u, TRUE)
      <4>1. u.tap <= u.last_scan
        BY <1>3 DEF Sessions
      <4> QED
        BY <1>3, <3>3, <4>1
    <3>4. OrderSelect(w) \/ Answer(w, "confirm", session, TRUE) \/ Answer(w, "panel", u, TRUE)
      BY <1>3, <1>6 DEF OrderConfirm, OrderCancel
    <3> QED
      BY <3>1, <3>2, <3>3, <3>4
  <2>2. PICK modified \in BOOLEAN : modified /\ Answer(w, step, s, modified)
    BY <2>1
  <2>3. PICK r \in Requests : req'[w] = r /\ r.step = step /\ r.s = s /\ r.modified
    <3>1. Answer(w, step, s, modified)
      BY <2>2
    <3>2. PICK r \in Requests : req'[w] = r /\ r.step = step /\ r.s = s /\ r.modified = modified
      BY <3>1, AnswerIs
    <3> QED
      BY <2>2, <3>2
  <2>4. LoggedIn(session) /\ session.mode = "order" /\ session.last_scan \in Nat
    BY <1>1, <1>6 DEF In, Sessions
  <2>5. Free(session.tap)' <=> Free(session.tap)
    BY <1>1 DEF Free, Rows
  <2>6. Stored(r)'
    <3>1. Quits(r)' \/ (r.modified /\ (~r.s.auto \/ r.step = "confirm"))
      BY <2>1, <2>3 DEF Quits, LoggedIn
    <3>2. LoggedIn(session)' /\ session'.tap \notin failed' => Free(session.tap)'
      BY <1>1, <1>2, <2>4, <2>5
    <3> QED
      BY <1>1, <2>4, <3>1, <3>2 DEF Stored
  <2>7. CopyOK(r)'
    BY <1>1, <1>2, <2>1, <2>3, <2>4, <2>5 DEF CopyOK, LoggedIn
  <2> QED
    BY <1>1, <1>4, <2>3, <2>6, <2>7, OneStep
<1> QED
  BY <1>5, <1>6

\* The other buttons, which book nothing and decide nothing.
LEMMA OneSaves ==
  ASSUME KioskInv, OneInv, OneWorker, NEW w \in Workers, SettingsRefused(w) \/ SettingsSave(w) \/ KeepAlive(w)
  PROVE  OneInv'
<1>1. /\ req[w] = NONE /\ UNCHANGED <<session, cuts, orders, merge, failed, decided>> /\ session \in Sessions
  BY DEF SettingsRefused, SettingsSave, KeepAlive, Press, database, history, KioskInv, SessionOK, GoodSession
<1>2. /\ LoggedIn(session) /\ session.tap \notin failed =>
           Free(session.tap) /\ (session.tap \in decided => session.mode = "order" /\ ~session.auto)
      /\ session.tap <= session.last_scan /\ session.last_scan \in Nat
  BY <1>1, AsksIs DEF Sessions
<1>3. PICK u \in Sessions : u = ResetSession(session) /\ u.uid = NONE /\ u.tap = 0 /\ u.last_scan = session.last_scan
  BY <1>1, Resetting
<1>4. PICK s \in Sessions, modified \in BOOLEAN :
        /\ Answer(w, "panel", s, modified)
        /\ \/ s = session
           \/ modified /\ s.uid = NONE /\ s.tap = 0 /\ s.last_scan = session.last_scan
           \/ /\ modified /\ s.last_scan = session.last_scan /\ s.tap = session.tap /\ s.uid = session.uid /\ LoggedIn(session)
              /\ session.mode = "settings" \/ (s.mode = session.mode /\ s.auto = session.auto)
  <2>1. CASE SettingsRefused(w) \/ KeepAlive(w)
    <3>1. PICK s : s = [session EXCEPT !.left = LogoutTime]
      OBVIOUS
    <3>2. s \in Sessions /\ s.uid = session.uid /\ s.tap = session.tap /\ s.last_scan = session.last_scan
          /\ s.mode = session.mode /\ s.auto = session.auto
      BY <1>1, <3>1 DEF Sessions
    <3>3. Answer(w, "panel", s, TRUE) /\ LoggedIn(session)
      BY <2>1, <3>1 DEF SettingsRefused, KeepAlive, In
    <3> QED
      BY <3>2, <3>3
  <2>2. CASE SettingsSave(w) /\ ~In(session, "settings")
    BY <1>1, <2>2 DEF SettingsSave
  <2>3. CASE SettingsSave(w) /\ In(session, "settings") /\ ~session.then_order
    BY <1>3, <2>3 DEF SettingsSave
  <2>4. CASE SettingsSave(w) /\ In(session, "settings") /\ session.then_order
    <3>1. session.uid \in Cards /\ session.tap \in 0..MaxScans /\ LoggedIn(session) /\ session.mode = "settings"
      BY <1>1, <2>4 DEF In, LoggedIn, Sessions
    <3>2. PICK s : s = StartSession(u, "order", session.uid, session.tap)
      OBVIOUS
    <3>3. s \in Sessions /\ s.uid = session.uid /\ s.tap = session.tap /\ s.last_scan = session.last_scan
      <4>1. "order" \in Modes
        BY DEF Modes
      <4> QED
        BY <1>3, <3>1, <3>2, <4>1, Starting
    <3>4. Answer(w, "panel", s, TRUE)
      BY <1>3, <2>4, <3>2 DEF SettingsSave
    <3> QED
      BY <3>1, <3>3, <3>4
  <2> QED
    BY <2>1, <2>2, <2>3, <2>4
<1>5. PICK r \in Requests : req'[w] = r /\ r.step = "panel" /\ r.s = s /\ r.modified = modified
  BY <1>4, AnswerIs
<1>6. Stored(r)
  BY <1>2 DEF Stored
<1>7. CopyOK(r)
  BY <1>2, <1>4, <1>5 DEF CopyOK, LoggedIn
<1> QED
  BY <1>1, <1>5, <1>6, <1>7, CopyMoves

\* What a worker has in hand.
LEMMA InHand ==
  ASSUME KioskInv, OneInv, NEW w \in Workers, req[w] # NONE
  PROVE  /\ req[w] \in Requests /\ CopyOK(req[w]) /\ Stored(req[w])
         /\ req[w].s \in Sessions /\ req[w].s.last_scan \in Nat /\ req[w].s.tap \in Nat /\ req[w].modified \in BOOLEAN
         /\ session \in Sessions /\ session.last_scan \in Nat /\ session.tap \in Nat
         /\ session.tap <= session.last_scan /\ session.last_scan <= req[w].s.last_scan
         /\ req[w].s.last_scan <= Newest /\ Newest \in Nat
<1>1. req[w] \in Requests /\ req[w].s \in Sessions /\ GoodSession(req[w].s) /\ session \in Sessions
  BY CopyGood DEF KioskInv, SessionOK, GoodSession
<1>2. CopyOK(req[w]) /\ Stored(req[w]) /\ session.tap <= session.last_scan
  BY DEF OneInv
<1>3. req[w].s.last_scan >= session.last_scan
  BY <1>2 DEF CopyOK
<1> QED
  BY <1>1, <1>2, <1>3 DEF GoodSession, Sessions, Requests, KioskInv, TapsOK, Newest

\* Where Go() leads, in the one request.
LEMMA GoesTo ==
  ASSUME KioskInv, NEW w \in Workers, req[w] # NONE, NEW step \in {"panel", "confirm", "checkout", "save"},
         NEW s \in Sessions, NEW modified \in BOOLEAN, Go(w, step, s, modified)
  PROVE  \E r \in Requests : req'[w] = r /\ r.step = step /\ r.s = s /\ r.modified = modified
<1>1. SessionOK
  BY DEF KioskInv
<1>2. PICK r \in Requests : /\ req' = [req EXCEPT ![w] = r]
                            /\ r.kind = req[w].kind /\ r.step = step /\ r.s = s /\ r.modified = modified
  BY <1>1, GoIs
<1>3. req'[w] = r
  BY <1>1, <1>2 DEF SessionOK
<1> QED
  BY <1>2, <1>3

\* A request that leaves a copy which is logged out.
LEMMA LogsOut ==
  ASSUME KioskInv, OneInv, OneWorker, NEW w \in Workers, req[w] # NONE, UNCHANGED <<session, cuts, failed, decided>>, Once',
         NEW r \in Requests, req'[w] = r, r.step # "checkout", r.modified, r.s.uid = NONE, r.s.tap <= r.s.last_scan,
         req[w].s.last_scan <= r.s.last_scan
  PROVE  OneInv'
<1>1. session.last_scan <= r.s.last_scan
  <2>1. session.last_scan <= req[w].s.last_scan /\ session.last_scan \in Nat /\ req[w].s.last_scan \in Nat
    BY InHand
  <2>2. r.s.last_scan \in Nat
    BY DEF Requests, Sessions
  <2> QED
    BY <2>1, <2>2
<1>2. Quits(r)' /\ r # NONE
  BY DEF Quits, LoggedIn
<1>3. Stored(r)'
  <2>1. Stored(req[w])
    BY InHand
  <2> QED
    BY <1>2, <2>1 DEF Stored, LoggedIn
<1>4. CopyOK(r)'
  BY <1>1 DEF CopyOK, LoggedIn
<1> QED
  BY <1>3, <1>4, OneStep

\* A modified copy: Go() in the one request.
Changes(w, step, s) == Go(w, step, s, TRUE)

LEMMA Leads ==
  ASSUME KioskInv, NEW w \in Workers, req[w] # NONE, NEW step \in {"panel", "confirm", "checkout", "save"},
         NEW s \in Sessions, Changes(w, step, s)
  PROVE  \E r \in Requests : req'[w] = r /\ r.step = step /\ r.s = s /\ r.modified
<1>1. PICK modified \in BOOLEAN : modified = TRUE
  OBVIOUS
<1>2. Go(w, step, s, modified)
  BY <1>1 DEF Changes
<1>3. PICK r \in Requests : req'[w] = r /\ r.step = step /\ r.s = s /\ r.modified = modified
  BY <1>2, GoesTo
<1> QED
  BY <1>1, <1>3

LEMMA OneRefuses ==
  ASSUME KioskInv, OneInv, OneWorker, NEW w \in Workers, CaptureRefuses(w) \/ CaptureLinks(w) \/ CardRefused(w) PROVE OneInv'
<1>1. /\ req[w] # NONE /\ ~LoggedIn(req[w].s) /\ UNCHANGED <<session, cuts, orders, merge, failed, decided>>
  BY DEF CaptureRefuses, CaptureLinks, CardRefused, Handles, Render, database, budget
<1>2. PICK s \in Sessions : s = req[w].s /\ s.uid = NONE /\ s.tap <= s.last_scan /\ s.last_scan <= Newest
  BY <1>1, InHand DEF LoggedIn, CopyOK
<1>3. PICK t \in Sessions : t = Consume(s) /\ t.uid = NONE /\ t.tap = s.tap /\ t.last_scan = Newest
  BY <1>2, Consuming DEF KioskInv
<1>4. Changes(w, "save", t)
  BY <1>2, <1>3 DEF CaptureRefuses, CaptureLinks, CardRefused, Changes
<1>5. PICK r \in Requests : req'[w] = r /\ r.step = "save" /\ r.s = t /\ r.modified
  BY <1>1, <1>3, <1>4, Leads
<1>6. Once'
  BY <1>1 DEF OneInv, Once, Rows
<1>7. r.s.uid = NONE /\ r.s.tap <= r.s.last_scan /\ req[w].s.last_scan <= r.s.last_scan
  BY <1>1, <1>2, <1>3, <1>5, InHand
<1> QED
  BY <1>1, <1>5, <1>6, <1>7, LogsOut

\* A 500 leaves the login that is stored, and counts it as failed.
LEMMA OneFails ==
  ASSUME KioskInv, OneInv, OneWorker, NEW w \in Workers, Fail(w), UNCHANGED <<session, cuts, orders, merge, decided>>,
         failed' = failed \cup {session.tap}
  PROVE  OneInv'
<1>1. req'[w] = NONE
  BY DEF Fail, KioskInv, SessionOK
<1>2. Once'
  BY DEF OneInv, Once, Rows
<1>3. Stored(NONE)'
  BY DEF Stored
<1> QED
  BY <1>1, <1>2, <1>3, OneStep

\* A card opens a session of its own, for a tap that nobody has booked with.
LEMMA OneLogsIn ==
  ASSUME KioskInv, OneInv, OneWorker, NEW w \in Workers, CardLogsIn(w) PROVE OneInv'
<1>1. /\ req[w] # NONE /\ ~LoggedIn(req[w].s) /\ req[w].s.last_scan < Newest /\ scans[Newest].card # NONE
      /\ UNCHANGED <<session, cuts, orders, merge, failed, decided>> /\ TapsOK /\ LedgerOK
  BY DEF CardLogsIn, Handles, Render, database, budget, KioskInv
<1>2. PICK s \in Sessions : s = req[w].s /\ s.tap <= s.last_scan /\ s.last_scan <= Newest /\ PastDark(s)
  BY <1>1, InHand, CopyGood DEF CopyOK, KioskInv
<1>3. PICK c \in Sessions : c = Consume(s) /\ c.last_scan = Newest
  BY <1>1, <1>2, Consuming
<1>4. PICK card \in Cards : card = scans[Newest].card
  BY <1>1, <1>2, FreshTap
<1>5. PICK member \in IF Owners(card) = {} THEN {NONE} ELSE Owners(card) \ departed : Go(w, "save", Opens(c, card, member), TRUE)
  BY <1>2, <1>3, <1>4 DEF CardLogsIn
<1>6. PICK uid \in Cards : uid = IF member = NONE THEN card ELSE member
  BY <1>1, <1>5 DEF Owners, LedgerOK
<1>7. Newest \in 1..MaxScans /\ Newest \in 0..MaxScans
  BY <1>1, <1>2, FreshTap
<1>8. PICK mode \in Modes, t \in Sessions :
        t = Opens(c, card, member) /\ t.uid = uid /\ t.tap = Newest /\ t.last_scan = Newest
  <2>1. ASSUME NEW mode \in Modes
        PROVE  LET u == StartSession(c, mode, uid, Newest)
               IN u \in Sessions /\ u.uid = uid /\ u.tap = Newest /\ u.last_scan = Newest
    BY <1>3, <1>7, Starting
  <2>2. \E mode \in Modes : \/ Opens(c, card, member) = StartSession(c, mode, uid, Newest)
                            \/ Opens(c, card, member) = [StartSession(c, mode, uid, Newest) EXCEPT !.then_order = TRUE]
    BY <1>6 DEF Opens, Modes
  <2>3. ASSUME NEW u \in Sessions
        PROVE  LET v == [u EXCEPT !.then_order = TRUE]
               IN v \in Sessions /\ v.uid = u.uid /\ v.tap = u.tap /\ v.last_scan = u.last_scan
    BY DEF Sessions
  <2>4. PICK mode \in Modes : \/ Opens(c, card, member) = StartSession(c, mode, uid, Newest)
                              \/ Opens(c, card, member) = [StartSession(c, mode, uid, Newest) EXCEPT !.then_order = TRUE]
    BY <2>2
  <2>5. PICK u \in Sessions : u = StartSession(c, mode, uid, Newest) /\ u.uid = uid /\ u.tap = Newest /\ u.last_scan = Newest
    BY <2>1
  <2> QED
    BY <2>3, <2>4, <2>5
<1>9. Changes(w, "save", t)
  BY <1>5, <1>8 DEF Changes
<1>10. PICK r \in Requests : req'[w] = r /\ r.step = "save" /\ r.s = t /\ r.modified
  BY <1>1, <1>9, Leads
<1>11. /\ session.last_scan < Newest /\ session.tap < Newest /\ Newest \in Nat
       /\ session.last_scan \in Nat /\ session.tap \in Nat
  BY <1>1, <1>2, InHand
<1>12. Stored(r)
  <2>1. Quits(r) /\ r # NONE
    BY <1>8, <1>10, <1>11 DEF Quits
  <2>2. Stored(req[w])
    BY <1>1, InHand
  <2> QED
    BY <2>1, <2>2 DEF Stored, LoggedIn
<1>13. CopyOK(r)
  <2>1. Free(Newest) /\ Newest \notin decided
    BY <1>11 DEF OneInv, Once, Free, KioskInv, RowsOK, GoodOrder, Rows
  <2> QED
    BY <1>8, <1>10, <1>11, <2>1 DEF CopyOK
<1> QED
  BY <1>1, <1>10, <1>12, <1>13, CopyMoves

LEMMA OneIdles ==
  ASSUME KioskInv, OneInv, OneWorker, NEW w \in Workers, IdleReturn(w) PROVE OneInv'
<1>1. /\ req[w] # NONE /\ ~LoggedIn(req[w].s)
      /\ UNCHANGED <<session, cuts, orders, merge, failed, decided>>
  BY DEF IdleReturn, Render, database, budget, history
<1>2. PICK s \in Sessions : s = req[w].s /\ s.uid = NONE /\ s.tap <= s.last_scan
  BY <1>1, InHand DEF LoggedIn, CopyOK
<1>3. CASE s.mode # "order" /\ s.idle = 0 /\ ~Capturing
  <2>1. PICK t : t = [s EXCEPT !.mode = "order"]
    OBVIOUS
  <2>2. t \in Sessions /\ t.uid = NONE /\ t.tap = s.tap /\ t.last_scan = s.last_scan
    BY <1>2, <2>1 DEF Sessions, Modes
  <2>3. Changes(w, "save", t)
    BY <1>2, <1>3, <2>1 DEF IdleReturn, Changes
  <2>4. PICK r \in Requests : req'[w] = r /\ r.step = "save" /\ r.s = t /\ r.modified
    BY <1>1, <2>2, <2>3, Leads
  <2>5. Once'
    BY <1>1 DEF OneInv, Once, Rows
  <2>6. r.s.uid = NONE /\ r.s.tap <= r.s.last_scan /\ req[w].s.last_scan <= r.s.last_scan
    BY <1>1, <1>2, <2>2, <2>4, InHand
  <2> QED
    BY <1>1, <2>4, <2>5, <2>6, LogsOut
<1>4. CASE ~(s.mode # "order" /\ s.idle = 0 /\ ~Capturing)
  <2>1. PICK modified \in BOOLEAN : modified = req[w].modified
    BY <1>1, InHand
  <2>2. Go(w, "save", s, modified)
    BY <1>2, <1>4, <2>1 DEF IdleReturn
  <2>3. PICK r \in Requests : req'[w] = r /\ r.step = "save" /\ r.s = s /\ r.modified = modified
    BY <1>1, <2>2, GoesTo
  <2>4. Stored(req[w]) /\ CopyOK(req[w])
    BY <1>1, InHand
  <2>5. CopyOK(r)
    BY <1>1, <1>2, <2>1, <2>3, <2>4 DEF CopyOK
  <2>6. Stored(r)
    BY <1>1, <1>2, <2>1, <2>3, <2>4 DEF Stored, Quits, LoggedIn
  <2> QED
    BY <1>1, <2>3, <2>5, <2>6, CopyMoves
<1> QED
  BY <1>3, <1>4

LEMMA OneTicks ==
  ASSUME KioskInv, OneInv, OneWorker, NEW w \in Workers, Tick(w) PROVE OneInv'
<1>1. /\ req[w] # NONE /\ LoggedIn(req[w].s) /\ req[w].step = "panel"
      /\ UNCHANGED <<session, cuts, orders, merge, failed, decided>>
  BY DEF Tick, Render, database, budget, history
<1>2. PICK s \in Sessions : s = req[w].s /\ s.tap <= s.last_scan
  BY <1>1, InHand DEF CopyOK
<1>3. Stored(req[w]) /\ CopyOK(req[w])
  BY <1>1, InHand
<1>4. LoggedIn(session) /\ s.tap = session.tap
  BY <1>1, <1>2, <1>3 DEF CopyOK
<1>5. CASE s.left > 0
  <2>1. PICK modified \in BOOLEAN : modified = req[w].modified
    BY <1>1, InHand
  <2>2. Go(w, "save", s, modified)
    BY <1>2, <1>5, <2>1 DEF Tick
  <2>3. PICK r \in Requests : req'[w] = r /\ r.step = "save" /\ r.s = s /\ r.modified = modified
    BY <1>1, <2>2, GoesTo
  <2>4. CopyOK(r)
    BY <1>1, <1>2, <1>3, <1>4, <2>1, <2>3 DEF CopyOK
  <2>5. Stored(r)
    BY <1>1, <1>2, <1>3, <2>1, <2>3 DEF Stored, Quits, LoggedIn
  <2> QED
    BY <1>1, <2>3, <2>4, <2>5, CopyMoves
<1>6. CASE ~(s.left > 0) /\ s.mode = "order" /\ s.auto /\ s.uid \in members
  <2>1. Changes(w, "checkout", s)
    BY <1>2, <1>6 DEF Tick, Changes
  <2>3. PICK r \in Requests : req'[w] = r /\ r.step = "checkout" /\ r.s = s /\ r.modified
    BY <1>1, <2>1, Leads
  <2>4. CopyOK(r)
    BY <1>1, <1>2, <1>3, <1>4, <1>6, <2>1, <2>3 DEF CopyOK
  <2>5. Stored(r)
    BY <1>1, <1>2, <1>3, <1>4, <1>6, <2>3 DEF Stored, Quits, LoggedIn
  <2> QED
    BY <1>1, <2>3, <2>4, <2>5, CopyMoves
<1>7. CASE ~(s.left > 0) /\ ~(s.mode = "order" /\ s.auto /\ s.uid \in members)
  <2>1. PICK u \in Sessions : u = ResetSession(s) /\ u.uid = NONE /\ u.tap = 0 /\ u.last_scan = s.last_scan
    BY Resetting
  <2>2. Changes(w, "save", u)
    BY <1>2, <1>7, <2>1 DEF Tick, Changes
  <2>3. PICK r \in Requests : req'[w] = r /\ r.step = "save" /\ r.s = u /\ r.modified
    BY <1>1, <2>2, Leads
  <2>4. Once'
    BY <1>1 DEF OneInv, Once, Rows
  <2>5. r.s.uid = NONE /\ r.s.tap <= r.s.last_scan /\ req[w].s.last_scan <= r.s.last_scan
    BY <1>1, <1>2, <2>1, <2>3, InHand
  <2> QED
    BY <1>1, <2>3, <2>4, <2>5, LogsOut
<1> QED
  BY <1>5, <1>6, <1>7

\* The two ways a coffee is booked: once by a login that has not, and never by itself after a decision.
LEMMA OnePlaces ==
  ASSUME KioskInv, OneInv, OneWorker, NEW w \in Workers, PlaceOrder(w) PROVE OneInv'
<1>1. /\ req[w] # NONE /\ req[w].step \in {"confirm", "checkout"} /\ UNCHANGED <<session, cuts, merge, decided>>
  BY DEF PlaceOrder, ledger, budget
<1>2. PICK s \in Sessions : s = req[w].s
  BY <1>1, InHand
<1>3. CopyOK(req[w]) /\ session.tap <= session.last_scan /\ session.last_scan <= s.last_scan /\ session.last_scan \in Nat
  BY <1>1, <1>2, InHand
<1>4. LoggedIn(s)
  <2>1. GoodRequest(req[w])
    BY <1>1, CopyGood DEF KioskInv
  <2> QED
    BY <1>1, <1>2, <2>1 DEF GoodRequest, In
<1>5. /\ LoggedIn(session) /\ s.tap = session.tap
      /\ s.tap \notin failed => Free(s.tap) /\ (s.tap \in decided => ~s.auto \/ req[w].step = "confirm")
      /\ req[w].step = "checkout" => s.auto
  BY <1>1, <1>2, <1>3, <1>4 DEF CopyOK
<1>6. CASE s.uid \notin members
  <2>1. Fail(w) /\ UNCHANGED orders /\ failed' = failed \cup {session.tap}
    BY <1>2, <1>5, <1>6 DEF PlaceOrder
  <2> QED
    BY <1>1, <2>1, OneFails
<1>7. CASE s.uid \in members
  <2>1. PICK o : o = [id |-> booked', member |-> s.uid, tap |-> s.tap,
                      overruled |-> req[w].step = "checkout" /\ s.tap \in decided, proper |-> s.uid \in proper]
    OBVIOUS
  <2>2. orders' = orders \cup {o} /\ UNCHANGED failed
    BY <1>2, <1>7, <2>1 DEF PlaceOrder
  <2>3. o.tap = s.tap /\ (o.overruled => req[w].step = "checkout" /\ s.tap \in decided)
    <3>1. PICK overruled \in BOOLEAN : overruled = (req[w].step = "checkout" /\ s.tap \in decided)
      OBVIOUS
    <3>2. (s.uid \in proper) = TRUE
      <4>1. GoodSession(s) /\ In(s, "order")
        BY <1>1, <1>2, CopyGood DEF KioskInv, GoodRequest
      <4> QED
        BY <1>7, <4>1 DEF GoodSession, Proper
    <3>3. o = [id |-> booked', member |-> s.uid, tap |-> s.tap, overruled |-> overruled, proper |-> TRUE]
      BY <2>1, <3>1, <3>2
    <3>4. o.tap = s.tap /\ o.overruled = overruled
      BY <3>3
    <3> QED
      BY <3>1, <3>4
  <2>4. Rows' = Rows \cup {o}
    BY <1>1, <2>2 DEF Rows
  <2>5. Once
    BY DEF OneInv
  <2>6. s.tap \notin failed => ~o.overruled /\ \A p \in Rows : p.tap # o.tap
    BY <1>5, <2>3 DEF Free
  <2>7. Once'
    <3>1. ASSUME NEW p \in Rows', NEW q \in Rows' PROVE p.tap \in failed' \/ (~p.overruled /\ (p.tap = q.tap => p = q))
      BY <2>2, <2>3, <2>4, <2>5, <2>6 DEF Once
    <3>2. \A p \in Rows' : p.tap <= session'.last_scan
      BY <1>1, <1>3, <1>5, <2>3, <2>4, <2>5 DEF Once
    <3> QED
      BY <1>1, <2>5, <3>1, <3>2 DEF Once
  <2>8. PICK u \in Sessions : u = ResetSession(s) /\ u.uid = NONE /\ u.tap = 0 /\ u.last_scan = s.last_scan
    BY Resetting
  <2>9. PICK step \in {"panel", "save"} : Changes(w, step, u)
    BY <1>2, <1>7, <2>8 DEF PlaceOrder, Changes
  <2>10. PICK r \in Requests : req'[w] = r /\ r.step = step /\ r.s = u /\ r.modified
    BY <1>1, <2>9, Leads
  <2>11. r.s.uid = NONE /\ r.s.tap <= r.s.last_scan /\ req[w].s.last_scan <= r.s.last_scan /\ r.step # "checkout"
    <3>1. s.last_scan \in Nat
      BY DEF Sessions
    <3> QED
      BY <1>2, <2>8, <2>10, <3>1
  <2> QED
    BY <1>1, <2>2, <2>7, <2>10, <2>11, LogsOut
<1> QED
  BY <1>6, <1>7

\* The copy is stored. There is one worker, so nothing that was stored meanwhile is overwritten.
LEMMA OneStores ==
  ASSUME KioskInv, OneInv, OneWorker, NEW w \in Workers, SaveSession(w) PROVE OneInv'
<1>1. /\ req[w] # NONE /\ req[w].step = "save" /\ UNCHANGED <<cuts, orders, merge, failed, decided>> /\ Fail(w)
      /\ session' = IF req[w].modified THEN req[w].s ELSE session
  BY DEF SaveSession, ledger, budget, history
<1>2. PICK r \in Requests : r = req[w]
  BY <1>1, InHand
<1>3. /\ CopyOK(r) /\ Stored(r) /\ r.step = "save" /\ r # NONE /\ session.last_scan <= r.s.last_scan
      /\ session.last_scan \in Nat /\ r.s.last_scan \in Nat /\ session.tap <= session.last_scan
  BY <1>1, <1>2, InHand
<1>4. session'.last_scan \in Nat /\ session.last_scan <= session'.last_scan /\ session'.tap <= session'.last_scan
  BY <1>1, <1>2, <1>3 DEF CopyOK
<1>5. Once'
  <2>1. Once /\ Rows' = Rows
    BY <1>1 DEF OneInv, Rows
  <2>2. \A o \in Rows : o.tap \in Nat
    BY DEF KioskInv, RowsOK, GoodOrder, Rows
  <2> QED
    BY <1>1, <1>3, <1>4, <2>1, <2>2 DEF Once
<1>6. /\ LoggedIn(session)' /\ session'.tap \notin failed' =>
           Free(session.tap)' /\ (session'.tap \in decided' => session'.mode = "order" /\ ~session'.auto)
  <2>1. CASE r.modified
    BY <1>1, <1>2, <1>3, <2>1 DEF CopyOK, Free, Rows, LoggedIn
  <2>2. CASE ~r.modified
    BY <1>1, <1>2, <1>3, <2>2 DEF Stored, Quits, Free, Rows, LoggedIn
  <2> QED
    BY <2>1, <2>2
<1>7. \A v \in Workers : req'[v] = NONE
  BY <1>1 DEF Fail, KioskInv, SessionOK, OneWorker
<1>8. ASSUME NEW v \in Workers PROVE Stored(req[v])'
  BY <1>6, <1>7 DEF Stored
<1> QED
  BY <1>1, <1>4, <1>5, <1>7, <1>8 DEF OneInv

\* Copies keep up with what is stored: the login is the same, in the request and outside.
Same(t, s) == t.mode = s.mode /\ t.uid = s.uid /\ t.tap = s.tap /\ t.last_scan = s.last_scan /\ t.auto = s.auto

LEMMA Follows ==
  ASSUME OneInv, UNCHANGED <<cuts, failed, decided>>, Same(session', session), Once',
         \A o \in Rows' : \E p \in Rows : o.tap = p.tap,
         \A v \in Workers : /\ req'[v] = NONE <=> req[v] = NONE
                            /\ req[v] # NONE =>
                                 /\ req'[v].step = req[v].step /\ (req'[v].modified <=> req[v].modified)
                                 /\ Same(req'[v].s, req[v].s) /\ (req[v].s = session => req'[v].s = session')
  PROVE  OneInv'
<1>1. \A t : Free(t) => Free(t)'
  BY DEF Free
<1>2. ASSUME NEW v \in Workers PROVE Stored(req[v])'
  <2>1. Stored(req[v])
    BY DEF OneInv
  <2>2. CASE req[v] = NONE
    BY <1>1, <2>1, <2>2 DEF Stored, Same, LoggedIn
  <2>3. CASE req[v] # NONE
    BY <1>1, <2>1, <2>3 DEF Stored, Quits, Same, LoggedIn
  <2> QED
    BY <2>2, <2>3
<1>3. ASSUME NEW v \in Workers, req'[v] # NONE PROVE CopyOK(req[v])'
  <2>1. CopyOK(req[v]) /\ req[v] # NONE
    BY <1>3 DEF OneInv
  <2>2. /\ req'[v].step = req[v].step /\ (req'[v].modified <=> req[v].modified)
        /\ Same(req'[v].s, req[v].s) /\ (req[v].s = session => req'[v].s = session')
    BY <2>1
  <2> QED
    BY <1>1, <2>1, <2>2 DEF CopyOK, Same, LoggedIn
<1>4. cuts' = 0 /\ session'.tap <= session'.last_scan
  BY DEF OneInv, Same
<1> QED
  BY <1>2, <1>3, <1>4 DEF OneInv

\* The page, the cards and the clock leave bookings alone.
LEMMA OnePasses ==
  ASSUME KioskInv, OneInv, UNCHANGED <<cuts, failed, decided, orders, merge>>,
         \/ UNCHANGED session /\ (req' = req \/ req' = Aborted(Kinds))
         \/ TimePasses
  PROVE  OneInv'
<1>1. session \in Sessions /\ req \in [Workers -> Requests \cup {NONE}]
  BY DEF KioskInv, SessionOK, GoodSession
<1>2. ASSUME NEW s \in Sessions, NEW t, t = Later(s) PROVE t \in Sessions /\ Same(t, s) /\ Same(s, s)
  <2>1. Alike(t, s)
    BY <1>2, Keeping, Zenon
  <2>2. t.auto = s.auto
    BY <1>2 DEF Later, Sessions
  <2> QED
    BY <2>1, <2>2 DEF Alike, Same
<1>3. Same(session', session)
  BY <1>1, <1>2 DEF TimePasses
<1>4. Once' /\ \A o \in Rows' : \E p \in Rows : o.tap = p.tap
  BY <1>3 DEF OneInv, Once, Rows, Same
<1>5. ASSUME NEW v \in Workers
      PROVE  /\ req'[v] = NONE <=> req[v] = NONE
             /\ req[v] # NONE =>
                  /\ req'[v].step = req[v].step /\ (req'[v].modified <=> req[v].modified)
                  /\ Same(req'[v].s, req[v].s) /\ (req[v].s = session => req'[v].s = session')
  <2>1. CASE req[v] = NONE
    BY <1>1, <2>1 DEF TimePasses, Aborted
  <2>2. CASE req[v] # NONE
    <3>1. req[v] \in Requests /\ req[v].s \in Sessions /\ Same(req[v].s, req[v].s)
      BY <1>1, <1>2, <2>2 DEF Requests
    <3>2. CASE UNCHANGED session /\ req' = req
      BY <2>2, <3>1, <3>2
    <3>3. CASE UNCHANGED session /\ req' = Aborted(Kinds)
      <4>1. PICK a : a = [req[v] EXCEPT !.kind = "aborted"]
        OBVIOUS
      <4>2. a \in Requests /\ a.step = req[v].step /\ a.s = req[v].s /\ a.modified = req[v].modified
        BY <3>1, <4>1 DEF Requests, Kinds
      <4>3. req'[v] = a \/ req'[v] = req[v]
        BY <2>2, <3>3, <4>1 DEF Aborted
      <4> QED
        BY <2>2, <3>1, <3>3, <4>2, <4>3
    <3>4. CASE TimePasses
      <4>1. PICK t : t = Later(req[v].s)
        OBVIOUS
      <4>2. t \in Sessions /\ Same(t, req[v].s)
        BY <1>2, <3>1, <4>1
      <4>3. PICK a : a = [req[v] EXCEPT !.s = t]
        OBVIOUS
      <4>4. a \in Requests /\ a.step = req[v].step /\ a.s = t /\ a.modified = req[v].modified
        BY <3>1, <4>2, <4>3 DEF Requests
      <4>5. req'[v] = a /\ session' = Later(session)
        BY <2>2, <3>4, <4>1, <4>3 DEF TimePasses
      <4> QED
        BY <2>2, <4>1, <4>2, <4>4, <4>5
    <3> QED
      BY <3>2, <3>3, <3>4
  <2> QED
    BY <2>1, <2>2
<1> QED
  BY <1>3, <1>4, <1>5, Follows

\* What the admin does to the rows: no tap that was not there, no tap twice.
LEMMA OneAdmin == ASSUME KioskInv, OneInv, Admin PROVE OneInv'
<1>1. UNCHANGED <<session, req, cuts, failed, decided>>
  BY DEF Admin, ArmCapture, MarkDeparted, Reactivate, MemberSaved, NameBlocked, MemberDelete, MergeBegins, Edit,
         MergeEnds, MergeFails, CaptureTimedOut, budget, history
<1>2. CASE /\ Rows' \in SUBSET Rows
           /\ merge' # NONE => \A o \in merge'.moved : o.member = merge'.remove
  <2>1. Once'
    BY <1>1, <1>2 DEF OneInv, Once
  <2>2. \A o \in Rows' : \E p \in Rows : o.tap = p.tap
    BY <1>2
  <2>3. Same(session', session)
    BY <1>1 DEF Same
  <2>4. \A v \in Workers : req[v] # NONE => Same(req'[v].s, req[v].s)
    BY <1>1 DEF Same
  <2> QED
    BY <1>1, <2>1, <2>2, <2>3, <2>4, Follows
<1>3. ASSUME orders' \in SUBSET orders, merge' = merge \/ merge' = NONE PROVE OneInv'
  <2>1. Rows' \in SUBSET Rows
    BY <1>3 DEF Rows
  <2>2. merge' # NONE => \A o \in merge'.moved : o.member = merge'.remove
    BY <1>3 DEF OneInv, Once
  <2> QED
    BY <1>2, <2>1, <2>2
<1>4. ASSUME NEW m \in Cards, MemberDelete(m) PROVE OneInv'
  BY <1>3, <1>4 DEF MemberDelete, Drop
<1>5. ASSUME NEW keep \in Cards, NEW remove \in Cards, MergeBegins(keep, remove) PROVE OneInv'
  <2>1. merge = NONE /\ orders' = orders
    BY <1>5 DEF MergeBegins
  <2>2. merge'.moved = {o \in orders : o.member = remove} /\ merge'.remove = remove
    <3>1. PICK name : merge' = [keep |-> keep, remove |-> remove, name |-> name,
                 moved |-> {o \in orders : o.member = remove},
                 cards |-> {c \in Cards : linked[c] = remove}]
      BY <1>5 DEF MergeBegins
    <3> QED
      BY <3>1
  <2>3. Rows' \in SUBSET Rows
    BY <2>1, <2>2 DEF Rows
  <2> QED
    BY <1>2, <2>2, <2>3
<1>6. CASE MergeEnds
  <2>1. /\ merge \in Merges /\ merge.keep # merge.remove /\ merge.keep \in Cards /\ merge # NONE /\ merge' = NONE
        /\ orders' = {o \in orders : o.member # merge.remove} \cup {[o EXCEPT !.member = merge.keep] : o \in merge.moved}
    BY <1>6, MergeIs DEF KioskInv, MergeEnds, Merges
  <2>2. Once
    BY DEF OneInv
  <2>3. \A o \in merge.moved : o \in Rows /\ o.member = merge.remove /\ o \in Orders
    BY <2>1, <2>2 DEF Once, Rows, Merges
  <2>4. ASSUME NEW o \in Orders
        PROVE  LET m == [o EXCEPT !.member = merge.keep] IN m.tap = o.tap /\ m.overruled = o.overruled
    BY <2>1 DEF Orders
  <2>5. ASSUME NEW o \in Rows'
        PROVE  \E p \in Rows : /\ o.tap = p.tap /\ (o.overruled <=> p.overruled)
                               /\ \/ p.member # merge.remove /\ o = p
                                  \/ p.member = merge.remove /\ o = [p EXCEPT !.member = merge.keep]
    <3>1. o \in orders'
      BY <2>1 DEF Rows
    <3>2. CASE o \in orders /\ o.member # merge.remove
      BY <3>2 DEF Rows
    <3>3. CASE \E p \in merge.moved : o = [p EXCEPT !.member = merge.keep]
      <4>1. PICK p \in merge.moved : o = [p EXCEPT !.member = merge.keep]
        BY <3>3
      <4>2. p \in Rows /\ p.member = merge.remove /\ o.tap = p.tap /\ o.overruled = p.overruled
        BY <2>3, <2>4, <4>1
      <4> QED
        BY <4>1, <4>2
    <3> QED
      BY <2>1, <3>1, <3>2, <3>3
  <2>6. ASSUME NEW o \in Rows', NEW q \in Rows' PROVE o.tap \in failed \/ (~o.overruled /\ (o.tap = q.tap => o = q))
    <3>1. PICK p \in Rows : /\ o.tap = p.tap /\ (o.overruled <=> p.overruled)
                            /\ \/ p.member # merge.remove /\ o = p
                               \/ p.member = merge.remove /\ o = [p EXCEPT !.member = merge.keep]
      BY <2>5
    <3>2. PICK r \in Rows : /\ q.tap = r.tap
                            /\ \/ r.member # merge.remove /\ q = r
                               \/ r.member = merge.remove /\ q = [r EXCEPT !.member = merge.keep]
      BY <2>5
    <3>3. p.tap \in failed \/ (~p.overruled /\ (p.tap = r.tap => p = r))
      BY <2>2 DEF Once
    <3> QED
      BY <3>1, <3>2, <3>3
  <2>7. Once'
    <3>1. \A o \in Rows' : o.tap <= session.last_scan
      BY <2>2, <2>5 DEF Once
    <3>2. decided' \subseteq 0..session'.last_scan
      BY <1>1, <2>2 DEF Once
    <3> QED
      BY <1>1, <2>1, <2>6, <3>1, <3>2 DEF Once
  <2>8. \A o \in Rows' : \E p \in Rows : o.tap = p.tap
    BY <2>5
  <2>9. Same(session', session) /\ \A v \in Workers : req[v] # NONE => Same(req'[v].s, req[v].s)
    BY <1>1 DEF Same
  <2> QED
    BY <1>1, <2>7, <2>8, <2>9, Follows
<1>7. CASE MergeFails \/ CaptureTimedOut
  BY <1>3, <1>7 DEF MergeFails, CaptureTimedOut, ledger
<1>8. ASSUME NEW m \in Cards, ArmCapture(m) \/ MarkDeparted(m) \/ Reactivate(m) \/ MemberSaved(m) \/ NameBlocked(m) PROVE OneInv'
  BY <1>3, <1>8 DEF ArmCapture, MarkDeparted, Reactivate, MemberSaved, NameBlocked, ledger
<1> QED
  BY <1>4, <1>5, <1>6, <1>7, <1>8 DEF Admin

LEMMA OneNext ==
  ASSUME OneWorker, MaxCuts = 0, KioskInv, OneInv, [Next]_vars PROVE OneInv'
<1>1. ASSUME NEW w \in Workers, Index(w) \/ Panel(w) \/ Buttons(w) PROVE OneInv'
  BY <1>1, OneAsks, OneNav, OneDecides, OneSaves DEF Buttons
<1>2. ASSUME NEW w \in Workers, CaptureFails(w) PROVE OneInv'
  <2>1. Fail(w) /\ failed' = failed \cup {session.tap} /\ UNCHANGED <<session, cuts, orders, merge, decided>>
    BY <1>2 DEF CaptureFails, Handles, Render, database, budget
  <2> QED
    BY <2>1, OneFails
<1>3. ASSUME NEW w \in Workers, Serve(w) PROVE OneInv'
  BY <1>2, <1>3, OneRefuses, OneLogsIn, OneIdles, OneTicks, OnePlaces, OneStores DEF Serve
<1>4. CASE Reload \/ NightBegins \/ NightEnds \/ \E card \in Cards \cup {NONE} : CardTapped(card)
  <2>1. /\ UNCHANGED <<session, cuts, orders, merge, failed, decided>>
        /\ req' = req \/ req' = Aborted(Kinds)
    BY <1>4 DEF Reload, NightBegins, NightEnds, CardTapped, database, ledger, budget, history
  <2> QED
    BY <2>1, OnePasses
<1>5. CASE TimePasses
  <2>1. UNCHANGED <<cuts, orders, merge, failed, decided>>
    BY <1>5 DEF TimePasses, ledger, budget, history
  <2> QED
    BY <1>5, <2>1, OnePasses
<1>6. CASE UNCHANGED vars
  <2>1. UNCHANGED <<session, req, cuts, orders, merge, failed, decided>>
    BY <1>6 DEF vars, database, budget, history
  <2> QED
    BY <2>1, OnePasses
<1>7. CASE Admin
  BY <1>7, OneAdmin
<1>8. ~PowerCut
  BY DEF PowerCut, OneInv
<1> QED
  BY <1>1, <1>3, <1>4, <1>5, <1>6, <1>7, <1>8 DEF Next

LEMMA InitOne == Init => OneInv
<1> SUFFICES ASSUME Init PROVE OneInv
  OBVIOUS
<1>1. session.uid = NONE /\ session.tap = 0 /\ session.last_scan = 0
  BY DEF Init, FirstSession
<1>2. Rows = {} /\ decided = {} /\ merge = NONE /\ cuts = 0 /\ \A w \in Workers : req[w] = NONE
  BY DEF Init, Rows
<1> QED
  BY <1>1, <1>2 DEF OneInv, Once, Stored, LoggedIn

(***************************************************************************)
(* The theorems.                                                           *)
(***************************************************************************)
\* The session and every copy of it, members, cards, captures and orders are of the kinds the views make;
\* an order is of a member that exists and of a tap that there was (kiosk/views.py, coffee/models.py).
THEOREM Typed == Spec => []TypeOK
<1>1. KioskInv => TypeOK
  <2> SUFFICES ASSUME KioskInv PROVE TypeOK
    OBVIOUS
  <2>1. session \in Sessions /\ screen \in {"off", "loading", "on"} /\ \A w \in Workers : req[w] = NONE \/ req[w] \in Requests
    BY DEF KioskInv, SessionOK, GoodSession
  <2>2. \A o \in orders : o.id \in 1..booked /\ o.member \in members /\ o.tap \in 1..Newest
    BY DEF KioskInv, RowsOK, GoodOrder
  <2> QED
    BY <2>1, <2>2 DEF KioskInv, LedgerOK, TapsOK, Taps, TypeOK
<1> QED
  BY <1>1, Kept, PTL

\* A card held to the reader while the screen was dark never books anything, whatever sessions and requests
\* of the evening are still about: index() starts every page from the newest scan, and no copy of the
\* session goes back behind it (kiosk/views.py: index(), _handle_new_scan()).
THEOREM NightTaps == Spec => []NightTapsNotBooked
<1>1. KioskInv => NightTapsNotBooked
  BY DEF KioskInv, RowsOK, GoodOrder, NightTapsNotBooked
<1> QED
  BY <1>1, Kept, PTL

\* Nobody books who never had a proper name, though the session is read before, and the order written after,
\* an admin deletes, merges or creates the member anew (_handle_new_scan(), settings_save(), _place_order()).
THEOREM NamedFirst == Spec => []NamedBeforeOrder
<1>1. KioskInv => NamedBeforeOrder
  BY DEF KioskInv, RowsOK, GoodOrder, NamedBeforeOrder
<1> QED
  BY <1>1, Kept, PTL
\* With one worker and no power cut, a login books at most one coffee and none against a decision made in it,
\* however cards, buttons, the admin, the night and the deadlines interleave with its requests: the only
\* exceptions are the logins that a 500 was to end (kiosk/views.py: order_confirm(), order_select(),
\* order_cancel(), _tick(), _place_order(); SessionMiddleware).
THEOREM BooksAsAsked ==
  ASSUME OneWorker, MaxCuts = 0 PROVE Spec => []BookedAsAsked
<1>1. OneInv => BookedAsAsked
  BY DEF OneInv, Once, Rows, BookedAsAsked
<1>2. KioskInv /\ OneInv /\ [Next]_vars => OneInv'
  BY OneNext
<1> QED
  BY <1>1, <1>2, InitOne, Kept, PTL DEF Spec
=============================================================================
