---------------------------- MODULE ClockProofs ------------------------------
(***************************************************************************)
(* For any number of jumps, checks, reboots, settings and RTC faults: the  *)
(* clock check never overshoots, a setting survives a power cut, and       *)
(* is_night() is right at every minute of every schedule.                  *)
(***************************************************************************)
EXTENDS Clock, FiniteSetTheorems, WellFoundedInduction, TLAPS

-----------------------------------------------------------------------------
(* The operators.                                                          *)

\* A finite set of times has a newest one: a smallest counterexample would lose one element.
LEMMA FiniteMax ==
  ASSUME NEW S \in SUBSET Int, IsFiniteSet(S), S # {}
  PROVE  Max(S) \in S /\ \A x \in S : x <= Max(S)
<1> DEFINE Top(T) == \E x \in T : \A y \in T : y <= x
           Bad == {T \in FiniteSubsetsOf(S) : T # {} /\ ~Top(T)}
<1>1. Bad = {}
  <2> SUFFICES ASSUME Bad # {} PROVE FALSE
    OBVIOUS
  <2>1. PICK T \in Bad : \A U \in Bad : ~(<<U, T>> \in StrictSubsetOrdering(S))
    <3>1. IsWellFoundedOn(StrictSubsetOrdering(S), FiniteSubsetsOf(S))
      BY FS_StrictSubsetOrderingWellFounded
    <3>2. Bad \subseteq FiniteSubsetsOf(S)
      OBVIOUS
    <3> HIDE DEF Bad
    <3> QED  BY <3>1, <3>2, WFMin
  <2>2. T \subseteq S /\ IsFiniteSet(T) /\ T # {} /\ ~Top(T)
    BY DEF FiniteSubsetsOf
  <2>3. PICK a \in T : a \in Int
    BY <2>2
  <2> DEFINE U == T \ {a}
  <2>4. U \subseteq S /\ IsFiniteSet(U) /\ U # T
    BY <2>2, <2>3, FS_RemoveElement
  <2>5. <<U, T>> \in StrictSubsetOrdering(S) /\ U \in FiniteSubsetsOf(S)
    BY <2>2, <2>4 DEF StrictSubsetOrdering, FiniteSubsetsOf
  <2>6. U = {} \/ Top(U)
    BY <2>1, <2>5
  <2>7. CASE U = {}
    BY <2>2, <2>3, <2>7
  <2>8. CASE Top(U)
    <3>1. PICK x \in U : \A y \in U : y <= x
      BY <2>8
    <3>2. x \in Int /\ x \in T /\ \A y \in T : y = a \/ y <= x
      BY <2>2, <3>1
    <3>3. CASE a <= x
      BY <2>2, <3>2, <3>3
    <3>4. CASE ~(a <= x)
      <4>1. \A y \in T : y \in Int
        BY <2>2
      <4>2. \A y \in T : y <= a
        BY <2>3, <3>2, <3>4, <4>1
      <4> QED  BY <2>2, <2>3, <4>2
    <3> QED  BY <3>3, <3>4
  <2> QED  BY <2>6, <2>7, <2>8
<1>2. S \in FiniteSubsetsOf(S)
  BY DEF FiniteSubsetsOf
<1>3. Top(S)
  BY <1>1, <1>2
<1>4. \E x \in S : \A y \in S : x >= y
  BY <1>3
<1>5. Max(S) \in S /\ \A y \in S : Max(S) >= y
  BY <1>4 DEF Max
<1> QED  BY <1>5

Time == Int \cup {NONE}

\* The newest of some times is one of them.
LEMMA LatestIs ==
  ASSUME NEW S \in SUBSET Int, IsFiniteSet(S)
  PROVE  /\ Latest(S) \in S \cup {NONE}
         /\ Latest(S) \in Time
BY FiniteMax DEF Latest, Time

LEMMA LatestOfTwo ==
  ASSUME NEW a \in Time, NEW b \in Time
  PROVE  /\ Latest({a, b} \ {NONE}) \in {a, b}
         /\ Latest({a, b} \ {NONE}) \in Time
<1>1. {a, b} \ {NONE} \in SUBSET Int
  BY DEF Time
<1>2. IsFiniteSet({a, b} \ {NONE})
  <2>1. IsFiniteSet({a})
    BY FS_Singleton
  <2>2. IsFiniteSet({a} \cup {b})
    BY <2>1, FS_AddElement
  <2>3. IsFiniteSet(({a} \cup {b}) \ {NONE})
    BY <2>2, FS_RemoveElement
  <2>4. {a, b} = {a} \cup {b}
    OBVIOUS
  <2> QED  BY <2>3, <2>4
<1>3. CASE {a, b} \ {NONE} = {}
  BY <1>3 DEF Latest, Time
<1>4. CASE {a, b} \ {NONE} # {}
  BY <1>1, <1>2, <1>4, FiniteMax DEF Latest, Time
<1> QED  BY <1>3, <1>4

-----------------------------------------------------------------------------
(* The log: one or more stretches, each with the time of its newest entry. *)

IsLog(l) ==
  \E n \in Nat \ {0} :
    /\ DOMAIN l = 1..n
    /\ l = [i \in 1..n |-> [set |-> l[i].set, newest |-> l[i].newest]]
    /\ \A i \in 1..n : l[i].newest \in Time

Dates(l) == {l[i].newest : i \in DOMAIN l}

LEMMA LogIs ==
  ASSUME NEW l, IsLog(l)
  PROVE  /\ Len(l) \in Nat \ {0} /\ DOMAIN l = 1..Len(l)
         /\ l \in Seq({l[i] : i \in DOMAIN l})
         /\ Last(l).newest \in Time /\ Last(l).newest \in Dates(l)
         /\ Dates(l) \subseteq Time
<1>1. PICK n \in Nat \ {0} :
        /\ DOMAIN l = 1..n
        /\ l = [i \in 1..n |-> [set |-> l[i].set, newest |-> l[i].newest]]
        /\ \A i \in 1..n : l[i].newest \in Time
  BY DEF IsLog
<1> DEFINE S == {l[i] : i \in DOMAIN l}
<1>2. l \in [1..n -> S]
  BY <1>1
<1>3. l \in Seq(S)
  BY <1>1, <1>2
<1>4. Len(l) = n
  BY <1>1, <1>3
<1>5. Last(l) = l[n] /\ n \in DOMAIN l
  BY <1>1, <1>4 DEF Last
<1> QED  BY <1>1, <1>3, <1>4, <1>5 DEF Dates

\* audit.log() adds its time to the last stretch.
LEMMA LoggedIs ==
  ASSUME NEW l, IsLog(l), NEW a \in Time
  PROVE  IsLog(Logged(l, {a})) /\ Dates(Logged(l, {a})) \subseteq Dates(l) \cup {a}
<1>1. PICK n \in Nat \ {0} :
        /\ DOMAIN l = 1..n
        /\ l = [i \in 1..n |-> [set |-> l[i].set, newest |-> l[i].newest]]
        /\ \A i \in 1..n : l[i].newest \in Time
  BY DEF IsLog
<1>2. Len(l) = n
  BY <1>1, LogIs
<1> DEFINE new == Latest({a, l[n].newest} \ {NONE})
           m == Logged(l, {a})
<1>3. n \in 1..n /\ new \in {a, l[n].newest} /\ new \in Time
  BY <1>1, LatestOfTwo
<1>4. {a} \cup {l[n].newest} = {a, l[n].newest}
  OBVIOUS
<1>5. m = [l EXCEPT ![n].newest = new]
  BY <1>2, <1>4 DEF Logged
<1> HIDE DEF new
<1>6. DOMAIN m = 1..n /\ \A i \in 1..n : m[i] = [set |-> l[i].set, newest |-> IF i = n THEN new ELSE l[i].newest]
  BY <1>1, <1>5
<1> HIDE DEF m
<1>7. m = [i \in 1..n |-> [set |-> m[i].set, newest |-> m[i].newest]]
  <2>1. m = [i \in 1..n |-> m[i]]
    BY <1>1, <1>5 DEF m
  <2>2. \A i \in 1..n : m[i] = [set |-> m[i].set, newest |-> m[i].newest]
    BY <1>6
  <2> QED  BY <2>1, <2>2
<1>8. \A i \in 1..n : m[i].newest \in Time /\ m[i].newest \in Dates(l) \cup {a}
  BY <1>1, <1>3, <1>6 DEF Dates
<1>9. IsLog(m)
  BY <1>6, <1>7, <1>8 DEF IsLog
<1>10. Dates(m) \subseteq Dates(l) \cup {a}
  BY <1>6, <1>8 DEF Dates
<1> QED  BY <1>9, <1>10 DEF m

\* The entry of a setting of the clock starts a new stretch.
LEMMA AppendedIs ==
  ASSUME NEW l, IsLog(l), NEW w
  PROVE  /\ IsLog(Append(l, [set |-> w, newest |-> NONE]))
         /\ Dates(Append(l, [set |-> w, newest |-> NONE])) \subseteq Dates(l) \cup {NONE}
<1>1. PICK n \in Nat \ {0} :
        /\ DOMAIN l = 1..n
        /\ l = [i \in 1..n |-> [set |-> l[i].set, newest |-> l[i].newest]]
        /\ \A i \in 1..n : l[i].newest \in Time
  BY DEF IsLog
<1> DEFINE r == [set |-> w, newest |-> NONE]
           m == Append(l, r)
           S == {l[i] : i \in DOMAIN l} \cup {r}
<1>2. Len(l) = n /\ l \in Seq(S)
  BY <1>1, LogIs
<1>3. DOMAIN m = 1..(n + 1) /\ m \in Seq(S) /\ \A i \in 1..(n + 1) : m[i] = IF i = n + 1 THEN r ELSE l[i]
  BY <1>1, <1>2
<1>4. \A i \in 1..(n + 1) : m[i] = [set |-> m[i].set, newest |-> m[i].newest]
                            /\ m[i].newest \in Time /\ m[i].newest \in Dates(l) \cup {NONE}
  <2> SUFFICES ASSUME NEW i \in 1..(n + 1)
               PROVE  /\ m[i] = [set |-> m[i].set, newest |-> m[i].newest]
                      /\ m[i].newest \in Time /\ m[i].newest \in Dates(l) \cup {NONE}
    OBVIOUS
  <2>1. CASE i = n + 1
    BY <1>3, <2>1 DEF Time
  <2>2. CASE i # n + 1
    <3>1. i \in 1..n /\ m[i] = l[i]
      BY <1>1, <1>3, <2>2
    <3> QED  BY <1>1, <3>1 DEF Dates
  <2> QED  BY <2>1, <2>2
<1>5. m = [i \in 1..(n + 1) |-> m[i]]
  BY <1>3
<1>6. n + 1 \in Nat \ {0}
  BY <1>1
<1> HIDE DEF m
<1>7. m = [i \in 1..(n + 1) |-> [set |-> m[i].set, newest |-> m[i].newest]]
  BY <1>4, <1>5
<1>8. IsLog(m) /\ Dates(m) \subseteq Dates(l) \cup {NONE}
  BY <1>3, <1>4, <1>6, <1>7 DEF IsLog, Dates
<1> QED  BY <1>8 DEF m

\* prune() leaves a log, and no entry that was not there.
LEMMA PrunedIs ==
  ASSUME IsLog(log)
  PROVE  IsLog(Pruned) /\ Dates(Pruned) \subseteq Dates(log) \cup {NONE}
<1> DEFINE starts == {i \in DOMAIN log : i = 1 \/ ~Old(log[i].set)}
           k == Cardinality(starts)
           joins(n) == {j \in DOMAIN log : Cardinality({i \in starts : i <= j}) = n}
           kept(n) == {log[j].newest : j \in joins(n)} \ ({NONE} \cup {t \in 0..wall : Old(t)})
<1>1. Len(log) \in Nat \ {0} /\ DOMAIN log = 1..Len(log) /\ Dates(log) \subseteq Time
  BY LogIs
<1>2. k \in Nat \ {0}
  <2>1. IsFiniteSet(DOMAIN log) /\ starts \subseteq DOMAIN log /\ 1 \in starts
    BY <1>1, FS_Interval
  <2>2. IsFiniteSet(starts) /\ starts # {}
    BY <2>1, FS_Subset
  <2>3. k \in Nat
    BY <2>2, FS_CardinalityType
  <2>4. k # 0
    BY <2>2, FS_EmptySet
  <2> QED  BY <2>3, <2>4
<1>3. ASSUME NEW n \in 1..k
      PROVE  Latest(kept(n)) \in Time /\ Latest(kept(n)) \in Dates(log) \cup {NONE}
  <2>1. kept(n) \subseteq Dates(log) /\ kept(n) \subseteq Int
    BY <1>1 DEF Dates, Time
  <2>2. IsFiniteSet(kept(n))
    <3> DEFINE D == Dates(log)
               f == [j \in DOMAIN log |-> log[j].newest]
    <3>1. f \in Surjection(DOMAIN log, D)
      BY DEF Surjection, Dates
    <3>2. IsFiniteSet(DOMAIN log)
      BY <1>1, FS_Interval
    <3>3. IsFiniteSet(D)
      BY <3>1, <3>2, FS_Surjection
    <3> QED  BY <2>1, <3>3, FS_Subset
  <2> HIDE DEF kept
  <2> QED  BY <2>1, <2>2, LatestIs
<1>4. Pruned = [n \in 1..k |-> [set |-> log[Min(joins(n))].set, newest |-> Latest(kept(n))]]
  BY DEF Pruned
<1> HIDE DEF starts, k, joins, kept
<1>5. IsLog(Pruned)
  <2> DEFINE p == Pruned
  <2> HIDE DEF p
  <2>1. p = [n \in 1..k |-> [set |-> log[Min(joins(n))].set, newest |-> Latest(kept(n))]]
    BY <1>4 DEF p
  <2>2. DOMAIN p = 1..k /\ \A n \in 1..k : p[n] = [set |-> p[n].set, newest |-> p[n].newest] /\ p[n].newest \in Time
    BY <1>3, <2>1
  <2>3. p = [n \in 1..k |-> [set |-> p[n].set, newest |-> p[n].newest]]
    BY <2>1, <2>2
  <2>4. IsLog(p)
    BY <1>2, <2>2, <2>3 DEF IsLog
  <2> QED  BY <2>4 DEF p
<1>6. Dates(Pruned) \subseteq Dates(log) \cup {NONE}
  <2>1. \A n \in DOMAIN Pruned : Pruned[n].newest = Latest(kept(n)) /\ n \in 1..k
    BY <1>4
  <2>2. \A n \in DOMAIN Pruned : Pruned[n].newest \in Dates(log) \cup {NONE}
    BY <1>3, <2>1
  <2> QED  BY <2>2 DEF Dates
<1> QED  BY <1>5, <1>6

-----------------------------------------------------------------------------
(* Types.                                                                  *)

TypeOK ==
  /\ real \in Nat /\ wall \in Int /\ boot \in Nat
  /\ rtc \in {"runs", "reset", "stopped", "dead"} /\ rtcOff \in Int /\ ntp \in BOOLEAN
  /\ status \in [state : {"unknown", "ok", "lost", "unreadable"}, checked : Int,
                 lostBoot : Nat \cup {NONE}, ntp : BOOLEAN]
  /\ seen \in [boot : Nat, wall : Int, real : Nat] \cup {NONE} /\ corrected \in BOOLEAN
  /\ IsLog(log) /\ hostEvents \in Time
  /\ check \in [target : Time, wall : Int, corrected : BOOLEAN] \cup {NONE}
  /\ admin \in {"idle", "set", "log"}
  /\ events \in Nat /\ jumps \in Nat /\ ahead \in BOOLEAN /\ unsynced \in BOOLEAN

LEMMA TypeInit == Init => TypeOK
<1> SUFFICES ASSUME Init PROVE TypeOK
  OBVIOUS
<1>1. IsLog(log)
  <2>1. log = [i \in 1..1 |-> [set |-> NONE, newest |-> NONE]] /\ DOMAIN log = 1..1
    BY DEF Init
  <2>2. \A i \in 1..1 : log[i] = [set |-> NONE, newest |-> NONE]
    BY <2>1
  <2>3. \A i \in 1..1 : log[i].newest \in Time /\ log[i] = [set |-> log[i].set, newest |-> log[i].newest]
    BY <2>2 DEF Time
  <2>4. log = [i \in 1..1 |-> [set |-> log[i].set, newest |-> log[i].newest]] /\ 1 \in Nat \ {0}
    BY <2>1, <2>3
  <2> QED  BY <2>1, <2>3, <2>4 DEF IsLog
<1>2. Start \in Nat
  BY ConstantAssumption
<1>3. status \in [state : {"unknown", "ok", "lost", "unreadable"}, checked : Int,
                  lostBoot : Nat \cup {NONE}, ntp : BOOLEAN]
  <2>1. status = [state |-> "unknown", checked |-> 0, lostBoot |-> NONE, ntp |-> FALSE]
    BY DEF Init, NoStatus
  <2> QED  BY <2>1
<1>4. /\ real = Start /\ wall = Start /\ boot = 0 /\ rtc = "runs" /\ rtcOff = 0 /\ ntp = FALSE
      /\ seen = NONE /\ corrected = FALSE /\ hostEvents = NONE /\ check = NONE /\ admin = "idle"
      /\ events = 0 /\ jumps = 0 /\ ahead = FALSE /\ unsynced = FALSE
  BY DEF Init
<1>5. hostEvents \in Time
  BY <1>4 DEF Time
<1>6. real \in Nat /\ wall \in Int /\ boot \in Nat /\ rtcOff \in Int /\ events \in Nat /\ jumps \in Nat
  BY <1>2, <1>4
<1>7. /\ rtc \in {"runs", "reset", "stopped", "dead"} /\ ntp \in BOOLEAN /\ corrected \in BOOLEAN
      /\ admin \in {"idle", "set", "log"} /\ ahead \in BOOLEAN /\ unsynced \in BOOLEAN
  BY <1>4
<1>8. /\ seen \in [boot : Nat, wall : Int, real : Nat] \cup {NONE}
      /\ check \in [target : Time, wall : Int, corrected : BOOLEAN] \cup {NONE}
  BY <1>4
<1> QED  BY <1>1, <1>3, <1>5, <1>6, <1>7, <1>8 DEF TypeOK

\* what the check reads from the clock.json and the log
LEMMA TargetTyped == ASSUME TypeOK PROVE Target \in Time /\ Newest \in Time /\ (seen # NONE => Expected \in Int)
<1>1. Newest \in Time
  BY LogIs DEF TypeOK, Newest
<1>2. seen # NONE => Expected \in Int
  BY DEF TypeOK, Expected
<1>3. BehindLog => Newest + AHEAD \in Int
  BY <1>1, ConstantAssumption DEF BehindLog, Time
<1>4. WentBack => Expected \in Int
  BY <1>2 DEF WentBack
<1> QED  BY <1>1, <1>2, <1>3, <1>4 DEF Target, Time

LEMMA LogTyped ==
  ASSUME TypeOK
  PROVE  /\ \A at \in Time : Log(at) => IsLog(log')
         /\ log' = Logged(Pruned, {wall}) => IsLog(log')
<1>1. \A at \in Time : Log(at) => IsLog(log')
  <2> SUFFICES ASSUME NEW at \in Time, log' = Logged(log, {at}) PROVE IsLog(log')
    BY DEF Log
  <2>1. IsLog(log)
    BY DEF TypeOK
  <2>2. IsLog(Logged(log, {at}))
    BY <2>1, LoggedIs
  <2> QED  BY <2>2
<1>2. IsLog(Pruned) /\ wall \in Time
  BY PrunedIs DEF TypeOK, Time
<1>3. IsLog(Logged(Pruned, {wall}))
  BY <1>2, LoggedIs
<1> QED  BY <1>1, <1>3

LEMMA SetBackTyped == ASSUME TypeOK, CountsBack PROVE jumps' \in Nat
BY DEF TypeOK, CountsBack

LEMMA HappensTyped == ASSUME TypeOK, Happens PROVE events' \in Nat
BY DEF TypeOK, Happens

\* the time of a host event joins the newest of those not collected yet
LEMMA WaitingIs ==
  ASSUME TypeOK
  PROVE  Latest({hostEvents, wall} \ {NONE}) \in Time /\ Latest({hostEvents, wall} \ {NONE}) \in {hostEvents, wall}
<1>1. wall \in Time /\ hostEvents \in Time
  BY DEF TypeOK, Time
<1> QED  BY <1>1, LatestOfTwo

LEMMA TypeNext == TypeOK /\ [Next]_vars => TypeOK'
<1> SUFFICES ASSUME TypeOK, [Next]_vars PROVE TypeOK'
  OBVIOUS
<1> USE DEF clocks, rtcVars, clockJson, audit, history
<1>1. CASE CheckReads
  <2>1. Target \in Time
    BY TargetTyped
  <2>2. check' \in [target : Time, wall : Int, corrected : BOOLEAN]
    BY <1>1, <2>1 DEF CheckReads, TypeOK, Time
  <2> QED  BY <1>1, <2>2 DEF CheckReads, TypeOK
<1>2. CASE CheckWrites
  <2>1. check \in [target : Time, wall : Int, corrected : BOOLEAN]
    BY <1>2 DEF CheckWrites, TypeOK
  <2>2. check.target \in Time /\ check.wall \in Int /\ check.corrected \in BOOLEAN
    BY <2>1
  <2>3. wall' \in Int /\ corrected' \in BOOLEAN /\ unsynced' \in BOOLEAN
    BY <1>2, <2>2 DEF CheckWrites, TypeOK, Time
  <2>4. seen' \in [boot : Nat, wall : Int, real : Nat]
    BY <1>2, <2>2 DEF CheckWrites, TypeOK, Time, Remembered
  <2>5. IsLog(log')
    <3>1. Log(check.target) \/ log' = log
      BY <1>2 DEF CheckWrites
    <3> QED  BY <2>2, <3>1, LogTyped DEF TypeOK
  <2> QED  BY <1>2, <2>3, <2>4, <2>5 DEF CheckWrites, TypeOK
<1>3. CASE Admin
  <2>1. ASSUME NEW t \in {real + d : d \in Typos \cup {0}}, AdminSets(t) PROVE TypeOK'
    <3>1. t \in Int
      BY ConstantAssumption DEF TypeOK
    <3>2. jumps' \in Nat /\ events' \in Nat
      BY <2>1, SetBackTyped, HappensTyped DEF AdminSets
    <3>3. ahead' \in BOOLEAN
      <4>1. PICK b \in BOOLEAN : b = (ahead \/ t > real)
        OBVIOUS
      <4> QED  BY <2>1, <4>1 DEF AdminSets
    <3> QED  BY <2>1, <3>1, <3>2, <3>3 DEF AdminSets, TypeOK
  <2>2. CASE AdminAgrees
    <3>1. events' \in Nat
      BY <2>2, HappensTyped DEF AdminAgrees
    <3>2. seen' \in [boot : Nat, wall : Int, real : Nat]
      BY <2>2 DEF AdminAgrees, TypeOK, Remembered
    <3>3. wall \in Time /\ Log(wall)
      BY <2>2 DEF AdminAgrees, TypeOK, Time
    <3>4. IsLog(log')
      BY <3>3, LogTyped
    <3> QED  BY <2>2, <3>1, <3>2, <3>4 DEF AdminAgrees, TypeOK
  <2> QED  BY <1>3, <2>1, <2>2 DEF Admin
<1>4. CASE AdminConfirms
  <2>1. seen' \in [boot : Nat, wall : Int, real : Nat]
    BY <1>4 DEF AdminConfirms, TypeOK, Remembered
  <2> QED  BY <1>4, <2>1 DEF AdminConfirms, TypeOK
<1>5. CASE AdminLogs
  <2>1. IsLog(log')
    BY <1>5, AppendedIs DEF AdminLogs, TypeOK
  <2> QED  BY <1>5, <2>1 DEF AdminLogs, TypeOK
<1>6. CASE RtcSync
  <2>1. rtc' \in {"runs", "reset", "stopped", "dead"} /\ rtcOff' \in Int
    BY <1>6 DEF RtcSync, SyncReadable, SyncStopped, SyncAway, SysToHc, TypeOK
  <2>2. PICK state \in {"ok", "lost", "unreadable"} : Report(state)
    BY <1>6 DEF RtcSync, SyncReadable, SyncStopped, SyncAway
  <2>3. status' \in [state : {"unknown", "ok", "lost", "unreadable"}, checked : Int,
                     lostBoot : Nat \cup {NONE}, ntp : BOOLEAN]
    BY <2>2 DEF Report, TypeOK
  <2>4. hostEvents' \in Time
    BY <2>2, WaitingIs DEF Report, TypeOK
  <2> QED  BY <1>6, <2>1, <2>3, <2>4 DEF RtcSync, TypeOK
<1>7. CASE Entries
  <2>1. wall \in Time
    BY DEF TypeOK, Time
  <2>2. CASE Booking
    <3>1. events' \in Nat /\ IsLog(log')
      BY <2>1, <2>2, HappensTyped, LogTyped DEF Booking
    <3> QED  BY <2>2, <3>1 DEF Booking, TypeOK
  <2>3. CASE HostEvent
    <3>1. events' \in Nat /\ hostEvents' \in Time
      BY <2>3, HappensTyped, WaitingIs DEF HostEvent
    <3> QED  BY <2>3, <3>1 DEF HostEvent, TypeOK
  <2> QED  BY <1>7, <2>2, <2>3 DEF Entries
<1>8. CASE IngestHostEvents
  <2>1. IsLog(log')
    BY <1>8, LoggedIs DEF IngestHostEvents, TypeOK
  <2> QED  BY <1>8, <2>1 DEF IngestHostEvents, TypeOK, Time
<1>9. CASE Prune
  <2>1. IsLog(log')
    BY <1>9, LogTyped DEF Prune
  <2> QED  BY <1>9, <2>1 DEF Prune, TypeOK
<1>10. CASE Tick
  BY <1>10 DEF Tick, TypeOK
<1>11. CASE Jump
  <2>1. jumps' \in Nat /\ events' \in Nat /\ wall' \in Int
    BY <1>11, SetBackTyped, HappensTyped DEF Jump, Earlier
  <2> QED  BY <1>11, <2>1 DEF Jump, TypeOK
<1>12. CASE Reboot
  <2>1. jumps' \in Nat /\ events' \in Nat /\ wall' \in Int
    BY <1>12, SetBackTyped, HappensTyped DEF Reboot, Earlier, RtcTime, TypeOK
  <2> QED  BY <1>12, <2>1 DEF Reboot, TypeOK
<1>13. CASE RtcChanges
  <2>1. events' \in Nat
    BY <1>13, HappensTyped DEF RtcChanges
  <2> QED  BY <1>13, <2>1 DEF RtcChanges, TypeOK
<1>14. CASE NtpComes
  <2>1. jumps' \in Nat /\ events' \in Nat
    BY <1>14, SetBackTyped, HappensTyped DEF NtpComes
  <2> QED  BY <1>14, <2>1 DEF NtpComes, TypeOK
<1>15. CASE NtpGoes
  <2>1. ntp' \in BOOLEAN
    BY <1>15 DEF NtpGoes
  <2> QED  BY <1>15, <2>1 DEF NtpGoes, TypeOK
<1>16. CASE UNCHANGED vars
  BY <1>16 DEF vars, TypeOK
<1> QED
  BY <1>1, <1>2, <1>3, <1>4, <1>5, <1>6, <1>7, <1>8, <1>9, <1>10, <1>11, <1>12, <1>13, <1>14, <1>15, <1>16
     DEF Next, Check, Request, World

\* The clocks, the RTC and its status, what the check reads and writes, and the log keep their types,
\* whatever prune() leaves of the log (dashboard/audit.py).
THEOREM Typed == Spec => []TypeOK
<1> QED  BY TypeInit, TypeNext, PTL DEF Spec

-----------------------------------------------------------------------------
(* How far ahead the clock may be.                                         *)

\* what the clock may have gained by being put AHEAD_OF_ENTRY after its log
Lead == AHEAD * jumps

\* The time of an entry has passed, unless the clock was put back since: then it is one AHEAD_OF_ENTRY
\* below what the clock may reach, which is what the check adds to it.
Dated(e) == e = NONE \/ e <= wall \/ (jumps >= 1 /\ e + AHEAD <= real + Lead)

WallOK == wall <= real + Lead /\ rtcOff <= Lead
LogOK  == (\A e \in Dates(log) : Dated(e)) /\ Dated(hostEvents)
SeenOK == seen # NONE => seen.wall - seen.real <= Lead /\ (jumps = 0 => Expected <= wall)
\* what a check has read and not yet written
CheckOK ==
  check # NONE =>
    /\ check.wall <= real + Lead /\ (jumps = 0 => check.wall <= wall)
    /\ check.target # NONE => check.target <= real + Lead /\ jumps >= 1 /\ (wall <= check.target \/ wall <= real)

ClockInv == ~ahead => WallOK /\ LogOK /\ SeenOK /\ CheckOK

LEMMA LeadIs ==
  ASSUME TypeOK
  PROVE  /\ Lead \in Nat /\ (jumps = 0 => Lead = 0) /\ (jumps >= 1 => Lead >= AHEAD)
         /\ AHEAD \in Nat /\ AHEAD >= 1
<1>1. AHEAD \in Nat /\ AHEAD >= 1 /\ jumps \in Nat
  BY ConstantAssumption DEF TypeOK
<1>2. \A k \in Nat : AHEAD * k \in Nat
  BY <1>1
<1>3. CASE jumps = 0
  BY <1>1, <1>3 DEF Lead
<1>4. CASE jumps >= 1
  <2>1. PICK k \in Nat : jumps = k + 1
    <3>1. jumps - 1 \in Nat /\ jumps = (jumps - 1) + 1
      BY <1>1, <1>4
    <3> QED  BY <3>1
  <2>2. AHEAD * k \in Nat /\ AHEAD * (k + 1) = AHEAD * k + AHEAD
    BY <1>1, <1>2
  <2>3. Lead = AHEAD * k + AHEAD
    BY <2>1, <2>2 DEF Lead
  <2>4. Lead \in Nat /\ Lead >= AHEAD
    BY <1>1, <2>2, <2>3
  <2> QED  BY <1>1, <1>4, <2>4
<1> QED  BY <1>1, <1>3, <1>4

LEMMA LeadGrows ==
  ASSUME TypeOK
  PROVE  (jumps' = jumps => Lead' = Lead) /\ (jumps' = jumps + 1 => Lead' = Lead + AHEAD)
<1>1. AHEAD \in Nat /\ jumps \in Nat
  BY ConstantAssumption DEF TypeOK
<1>2. AHEAD * (jumps + 1) = AHEAD * jumps + AHEAD
  BY <1>1
<1> QED  BY <1>2 DEF Lead

\* Dated as a step changes it, for a time that does not change.
DatedNext(e) == e = NONE \/ e <= wall' \/ (jumps' >= 1 /\ e + AHEAD <= real' + Lead')

LEMMA LogNext ==
  ASSUME \A e \in Dates(log') : DatedNext(e), DatedNext(hostEvents')
  PROVE  LogOK'
BY DEF LogOK, DatedNext, Dated

\* The time does not go back, or it is counted: what was dated stays so.
LEMMA DatedStays ==
  ASSUME TypeOK, ClockInv, ~ahead, TypeOK', real' >= real,
         (jumps' = jumps /\ wall' >= wall) \/ jumps' = jumps + 1
  PROVE  /\ \A e \in Time : Dated(e) => DatedNext(e)
         /\ \A e \in Dates(log) : DatedNext(e)
         /\ DatedNext(hostEvents)
         /\ DatedNext(NONE)
<1>1. /\ real \in Nat /\ real' \in Nat /\ wall \in Int /\ wall' \in Int /\ jumps \in Nat
      /\ hostEvents \in Time /\ IsLog(log)
  BY DEF TypeOK
<1>2. WallOK /\ LogOK
  BY DEF ClockInv
<1>3. /\ Lead \in Nat /\ AHEAD \in Nat
      /\ jumps' = jumps => Lead' = Lead
      /\ jumps' = jumps + 1 => Lead' = Lead + AHEAD
  BY LeadIs, LeadGrows
<1>4. PICK R \in Nat, W \in Int, L \in Nat : R = real' /\ W = wall' /\ L = Lead'
  <2>1. Lead' \in Nat
    BY <1>3
  <2> QED  BY <1>1, <2>1
<1>5. /\ real <= R /\ (jumps' = jumps => L = Lead) /\ (jumps' = jumps + 1 => L = Lead + AHEAD)
      /\ (jumps' = jumps /\ wall <= W) \/ jumps' = jumps + 1
  BY <1>1, <1>3, <1>4
<1>6. ASSUME NEW e \in Time, Dated(e) PROVE DatedNext(e)
  <2>1. CASE e = NONE
    BY <2>1 DEF DatedNext
  <2>2. CASE e \in Int
    <3>1. wall <= real + Lead
      BY <1>2 DEF WallOK
    <3>2. e <= wall \/ (jumps >= 1 /\ e + AHEAD <= real + Lead)
      BY <1>6, <2>2, NoneAssumption DEF Dated
    <3>3. e <= W \/ (jumps' >= 1 /\ e + AHEAD <= R + L)
      <4>1. CASE jumps' = jumps /\ wall <= W
        BY <1>1, <1>3, <1>5, <2>2, <3>2, <4>1
      <4>2. CASE jumps' = jumps + 1
        BY <1>1, <1>3, <1>5, <2>2, <3>1, <3>2, <4>2
      <4> QED  BY <1>5, <4>1, <4>2
    <3> QED  BY <1>4, <3>3 DEF DatedNext
  <2> QED  BY <2>1, <2>2 DEF Time
<1>7. Dates(log) \subseteq Time
  BY <1>1, LogIs
<1> QED  BY <1>1, <1>2, <1>6, <1>7 DEF LogOK, DatedNext

\* An entry of the time it is, or of a waiting host event, is a dated one.
LEMMA LoggedDated ==
  ASSUME NEW l, IsLog(l), \A e \in Dates(l) : DatedNext(e), NEW at \in Time, DatedNext(at)
  PROVE  \A e \in Dates(Logged(l, {at})) : DatedNext(e)
BY LoggedIs

\* A clock that is set and nothing else: by itself, at boot, by NTP, or right, by an admin.
LEMMA SetClock ==
  ASSUME TypeOK, ClockInv, ~ahead, TypeOK', CountsBack, real' = real, wall' <= real + Lead,
         UNCHANGED <<rtcOff, log, hostEvents, seen>>,
         check' = NONE \/ (check' = check /\ (wall' <= wall \/ wall' <= real))
  PROVE  WallOK' /\ LogOK' /\ SeenOK' /\ CheckOK'
<1>1. /\ real \in Nat /\ wall \in Int /\ wall' \in Int /\ jumps \in Nat /\ rtcOff \in Int
  BY DEF TypeOK
<1>2. WallOK /\ SeenOK /\ CheckOK
  BY DEF ClockInv
<1>3. /\ Lead \in Nat /\ AHEAD \in Nat
      /\ jumps' = jumps => Lead' = Lead
      /\ jumps' = jumps + 1 => Lead' = Lead + AHEAD
  BY LeadIs, LeadGrows
<1>4. (jumps' = jumps /\ wall' >= wall) \/ jumps' = jumps + 1
  BY <1>1 DEF CountsBack
<1>5. LogOK'
  <2>1. (\A e \in Dates(log) : DatedNext(e)) /\ DatedNext(hostEvents)
    BY <1>1, <1>4, DatedStays
  <2>2. (\A e \in Dates(log') : DatedNext(e)) /\ DatedNext(hostEvents')
    BY <2>1
  <2> QED  BY <2>2, LogNext
<1>6. PICK L \in Nat, W \in Int : L = Lead' /\ W = wall' /\ Lead <= L
  <2>1. Lead' \in Nat /\ Lead <= Lead'
    BY <1>3, <1>4
  <2> QED  BY <1>1, <2>1
<1>7. WallOK'
  <2>1. wall <= real + Lead /\ rtcOff <= Lead /\ W <= real + Lead
    BY <1>2, <1>6 DEF WallOK
  <2>2. Lead \in Nat /\ Lead <= L /\ real \in Nat /\ rtcOff \in Int
    BY <1>1, <1>3, <1>6
  <2>3. W <= real + L /\ rtcOff <= L
    BY <2>1, <2>2
  <2> QED  BY <1>6, <2>3 DEF WallOK
<1>8. jumps' = 0 => jumps = 0 /\ wall <= W
  BY <1>1, <1>4, <1>6
<1>9. SeenOK'
  <2> SUFFICES ASSUME seen # NONE PROVE seen.wall - seen.real <= L /\ (jumps' = 0 => Expected' <= W)
    BY <1>6 DEF SeenOK
  <2>1. seen.wall \in Int /\ seen.real \in Nat
    BY DEF TypeOK
  <2>2. seen.wall - seen.real <= Lead /\ (jumps = 0 => Expected <= wall)
    BY <1>2 DEF SeenOK
  <2>3. Expected' = Expected /\ Expected \in Int
    BY <1>1, <2>1 DEF Expected
  <2>4. seen.wall - seen.real <= L
    BY <1>3, <1>6, <2>1, <2>2
  <2>5. jumps' = 0 => Expected <= W
    BY <1>1, <1>6, <1>8, <2>2, <2>3
  <2> QED  BY <2>3, <2>4, <2>5
<1>10. CheckOK'
  <2>1. CASE check' = NONE
    BY <2>1 DEF CheckOK
  <2>2. CASE check' = check /\ check # NONE /\ (wall' <= wall \/ wall' <= real)
    <3>1. check.wall \in Int /\ check.target \in Time
      BY <2>2 DEF TypeOK
    <3>2. check.wall <= real + Lead /\ (jumps = 0 => check.wall <= wall)
      BY <1>2, <2>2 DEF CheckOK
    <3>3. check.wall <= real + L /\ (jumps' = 0 => check.wall <= W)
      BY <1>1, <1>3, <1>6, <1>8, <3>1, <3>2
    <3>4. ASSUME check.target # NONE
          PROVE  check.target <= real + L /\ jumps' >= 1 /\ (W <= check.target \/ W <= real)
      <4>1. check.target \in Int
        BY <3>1, <3>4 DEF Time
      <4>2. check.target <= real + Lead /\ jumps >= 1 /\ (wall <= check.target \/ wall <= real)
        BY <1>2, <2>2, <3>4 DEF CheckOK
      <4>3. W <= wall \/ W <= real
        BY <1>6, <2>2
      <4>4. jumps' >= 1
        BY <1>1, <1>4, <4>2
      <4> QED  BY <1>1, <1>3, <1>6, <4>1, <4>2, <4>3, <4>4
    <3> QED  BY <1>6, <2>2, <3>3, <3>4 DEF CheckOK
  <2> QED  BY <2>1, <2>2 DEF CheckOK
<1> QED  BY <1>5, <1>7, <1>9, <1>10

\* A step that leaves the clock alone.
LEMMA ClockAlone ==
  ASSUME TypeOK, ClockInv, ~ahead, TypeOK', real' = real, wall' = wall, jumps' = jumps
  PROVE  /\ rtcOff' = rtcOff => WallOK'
         /\ seen' = seen \/ seen' = Remembered(wall) => SeenOK'
         /\ check' = check => CheckOK'
         /\ log' = log /\ hostEvents' \in {hostEvents, NONE} => LogOK'
<1>1. real \in Nat /\ wall \in Int /\ Lead' = Lead /\ Lead \in Nat
  BY LeadIs, LeadGrows DEF TypeOK
<1>2. WallOK /\ SeenOK /\ CheckOK
  BY DEF ClockInv
<1>3. rtcOff' = rtcOff => WallOK'
  BY <1>1, <1>2 DEF WallOK
<1>4. ASSUME seen' = seen PROVE SeenOK'
  <2>1. seen' # NONE => seen.wall - seen.real <= Lead /\ (jumps = 0 => Expected <= wall)
    BY <1>2, <1>4 DEF SeenOK
  <2>2. Expected' = Expected
    BY <1>4 DEF Expected
  <2> QED  BY <1>1, <1>4, <2>1, <2>2 DEF SeenOK
<1>5. ASSUME seen' = Remembered(wall) PROVE SeenOK'
  <2>1. seen'.wall = wall /\ seen'.real = real
    BY <1>5 DEF Remembered
  <2>2. wall - real <= Lead /\ wall + (real - real) <= wall
    BY <1>1, <1>2 DEF WallOK
  <2>3. seen'.wall - seen'.real <= Lead' /\ Expected' <= wall'
    BY <1>1, <2>1, <2>2 DEF Expected
  <2> QED  BY <2>3 DEF SeenOK
<1>6. check' = check => CheckOK'
  BY <1>1, <1>2 DEF CheckOK
<1>7. ASSUME log' = log, hostEvents' \in {hostEvents, NONE} PROVE LogOK'
  <2>0. real' >= real /\ wall' >= wall
    BY <1>1
  <2>1. (\A e \in Dates(log) : DatedNext(e)) /\ DatedNext(hostEvents) /\ DatedNext(NONE)
    BY <2>0, DatedStays
  <2>2. (\A e \in Dates(log') : DatedNext(e)) /\ DatedNext(hostEvents')
    BY <1>7, <2>1
  <2> QED  BY <2>2, LogNext
<1> QED  BY <1>3, <1>4, <1>5, <1>6, <1>7

\* An entry of the time it is, of a waiting host event, or of a setting, and what prune() leaves.
LEMMA EntryDated ==
  ASSUME TypeOK, ClockInv, ~ahead, TypeOK', real' = real, wall' = wall, jumps' = jumps,
         hostEvents' \in {hostEvents, wall, NONE},
         \/ log' = log
         \/ Log(wall)
         \/ log' = Logged(log, {hostEvents})
         \/ log' = Append(log, [set |-> wall, newest |-> NONE])
         \/ log' = Logged(Pruned, {wall})
  PROVE  LogOK'
<1>1. /\ real \in Nat /\ wall \in Int /\ wall \in Time /\ hostEvents \in Time /\ IsLog(log)
      /\ real' >= real /\ wall' >= wall
  BY DEF TypeOK, Time
<1>2. (\A e \in Dates(log) : DatedNext(e)) /\ DatedNext(hostEvents) /\ DatedNext(NONE)
  BY <1>1, DatedStays
<1>3. DatedNext(wall)
  BY <1>1 DEF DatedNext
<1>4. CASE log' = log
  BY <1>2, <1>3, <1>4, LogNext
<1>5. CASE Log(wall)
  <2>1. log' = Logged(log, {wall})
    BY <1>5 DEF Log
  <2>2. \A e \in Dates(Logged(log, {wall})) : DatedNext(e)
    BY <1>1, <1>2, <1>3, LoggedDated
  <2> QED  BY <1>2, <1>3, <2>1, <2>2, LogNext
<1>6. CASE log' = Logged(log, {hostEvents})
  <2>1. \A e \in Dates(Logged(log, {hostEvents})) : DatedNext(e)
    BY <1>1, <1>2, LoggedDated
  <2> QED  BY <1>2, <1>3, <1>6, <2>1, LogNext
<1>7. CASE log' = Append(log, [set |-> wall, newest |-> NONE])
  <2>1. Dates(Append(log, [set |-> wall, newest |-> NONE])) \subseteq Dates(log) \cup {NONE}
    BY <1>1, AppendedIs
  <2> QED  BY <1>2, <1>3, <1>7, <2>1, LogNext
<1>8. CASE log' = Logged(Pruned, {wall})
  <2>1. IsLog(Pruned) /\ Dates(Pruned) \subseteq Dates(log) \cup {NONE}
    BY <1>1, PrunedIs
  <2>2. \A e \in Dates(Pruned) : DatedNext(e)
    BY <1>2, <2>1
  <2>3. \A e \in Dates(Logged(Pruned, {wall})) : DatedNext(e)
    BY <1>1, <1>3, <2>1, <2>2, LoggedDated
  <2> QED  BY <1>2, <1>3, <1>8, <2>3, LogNext
<1> QED  BY <1>4, <1>5, <1>6, <1>7, <1>8

\* What a check decides: no more than the clock may reach, and it only moves it when it went back.
LEMMA TargetOK ==
  ASSUME TypeOK, ClockInv, ~ahead, Target # NONE
  PROVE  Target <= real + Lead /\ jumps >= 1 /\ wall <= Target
<1>1. /\ real \in Nat /\ wall \in Int /\ jumps \in Nat /\ Lead \in Nat /\ AHEAD \in Nat
      /\ BEHIND \in Nat /\ JUMP \in Nat
  BY LeadIs, ConstantAssumption DEF TypeOK
<1>2. LogOK /\ SeenOK
  BY DEF ClockInv
<1>3. CASE BehindLog
  <2>1. Newest \in Int /\ wall < Newest - BEHIND
    BY <1>3, TargetTyped DEF BehindLog, Time
  <2>2. Newest \in Dates(log)
    BY LogIs DEF Newest, TypeOK
  <2>3. Newest <= wall \/ (jumps >= 1 /\ Newest + AHEAD <= real + Lead)
    BY <1>2, <2>1, <2>2, NoneAssumption DEF LogOK, Dated
  <2>4. Target = Newest + AHEAD
    BY <1>3 DEF Target
  <2> QED  BY <1>1, <2>1, <2>3, <2>4
<1>4. CASE ~BehindLog
  <2>1. WentBack /\ Target = Expected
    BY <1>4 DEF Target
  <2>2. seen # NONE /\ wall < Expected - JUMP /\ Expected \in Int
    BY <2>1, TargetTyped DEF WentBack
  <2>3. seen.wall \in Int /\ seen.real \in Nat
    BY <2>2 DEF TypeOK
  <2>4. seen.wall - seen.real <= Lead /\ (jumps = 0 => Expected <= wall)
    BY <1>2, <2>2 DEF SeenOK
  <2>5. Expected <= real + Lead
    BY <1>1, <2>3, <2>4 DEF Expected
  <2>6. jumps >= 1 /\ wall <= Expected
    BY <1>1, <2>2, <2>4
  <2> QED  BY <2>1, <2>5, <2>6
<1> QED  BY <1>3, <1>4

LEMMA ClockInit == Init => ClockInv
<1> SUFFICES ASSUME Init PROVE WallOK /\ LogOK /\ SeenOK /\ CheckOK
  BY DEF ClockInv
<1>1. /\ real = Start /\ wall = Start /\ rtcOff = 0 /\ jumps = 0 /\ Start \in Nat
      /\ seen = NONE /\ check = NONE /\ hostEvents = NONE
  BY ConstantAssumption DEF Init
<1>2. Lead = 0
  BY <1>1, LeadIs, TypeInit
<1>3. WallOK
  BY <1>1, <1>2 DEF WallOK
<1>4. Dates(log) = {NONE}
  <2>1. log = [i \in 1..1 |-> [set |-> NONE, newest |-> NONE]] /\ DOMAIN log = 1..1
    BY DEF Init
  <2>2. \A i \in DOMAIN log : log[i].newest = NONE
    BY <2>1
  <2>3. 1 \in DOMAIN log
    BY <2>1
  <2> QED  BY <2>2, <2>3 DEF Dates
<1>5. LogOK
  BY <1>1, <1>4 DEF LogOK, Dated
<1> QED  BY <1>1, <1>3, <1>5 DEF SeenOK, CheckOK

LEMMA ClockNext == TypeOK /\ TypeOK' /\ ClockInv /\ [Next]_vars => ClockInv'
<1> SUFFICES ASSUME TypeOK, TypeOK', ClockInv, [Next]_vars, ~ahead' PROVE WallOK' /\ LogOK' /\ SeenOK' /\ CheckOK'
  BY DEF ClockInv
<1> USE DEF clocks, rtcVars, clockJson, audit, history
<1>0. ~ahead
  <2>1. CASE Admin
    BY <2>1 DEF Admin, AdminSets, AdminAgrees
  <2>2. CASE ~Admin
    BY <2>2 DEF Next, vars, Check, CheckReads, CheckWrites, Request, AdminConfirms, AdminLogs, RtcSync, Entries, Booking,
                HostEvent, IngestHostEvents, Prune, World, Tick, Jump, Reboot, RtcChanges, NtpComes, NtpGoes
  <2> QED  BY <2>1, <2>2
<1>T. /\ real \in Nat /\ wall \in Int /\ jumps \in Nat /\ Lead \in Nat /\ AHEAD \in Nat /\ AHEAD >= 1
      /\ hostEvents \in Time /\ IsLog(log) /\ rtcOff \in Int /\ (jumps >= 1 => Lead >= AHEAD)
  BY LeadIs DEF TypeOK
<1>I. WallOK /\ LogOK /\ SeenOK /\ CheckOK
  BY <1>0 DEF ClockInv
<1>1. CASE CheckReads
  <2>1. real' = real /\ wall' = wall /\ jumps' = jumps /\ rtcOff' = rtcOff /\ seen' = seen
        /\ log' = log /\ hostEvents' = hostEvents
    BY <1>1 DEF CheckReads
  <2>2. WallOK' /\ LogOK' /\ SeenOK'
    BY <1>0, <2>1, ClockAlone
  <2>3. Lead' = Lead
    BY <2>1, LeadGrows
  <2>4. check'.wall = wall /\ check'.target = IF status.ntp THEN NONE ELSE Target
    BY <1>1 DEF CheckReads
  <2>5. check'.target # NONE => check'.target <= real + Lead /\ jumps >= 1 /\ wall <= check'.target
    <3>1. Target # NONE => Target <= real + Lead /\ jumps >= 1 /\ wall <= Target
      BY <1>0, TargetOK
    <3> QED  BY <2>4, <3>1
  <2>6. check'.wall <= real + Lead /\ check'.wall <= wall
    BY <1>T, <1>I, <2>4 DEF WallOK
  <2>7. CheckOK'
    BY <2>1, <2>3, <2>5, <2>6 DEF CheckOK
  <2> QED  BY <2>2, <2>7
<1>2. CASE CheckWrites
  <2>1. /\ check # NONE /\ check' = NONE /\ real' = real /\ jumps' = jumps /\ rtcOff' = rtcOff
        /\ hostEvents' = hostEvents
    BY <1>2 DEF CheckWrites
  <2>2. CheckOK' /\ Lead' = Lead
    BY <2>1, LeadGrows DEF CheckOK
  <2>3. check.wall \in Int /\ check.target \in Time
    BY <2>1 DEF TypeOK
  <2>4. check.wall <= real + Lead /\ (jumps = 0 => check.wall <= wall)
    BY <1>I, <2>1 DEF CheckOK
  <2>5. CASE check.target # NONE
    <3>1. PICK t \in Int : t = check.target
      BY <2>3, <2>5 DEF Time
    <3>2. wall' = t /\ Log(t) /\ seen' = Remembered(t)
      BY <1>2, <2>5, <3>1 DEF CheckWrites
    <3>3. t <= real + Lead /\ jumps >= 1 /\ (wall <= t \/ wall <= real)
      BY <1>I, <2>1, <2>5, <3>1 DEF CheckOK
    <3>4. WallOK'
      BY <1>I, <2>1, <2>2, <3>2, <3>3 DEF WallOK
    <3>5. SeenOK'
      <4>1. seen'.wall = t /\ seen'.real = real
        BY <3>2 DEF Remembered
      <4>2. t - real <= Lead /\ t + (real - real) <= t
        BY <1>T, <3>3
      <4>3. seen'.wall - seen'.real <= Lead' /\ Expected' <= wall'
        BY <2>1, <2>2, <3>2, <4>1, <4>2 DEF Expected
      <4> QED  BY <4>3 DEF SeenOK
    <3>6. ASSUME NEW e \in Time, Dated(e) PROVE DatedNext(e)
      <4>1. CASE e = NONE
        BY <4>1 DEF DatedNext
      <4>2. CASE e \in Int
        <5>1. e <= wall \/ e + AHEAD <= real + Lead
          BY <3>6, <4>2, NoneAssumption DEF Dated
        <5>2. e <= t \/ e + AHEAD <= real + Lead
          BY <1>T, <3>1, <3>3, <4>2, <5>1
        <5> QED  BY <2>1, <2>2, <3>2, <3>3, <5>2 DEF DatedNext
      <4> QED  BY <4>1, <4>2 DEF Time
    <3>7. Dates(log) \subseteq Time
      BY <1>T, LogIs
    <3>8. (\A e \in Dates(log) : DatedNext(e)) /\ DatedNext(hostEvents)
      BY <1>T, <1>I, <3>6, <3>7 DEF LogOK
    <3>9. t \in Time /\ DatedNext(t)
      BY <3>1, <3>2 DEF Time, DatedNext
    <3>10. \A e \in Dates(Logged(log, {t})) : DatedNext(e)
      BY <1>T, <3>8, <3>9, LoggedDated
    <3>11. log' = Logged(log, {t})
      BY <3>2 DEF Log
    <3>12. LogOK'
      BY <2>1, <3>8, <3>10, <3>11, LogNext
    <3> QED  BY <2>2, <3>4, <3>5, <3>12
  <2>6. CASE check.target = NONE
    <3>1. wall' = wall /\ log' = log /\ seen' = Remembered(check.wall)
      BY <1>2, <2>6 DEF CheckWrites
    <3>2. WallOK' /\ LogOK'
      BY <1>0, <2>1, <3>1, ClockAlone
    <3>3. seen'.wall = check.wall /\ seen'.real = real
      BY <3>1 DEF Remembered
    <3>4. check.wall - real <= Lead /\ check.wall + (real - real) = check.wall
      BY <1>T, <2>3, <2>4
    <3>5. seen'.wall - seen'.real <= Lead' /\ (jumps' = 0 => Expected' <= wall')
      BY <2>1, <2>2, <2>4, <3>1, <3>3, <3>4 DEF Expected
    <3>6. SeenOK'
      BY <3>5 DEF SeenOK
    <3> QED  BY <2>2, <3>2, <3>6
  <2> QED  BY <2>5, <2>6
<1>3. CASE Admin
  <2>1. ASSUME NEW t \in {real + d : d \in Typos \cup {0}}, AdminSets(t) PROVE WallOK' /\ LogOK' /\ SeenOK' /\ CheckOK'
    <3>1. PICK d \in Nat : t = real + d
      BY ConstantAssumption
    <3>2. ahead' = (ahead \/ t > real) /\ wall' = t /\ CountsBack /\ real' = real
          /\ rtcOff' = rtcOff /\ log' = log /\ hostEvents' = hostEvents /\ seen' = seen /\ check' = check
      BY <2>1 DEF AdminSets
    <3>3. ~(t > real)
      BY <3>2
    <3>4. wall' = real
      BY <1>T, <3>1, <3>2, <3>3
    <3>5. wall' <= real + Lead /\ wall' <= real
      BY <1>T, <3>4
    <3> QED  BY <1>0, <3>2, <3>5, SetClock
  <2>2. CASE AdminAgrees
    <3>1. real' = real /\ wall' = wall /\ jumps' = jumps /\ rtcOff' = rtcOff /\ hostEvents' = hostEvents
          /\ check' = check /\ seen' = Remembered(wall) /\ Log(wall)
      BY <2>2 DEF AdminAgrees
    <3>2. WallOK' /\ SeenOK' /\ CheckOK'
      BY <1>0, <3>1, ClockAlone
    <3>3. LogOK'
      BY <1>0, <3>1, EntryDated
    <3> QED  BY <3>2, <3>3
  <2> QED  BY <1>3, <2>1, <2>2 DEF Admin
<1>4. CASE AdminConfirms
  <2>1. real' = real /\ wall' = wall /\ jumps' = jumps /\ rtcOff' = rtcOff /\ hostEvents' = hostEvents
        /\ check' = check /\ seen' = Remembered(wall) /\ log' = log
    BY <1>4 DEF AdminConfirms
  <2> QED  BY <1>0, <2>1, ClockAlone
<1>5. CASE AdminLogs
  <2>1. real' = real /\ wall' = wall /\ jumps' = jumps /\ rtcOff' = rtcOff /\ hostEvents' = hostEvents
        /\ check' = check /\ seen' = seen /\ log' = Append(log, [set |-> wall, newest |-> NONE])
    BY <1>5 DEF AdminLogs
  <2>2. WallOK' /\ SeenOK' /\ CheckOK'
    BY <1>0, <2>1, ClockAlone
  <2>3. LogOK'
    BY <1>0, <2>1, EntryDated
  <2> QED  BY <2>2, <2>3
<1>6. CASE RtcSync
  <2>1. real' = real /\ wall' = wall /\ jumps' = jumps /\ log' = log /\ check' = check /\ seen' = seen
    BY <1>6 DEF RtcSync
  <2>2. SeenOK' /\ CheckOK'
    BY <1>0, <2>1, ClockAlone
  <2>3. \E state \in {"ok", "lost", "unreadable"} : Report(state)
    BY <1>6 DEF RtcSync, SyncReadable, SyncStopped, SyncAway
  <2>4. hostEvents' \in {hostEvents, wall}
    BY <2>3, WaitingIs DEF Report
  <2>5. LogOK'
    BY <1>0, <2>1, <2>4, EntryDated
  <2>6. rtcOff' = rtcOff \/ rtcOff' = wall - real
    BY <1>6 DEF RtcSync, SyncReadable, SyncStopped, SyncAway, SysToHc
  <2>7. Lead' = Lead
    BY <2>1, LeadGrows
  <2>8. wall <= real + Lead /\ rtcOff <= Lead /\ wall - real <= Lead
    BY <1>T, <1>I DEF WallOK
  <2>9. WallOK'
    BY <2>1, <2>6, <2>7, <2>8 DEF WallOK
  <2> QED  BY <2>2, <2>5, <2>9
<1>7. CASE Entries
  <2>1. real' = real /\ wall' = wall /\ jumps' = jumps /\ rtcOff' = rtcOff /\ check' = check /\ seen' = seen
    BY <1>7 DEF Entries, Booking, HostEvent
  <2>2. WallOK' /\ SeenOK' /\ CheckOK'
    BY <1>0, <2>1, ClockAlone
  <2>3. hostEvents' \in {hostEvents, wall} /\ (log' = log \/ Log(wall))
    BY <1>7, WaitingIs DEF Entries, Booking, HostEvent
  <2>4. LogOK'
    BY <1>0, <2>1, <2>3, EntryDated
  <2> QED  BY <2>2, <2>4
<1>8. CASE IngestHostEvents
  <2>1. real' = real /\ wall' = wall /\ jumps' = jumps /\ rtcOff' = rtcOff /\ check' = check /\ seen' = seen
        /\ hostEvents' = NONE /\ log' = Logged(log, {hostEvents})
    BY <1>8 DEF IngestHostEvents
  <2>2. WallOK' /\ SeenOK' /\ CheckOK'
    BY <1>0, <2>1, ClockAlone
  <2>3. LogOK'
    BY <1>0, <2>1, EntryDated
  <2> QED  BY <2>2, <2>3
<1>9. CASE Prune
  <2>1. real' = real /\ wall' = wall /\ jumps' = jumps /\ rtcOff' = rtcOff /\ check' = check /\ seen' = seen
        /\ hostEvents' = hostEvents /\ log' = Logged(Pruned, {wall})
    BY <1>9 DEF Prune
  <2>2. WallOK' /\ SeenOK' /\ CheckOK'
    BY <1>0, <2>1, ClockAlone
  <2>3. LogOK'
    BY <1>0, <2>1, EntryDated
  <2> QED  BY <2>2, <2>3
<1>10. CASE Tick
  <2>1. real' = real + 1 /\ wall' = wall + 1 /\ jumps' = jumps /\ rtcOff' = rtcOff /\ check = NONE /\ check' = check
        /\ seen' = seen /\ log' = log /\ hostEvents' = hostEvents
    BY <1>10 DEF Tick
  <2>2. Lead' = Lead /\ CheckOK'
    BY <2>1, LeadGrows DEF CheckOK
  <2>3. WallOK'
    <3>1. wall + 1 <= real + 1 + Lead /\ rtcOff <= Lead
      BY <1>T, <1>I DEF WallOK
    <3> QED  BY <2>1, <2>2, <3>1 DEF WallOK
  <2>4. LogOK'
    <3>1. real + 1 >= real /\ wall + 1 >= wall
      BY <1>T
    <3>2. real' >= real /\ wall' >= wall
      BY <2>1, <3>1
    <3>3. (\A e \in Dates(log) : DatedNext(e)) /\ DatedNext(hostEvents)
      BY <1>0, <2>1, <3>2, DatedStays
    <3> QED  BY <2>1, <3>3, LogNext
  <2>5. SeenOK'
    <3> SUFFICES ASSUME seen # NONE PROVE seen.wall - seen.real <= Lead /\ (jumps = 0 => Expected' <= wall + 1)
      BY <2>1, <2>2 DEF SeenOK
    <3>1. seen.wall \in Int /\ seen.real \in Nat
      BY DEF TypeOK
    <3>2. seen.wall - seen.real <= Lead /\ (jumps = 0 => seen.wall + (real - seen.real) <= wall)
      BY <1>I DEF SeenOK, Expected
    <3>3. PICK r \in Nat : r = real + 1
      BY <1>T
    <3>4. Expected' = seen.wall + (r - seen.real)
      <4>1. real' = r /\ seen' = seen
        BY <2>1, <3>3
      <4> QED  BY <4>1, Zenon DEF Expected
    <3>5. jumps = 0 => seen.wall + (r - seen.real) <= wall + 1
      BY <1>T, <3>1, <3>2, <3>3
    <3> QED  BY <3>2, <3>4, <3>5
  <2> QED  BY <2>2, <2>3, <2>4, <2>5
<1>11. CASE Jump
  <2>1. CountsBack /\ real' = real /\ rtcOff' = rtcOff /\ log' = log /\ hostEvents' = hostEvents
        /\ seen' = seen /\ check' = check /\ wall' = wall - BEHIND - 1
    BY <1>11 DEF Jump, Earlier
  <2>2. BEHIND \in Nat
    BY ConstantAssumption
  <2>3. wall - BEHIND - 1 <= wall /\ wall - BEHIND - 1 <= real + Lead
    BY <1>T, <1>I, <2>2 DEF WallOK
  <2>4. wall' <= wall /\ wall' <= real + Lead
    BY <2>1, <2>3
  <2> QED  BY <1>0, <2>1, <2>4, SetClock
<1>12. CASE Reboot
  <2>1. CountsBack /\ real' = real /\ rtcOff' = rtcOff /\ log' = log /\ hostEvents' = hostEvents
        /\ seen' = seen /\ check' = NONE /\ wall' \in {RtcTime} \cup Earlier \cup {wall}
    BY <1>12 DEF Reboot
  <2>2. BEHIND \in Nat
    BY ConstantAssumption
  <2>3. RtcTime <= real + Lead /\ wall <= real + Lead /\ wall - BEHIND - 1 <= real + Lead
    BY <1>T, <1>I, <2>2 DEF WallOK, RtcTime
  <2>4. wall' <= real + Lead
    BY <2>1, <2>3 DEF Earlier
  <2> QED  BY <1>0, <2>1, <2>4, SetClock
<1>13. CASE RtcChanges
  <2>1. real' = real /\ wall' = wall /\ jumps' = jumps /\ rtcOff' = rtcOff /\ hostEvents' = hostEvents
        /\ check' = check /\ seen' = seen /\ log' = log
    BY <1>13 DEF RtcChanges
  <2> QED  BY <1>0, <2>1, ClockAlone
<1>14. CASE NtpComes
  <2>1. CountsBack /\ real' = real /\ rtcOff' = rtcOff /\ log' = log /\ hostEvents' = hostEvents
        /\ seen' = seen /\ check' = check /\ wall' = real
    BY <1>14 DEF NtpComes
  <2>2. wall' <= real /\ wall' <= real + Lead
    BY <1>T, <2>1
  <2> QED  BY <1>0, <2>1, <2>2, SetClock
<1>15. CASE NtpGoes
  <2>1. real' = real /\ wall' = wall /\ jumps' = jumps /\ rtcOff' = rtcOff /\ hostEvents' = hostEvents
        /\ check' = check /\ seen' = seen /\ log' = log
    BY <1>15 DEF NtpGoes
  <2> QED  BY <1>0, <2>1, ClockAlone
<1>16. CASE UNCHANGED vars
  <2>1. real' = real /\ wall' = wall /\ jumps' = jumps /\ rtcOff' = rtcOff /\ hostEvents' = hostEvents
        /\ check' = check /\ seen' = seen /\ log' = log
    BY <1>16 DEF vars
  <2> QED  BY <1>0, <2>1, ClockAlone
<1> QED
  BY <1>1, <1>2, <1>3, <1>4, <1>5, <1>6, <1>7, <1>8, <1>9, <1>10, <1>11, <1>12, <1>13, <1>14, <1>15, <1>16
     DEF Next, Check, Request, World

\* However the checks, the entries they write themselves, jumps, reboots, the RTC, NTP and an admin who
\* sets it right follow each other: the clock is never ahead of the true time by more than
\* AHEAD_OF_ENTRY for every time it was put back (coffee/clock.py:check()), for every threshold and any
\* number of them.
THEOREM NeverAhead == Spec => []NeverFarAhead
<1>1. ClockInv => NeverFarAhead
  BY DEF ClockInv, WallOK, Lead, NeverFarAhead
<1>2. Init => TypeOK /\ ClockInv
  BY TypeInit, ClockInit
<1>3. TypeOK /\ ClockInv /\ [Next]_vars => TypeOK' /\ ClockInv'
  BY TypeNext, ClockNext
<1> QED  BY <1>1, <1>2, <1>3, PTL DEF Spec

-----------------------------------------------------------------------------
(* The RTC.                                                                *)

\* As long as nothing set the clock since rtc_sync.sh ran, an RTC that runs has its time.
RtcInv ==
  ~unsynced /\ rtc = "runs" => wall - (real + rtcOff) <= THRESHOLD /\ (real + rtcOff) - wall <= THRESHOLD

LEMMA RtcInit == Init => RtcInv
BY ConstantAssumption DEF Init, RtcInv

LEMMA RtcNext == TypeOK /\ TypeOK' /\ RtcInv /\ [Next]_vars => RtcInv'
<1> SUFFICES ASSUME TypeOK, TypeOK', RtcInv, [Next]_vars, ~unsynced', rtc' = "runs"
             PROVE  wall' - (real' + rtcOff') <= THRESHOLD /\ (real' + rtcOff') - wall' <= THRESHOLD
  BY DEF RtcInv
<1> USE DEF clocks, rtcVars, clockJson, audit, history
<1>T. real \in Nat /\ wall \in Int /\ rtcOff \in Int /\ THRESHOLD \in Nat
  BY ConstantAssumption DEF TypeOK
<1>1. CASE RtcSync
  <2>1. real' = real /\ wall' = wall
    BY <1>1 DEF RtcSync
  <2>2. CASE SysToHc
    <3>1. wall - (real + (wall - real)) <= THRESHOLD /\ (real + (wall - real)) - wall <= THRESHOLD
      BY <1>T
    <3> QED  BY <2>1, <2>2, <3>1 DEF SysToHc
  <2>3. CASE ~SysToHc
    <3>1. rtc' = rtc /\ rtcOff' = rtcOff /\ ~Differ
      BY <1>1, <2>3 DEF RtcSync, SyncReadable, SyncStopped, SyncAway
    <3>2. RtcTime = real + rtcOff
      BY <3>1 DEF RtcTime
    <3>3. wall - (real + rtcOff) <= THRESHOLD /\ (real + rtcOff) - wall <= THRESHOLD
      BY <1>T, <3>1, <3>2 DEF Differ
    <3> QED  BY <2>1, <3>1, <3>3
  <2> QED  BY <2>2, <2>3
<1>2. CASE Tick
  <2>1. real' = real + 1 /\ wall' = wall + 1 /\ rtcOff' = rtcOff /\ rtc = "runs" /\ ~unsynced
    BY <1>2 DEF Tick
  <2>2. (wall + 1) - (real + 1 + rtcOff) <= THRESHOLD /\ (real + 1 + rtcOff) - (wall + 1) <= THRESHOLD
    BY <1>T, <2>1 DEF RtcInv
  <2> QED  BY <2>1, <2>2
<1>3. CASE Reboot
  <2>1. real' = real /\ wall' = real + rtcOff /\ rtcOff' = rtcOff
    BY <1>3 DEF Reboot, RtcTime
  <2>2. (real + rtcOff) - (real + rtcOff) <= THRESHOLD
    BY <1>T
  <2> QED  BY <2>1, <2>2
<1>4. CASE ~RtcSync /\ ~Tick /\ ~Reboot
  <2>1. real' = real /\ wall' = wall /\ rtcOff' = rtcOff /\ rtc' = rtc /\ unsynced' = unsynced
    <3>1. CASE UNCHANGED vars
      BY <3>1 DEF vars
    <3>2. CASE Check \/ Admin \/ Request
      BY <3>2 DEF Check, CheckReads, CheckWrites, Admin, AdminSets, AdminAgrees, Request, AdminConfirms, AdminLogs
    <3>3. CASE Entries \/ IngestHostEvents \/ Prune
      BY <3>3 DEF Entries, Booking, HostEvent, IngestHostEvents, Prune
    <3>4. CASE Jump \/ RtcChanges \/ NtpComes \/ NtpGoes
      BY <3>4 DEF Jump, RtcChanges, NtpComes, NtpGoes
    <3> QED  BY <1>4, <3>1, <3>2, <3>3, <3>4 DEF Next, World
  <2>2. wall - (real + rtcOff) <= THRESHOLD /\ (real + rtcOff) - wall <= THRESHOLD
    BY <2>1 DEF RtcInv
  <2> QED  BY <2>1, <2>2
<1> QED  BY <1>1, <1>2, <1>3, <1>4

\* Once rtc_sync.sh has run (install/rtc_sync.sh), and until the clock is set or the RTC changes, a
\* reboot gives the clock back the time it had, within THRESHOLD_SECONDS.
THEOREM SettingSurvives == Spec => SetSurvives
<1> DEFINE Survives ==
      boot' # boot /\ ~unsynced /\ rtc = "runs" => wall' <= wall + THRESHOLD /\ wall <= wall' + THRESHOLD
<1>1. TypeOK /\ RtcInv /\ [Next]_vars => [Survives]_vars
  <2> SUFFICES ASSUME TypeOK, RtcInv, [Next]_vars, boot' # boot, ~unsynced, rtc = "runs"
               PROVE  wall' <= wall + THRESHOLD /\ wall <= wall' + THRESHOLD
    OBVIOUS
  <2> USE DEF clocks, rtcVars, clockJson, audit, history
  <2>1. Reboot
    <3>1. CASE UNCHANGED vars
      BY <3>1 DEF vars
    <3>2. CASE Next /\ ~Reboot
      BY <3>2 DEF Next, Check, CheckReads, CheckWrites, Admin, AdminSets, AdminAgrees, Request, AdminConfirms, AdminLogs,
                  RtcSync, Entries, Booking, HostEvent, IngestHostEvents, Prune, World, Tick, Jump, RtcChanges,
                  NtpComes, NtpGoes
    <3> QED  BY <3>1, <3>2
  <2>2. wall' = real + rtcOff
    BY <2>1 DEF Reboot, RtcTime
  <2>3. real \in Nat /\ wall \in Int /\ rtcOff \in Int /\ THRESHOLD \in Nat
    BY ConstantAssumption DEF TypeOK
  <2>4. real + rtcOff <= wall + THRESHOLD /\ wall <= (real + rtcOff) + THRESHOLD
    BY <2>3 DEF RtcInv
  <2> QED  BY <2>2, <2>4
<1>2. Init => TypeOK /\ RtcInv
  BY TypeInit, RtcInit
<1>3. TypeOK /\ RtcInv /\ [Next]_vars => TypeOK' /\ RtcInv'
  BY TypeNext, RtcNext
<1> QED  BY <1>1, <1>2, <1>3, PTL DEF Spec, SetSurvives

-----------------------------------------------------------------------------
(* The nights.                                                             *)

TypedRule(rule) == rule.all_day \in BOOLEAN /\ rule.off \in Times /\ rule.on \in Times

\* A rule is a day of rest, or two times of the day.
LEMMA RuleTyped ==
  ASSUME NEW schedule \in Schedules, NEW weekday \in Weekdays
  PROVE  TypedRule(Rule(schedule, weekday))
<1>1. 0 \in Times
  BY DayAssumption DEF Times
<1> QED
  BY <1>1 DEF TypedRule, Rule, Schedules

LEMMA YesterdayTyped ==
  ASSUME NEW weekday \in Weekdays
  PROVE  Yesterday(weekday) \in Weekdays
  BY DEF Yesterday, Weekdays

\* The night of the day itself: by its own rule, whatever tomorrow brings.
LEMMA LastsToday ==
  ASSUME NEW rule, NEW next, TypedRule(rule), NEW t \in Times
  PROVE  Lasts(rule, next, t)
           <=> \/ rule.all_day
               \/ ~rule.all_day /\ rule.off < rule.on /\ rule.off <= t /\ t < rule.on
               \/ ~rule.all_day /\ rule.off > rule.on /\ t >= rule.off
<1>1. t < DAY /\ t \in Int /\ DAY \in Int
  BY DayAssumption DEF Times
<1>2. rule.off \in Int /\ rule.on \in Int /\ 0 <= rule.on
  BY DayAssumption DEF TypedRule, Times
<1>3. CASE rule.all_day
  BY <1>1, <1>3 DEF Lasts
<1>4. CASE ~rule.all_day
  BY <1>1, <1>2, <1>4 DEF Lasts
<1> QED
  BY <1>3, <1>4

\* The night of the day before: what is left of it this morning.
LEMMA LastsYesterday ==
  ASSUME NEW rule, NEW next, TypedRule(rule), TypedRule(next), NEW t \in Times
  PROVE  Lasts(rule, next, DAY + t)
           <=> \/ rule.all_day /\ ~next.all_day /\ next.off # next.on /\ t < next.on
               \/ ~rule.all_day /\ rule.off > rule.on /\ t < rule.on
<1>1. t \in Int /\ 0 <= t /\ DAY \in Int
  BY DayAssumption DEF Times
<1>2. /\ rule.off \in Int /\ rule.on \in Int /\ rule.off < DAY /\ rule.on < DAY
      /\ next.on \in Int
  BY DayAssumption DEF TypedRule, Times
<1>3. CASE rule.all_day
  BY <1>1, <1>2, <1>3 DEF Lasts
<1>4. CASE ~rule.all_day
  BY <1>1, <1>2, <1>4 DEF Lasts
<1> QED
  BY <1>3, <1>4

\* One minute of one schedule: the rules as is_night() reads them, and a night as the docstring has it.
LEMMA NightAtMinute ==
  ASSUME NEW schedule \in Schedules, NEW weekday \in Weekdays, NEW t \in Times
  PROVE  IsNight(schedule, weekday, t) <=> InANight(schedule, weekday, t)
<1>1. TypedRule(Rule(schedule, weekday)) /\ TypedRule(Rule(schedule, Yesterday(weekday)))
  BY RuleTyped, YesterdayTyped
<1>2. \A next : Lasts(Rule(schedule, weekday), next, t)
        <=> LET rule == Rule(schedule, weekday)
            IN \/ rule.all_day
               \/ ~rule.all_day /\ rule.off < rule.on /\ rule.off <= t /\ t < rule.on
               \/ ~rule.all_day /\ rule.off > rule.on /\ t >= rule.off
  BY <1>1, LastsToday
<1>3. Lasts(Rule(schedule, Yesterday(weekday)), Rule(schedule, weekday), DAY + t)
        <=> LET rule == Rule(schedule, Yesterday(weekday))
                next == Rule(schedule, weekday)
            IN \/ rule.all_day /\ ~next.all_day /\ next.off # next.on /\ t < next.on
               \/ ~rule.all_day /\ rule.off > rule.on /\ t < rule.on
  BY <1>1, LastsYesterday
<1>4. Rule(schedule, weekday).all_day
        => Rule(schedule, weekday).off = Rule(schedule, weekday).on
  BY DEF Rule
<1> QED
  BY <1>1, <1>2, <1>3, <1>4 DEF IsNight, InANight, TypedRule

\* Whatever integer the clock shows.
LEMMA RightAtAnyTime == wall \in Int => NightAsPlanned
<1> SUFFICES ASSUME wall \in Int, NEW first \in Weekdays
             PROVE  <<Weekday(first), Minute, TRUE>> \in Verdicts
  BY DEF NightAsPlanned
<1>1. Minute \in Times
  BY DayAssumption DEF Minute, Times
<1>2. Weekday(first) \in Weekdays
  <2>1. wall \div DAY \in Int
    BY DayAssumption
  <2> QED
    BY <2>1 DEF Weekday, Weekdays
<1>3. (\A schedule \in Schedules :
         IsNight(schedule, Weekday(first), Minute) <=> InANight(schedule, Weekday(first), Minute)) = TRUE
  BY <1>1, <1>2, NightAtMinute
<1>4. \E weekday \in Weekdays, t \in Times :
        <<Weekday(first), Minute, TRUE>>
          = <<weekday, t, \A schedule \in Schedules : IsNight(schedule, weekday, t) <=> InANight(schedule, weekday, t)>>
  <2> WITNESS Weekday(first) \in Weekdays, Minute \in Times
  <2> QED
    BY <1>3
<1> QED
  BY <1>4 DEF Verdicts

\* Whatever time the clock shows, the kiosk rests exactly in the nights of its schedule, whichever that
\* is and however long a day (dashboard/night.py:24-41).
THEOREM NightRight == Spec => []NightAsPlanned
<1>1. TypeOK => NightAsPlanned
  BY RightAtAnyTime DEF TypeOK
<1> QED  BY <1>1, TypeInit, TypeNext, PTL DEF Spec
=============================================================================
