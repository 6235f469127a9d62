------------------------- MODULE ReaderStatusProofs -------------------------
(***************************************************************************)
(* ReaderStatus, for any number of faults and replugs: type correctness,   *)
(* and that the kiosk shows what the reader is once nothing is under way.  *)
(*                                                                         *)
(* The argument follows a status along its way.  What main() says is what  *)
(* _last_status and _on_connect say (Agreed); with the connection up and   *)
(* nothing to say it is the last word on the wire (Spoken); the retained   *)
(* status is the last word to the listener (Heard); what the listener      *)
(* heard is what it has written or still has to write (Stored).            *)
(***************************************************************************)
EXTENDS ReaderStatus, TLAPS

SaysSo(status) == status \in BOOLEAN /\ (status = TRUE <=> bridge \in {"found", "session"})
Last(s) == s[Len(s)]

Agreed ==
  ~overtaken => /\ SaysSo(lastStatus)
                /\ callback \in {"read", "stored"} => SaysSo(seen)

Spoken ==
  ~overtaken /\ link /\ callback = "idle" /\ bridge \in {"waiting", "session"} =>
    IF outgoing = <<>> THEN SaysSo(retained) ELSE SaysSo(Last(outgoing))

Heard ==
  subscribed => IF inbox = <<>> THEN retained # NONE => known = retained ELSE Last(inbox) = retained

Stored ==
  /\ pending # NONE => pending = known
  /\ pending = NONE /\ ~replaced /\ known # NONE => row = known

RInv == TypeOK /\ Agreed /\ Spoken /\ Heard /\ Stored

LEMMA TailLast ==
  ASSUME NEW s \in Seq(BOOLEAN), s # <<>>
  PROVE  /\ Head(s) \in BOOLEAN /\ Tail(s) \in Seq(BOOLEAN)
         /\ Tail(s) = <<>> => Head(s) = Last(s)
         /\ Tail(s) # <<>> => Last(Tail(s)) = Last(s)
BY DEF Last

LEMMA AppendLast ==
  ASSUME NEW s \in Seq(BOOLEAN), NEW v \in BOOLEAN
  PROVE  Append(s, v) \in Seq(BOOLEAN) /\ Append(s, v) # <<>> /\ Last(Append(s, v)) = v
BY DEF Last

LEMMA Empty == <<>> \in Seq(BOOLEAN) /\ \A v \in BOOLEAN : <<v>> \in Seq(BOOLEAN)
OBVIOUS

LEMMA ReaderInit == Init => RInv
<1> SUFFICES ASSUME Init PROVE RInv
  OBVIOUS
<1>1. <<>> \in Seq(BOOLEAN)
  OBVIOUS
<1>2. TypeOK
  BY <1>1 DEF Init, TypeOK, BridgeTyped, BrokerTyped, ListenerTyped, StatusTyped, RestTyped, Values
<1>3. Agreed /\ Spoken
  BY DEF Init, Agreed, Spoken, SaysSo
<1>4. Heard /\ Stored
  BY DEF Init, Heard, Stored
<1> QED
  BY <1>2, <1>3, <1>4 DEF RInv

LEMMA SetsBooleans ==
  ASSUME NEW from, NEW to, NEW online \in BOOLEAN, Sets(from, to, online)
  PROVE  lastStatus' \in BOOLEAN /\ overtaken' \in BOOLEAN
<1>1. lastStatus' \in BOOLEAN
  BY Zenon DEF Sets
<1>2. overtaken' \in BOOLEAN
  BY SMT DEF Sets
<1> QED
  BY <1>1, <1>2

LEMMA BridgeKeep == ASSUME RInv, Bridge PROVE RInv'
<1> USE NoneAssumption DEF RInv, TypeOK, Values, bridgeVars, brokerVars, listenerVars, database, wires, budget
<1>1. CASE FindReader
  <2>1. TypeOK'
    BY <1>1, Empty DEF FindReader, Sets, BridgeTyped, BrokerTyped, ListenerTyped, StatusTyped,
       RestTyped
  <2>2. Agreed' /\ Spoken'
    BY <1>1, Empty DEF FindReader, Sets, BridgeTyped, BrokerTyped, ListenerTyped, StatusTyped,
       RestTyped, Agreed, Spoken, SaysSo
  <2>3. Heard'
    BY <1>1, Empty DEF FindReader, Sets, BridgeTyped, BrokerTyped, ListenerTyped, StatusTyped,
       RestTyped, Heard
  <2>4. Stored'
    BY <1>1, Empty DEF FindReader, Sets, BridgeTyped, BrokerTyped, ListenerTyped, StatusTyped,
       RestTyped, Stored
  <2> QED
    BY <2>1, <2>2, <2>3, <2>4
<1>2. CASE SayOnline
  <2>1. TypeOK'
    BY <1>2, Empty, AppendLast DEF SayOnline, Publishes, BridgeTyped, BrokerTyped,
       ListenerTyped, StatusTyped, RestTyped
  <2>2. Agreed' /\ Spoken'
    BY <1>2, Empty, AppendLast DEF SayOnline, Publishes, BridgeTyped, BrokerTyped,
       ListenerTyped, StatusTyped, RestTyped, Agreed, Spoken, SaysSo
  <2>3. Heard'
    BY <1>2, Empty, AppendLast DEF SayOnline, Publishes, BridgeTyped, BrokerTyped,
       ListenerTyped, StatusTyped, RestTyped, Heard
  <2>4. Stored'
    BY <1>2, Empty, AppendLast DEF SayOnline, Publishes, BridgeTyped, BrokerTyped,
       ListenerTyped, StatusTyped, RestTyped, Stored
  <2> QED
    BY <2>1, <2>2, <2>3, <2>4
<1>3. CASE LoseReader
  <2>1. TypeOK'
    <3>1. BridgeTyped'
      <4>1. lastStatus' \in BOOLEAN /\ overtaken' \in BOOLEAN
        BY <1>3, SetsBooleans DEF LoseReader
      <4> QED
        BY <1>3, <4>1 DEF LoseReader, Sets, BridgeTyped
    <3>2. BrokerTyped'
      BY <1>3, Empty DEF LoseReader, Sets, BrokerTyped
    <3>3. ListenerTyped'
      BY <1>3, Empty DEF LoseReader, Sets, ListenerTyped
    <3>4. StatusTyped'
      BY <1>3, Empty DEF LoseReader, Sets, StatusTyped
    <3>5. RestTyped'
      BY <1>3, Empty DEF LoseReader, Sets, RestTyped
    <3> QED
      BY <3>1, <3>2, <3>3, <3>4, <3>5
  <2>2. Agreed' /\ Spoken'
    BY <1>3, Empty DEF LoseReader, Sets, BridgeTyped, BrokerTyped, ListenerTyped, StatusTyped,
       RestTyped, Agreed, Spoken, SaysSo
  <2>3. Heard'
    BY <1>3, Empty DEF LoseReader, Sets, BridgeTyped, BrokerTyped, ListenerTyped, StatusTyped,
       RestTyped, Heard
  <2>4. Stored'
    BY <1>3, Empty DEF LoseReader, Sets, BridgeTyped, BrokerTyped, ListenerTyped, StatusTyped,
       RestTyped, Stored
  <2> QED
    BY <2>1, <2>2, <2>3, <2>4
<1>4. CASE SayOffline
  <2>1. TypeOK'
    BY <1>4, Empty, AppendLast DEF SayOffline, Publishes, BridgeTyped, BrokerTyped,
       ListenerTyped, StatusTyped, RestTyped
  <2>2. Agreed' /\ Spoken'
    BY <1>4, Empty, AppendLast DEF SayOffline, Publishes, BridgeTyped, BrokerTyped,
       ListenerTyped, StatusTyped, RestTyped, Agreed, Spoken, SaysSo
  <2>3. Heard'
    BY <1>4, Empty, AppendLast DEF SayOffline, Publishes, BridgeTyped, BrokerTyped,
       ListenerTyped, StatusTyped, RestTyped, Heard
  <2>4. Stored'
    BY <1>4, Empty, AppendLast DEF SayOffline, Publishes, BridgeTyped, BrokerTyped,
       ListenerTyped, StatusTyped, RestTyped, Stored
  <2> QED
    BY <2>1, <2>2, <2>3, <2>4
<1>5. CASE BridgeStarts
  <2>1. TypeOK'
    <3>1. BridgeTyped'
      BY <1>5, Empty DEF BridgeStarts, BridgeStart, BridgeTyped
    <3>2. BrokerTyped'
      BY <1>5, Empty DEF BridgeStarts, BridgeStart, BrokerTyped
    <3>3. ListenerTyped'
      BY <1>5, Empty DEF BridgeStarts, BridgeStart, ListenerTyped
    <3>4. StatusTyped'
      BY <1>5, Empty DEF BridgeStarts, BridgeStart, StatusTyped
    <3>5. RestTyped'
      BY <1>5, Empty DEF BridgeStarts, BridgeStart, RestTyped
    <3> QED
      BY <3>1, <3>2, <3>3, <3>4, <3>5
  <2>2. Agreed' /\ Spoken'
    BY <1>5, Empty DEF BridgeStarts, BridgeStart, BridgeTyped, BrokerTyped, ListenerTyped,
       StatusTyped, RestTyped, Agreed, Spoken, SaysSo
  <2>3. Heard'
    BY <1>5, Empty DEF BridgeStarts, BridgeStart, BridgeTyped, BrokerTyped, ListenerTyped,
       StatusTyped, RestTyped, Heard
  <2>4. Stored'
    BY <1>5, Empty DEF BridgeStarts, BridgeStart, BridgeTyped, BrokerTyped, ListenerTyped,
       StatusTyped, RestTyped, Stored
  <2> QED
    BY <2>1, <2>2, <2>3, <2>4
<1> QED
  BY <1>1, <1>2, <1>3, <1>4, <1>5 DEF Bridge

LEMMA NetworkKeep == ASSUME RInv, Network PROVE RInv'
<1> USE NoneAssumption DEF RInv, TypeOK, Values, bridgeVars, brokerVars, listenerVars, database, wires, budget
<1>1. CASE Connect
  BY <1>1, Empty DEF Connect, BridgeTyped, BrokerTyped, ListenerTyped, StatusTyped, RestTyped,
     Agreed, Spoken, Heard, Stored, SaysSo
<1>2. CASE OnConnectReads
  BY <1>2, Empty DEF OnConnectReads, BridgeTyped, BrokerTyped, ListenerTyped, StatusTyped,
     RestTyped, Agreed, Spoken, Heard, Stored, SaysSo
<1>3. CASE OnConnectSets
  BY <1>3, Empty DEF OnConnectSets, BridgeTyped, BrokerTyped, ListenerTyped, StatusTyped,
     RestTyped, Agreed, Spoken, Heard, Stored, SaysSo
<1>4. CASE OnConnectPublishes
  BY <1>4, Empty, AppendLast DEF OnConnectPublishes, BridgeTyped, BrokerTyped, ListenerTyped,
     StatusTyped, RestTyped, Agreed, Spoken, Heard, Stored, SaysSo
<1> QED
  BY <1>1, <1>2, <1>3, <1>4 DEF Network

LEMMA BrokerKeep == ASSUME RInv, Broker PROVE RInv'
<1> USE NoneAssumption DEF RInv, TypeOK, Values, bridgeVars, brokerVars, listenerVars, database, wires, budget
<1>1. CASE StatusArrives
  <2>a. outgoing \in Seq(BOOLEAN) /\ outgoing # <<>> /\ retained' = Head(outgoing) /\ outgoing' = Tail(outgoing)
    BY <1>1 DEF StatusArrives, Forward, TypeOK, BridgeTyped, ListenerTyped
  <2>b. /\ Head(outgoing) \in BOOLEAN /\ Tail(outgoing) \in Seq(BOOLEAN)
        /\ Tail(outgoing) = <<>> => Head(outgoing) = Last(outgoing)
        /\ Tail(outgoing) # <<>> => Last(Tail(outgoing)) = Last(outgoing)
    BY <2>a, TailLast
  <2>1. TypeOK'
    <3>1. BridgeTyped'
      BY <1>1, Empty, AppendLast, <2>a, <2>b DEF StatusArrives, Forward, BridgeTyped
    <3>2. BrokerTyped'
      BY <1>1, Empty, AppendLast, <2>a, <2>b DEF StatusArrives, Forward, BrokerTyped
    <3>3. ListenerTyped'
      BY <1>1, Empty, AppendLast, <2>a, <2>b DEF StatusArrives, Forward, ListenerTyped
    <3>4. StatusTyped'
      BY <1>1, Empty, AppendLast, <2>a, <2>b DEF StatusArrives, Forward, StatusTyped
    <3>5. RestTyped'
      BY <1>1, Empty, AppendLast, <2>a, <2>b DEF StatusArrives, Forward, RestTyped
    <3> QED
      BY <3>1, <3>2, <3>3, <3>4, <3>5
  <2>2. Agreed' /\ Spoken'
    BY <1>1, Empty, AppendLast, <2>a, <2>b DEF StatusArrives, Forward, BridgeTyped, BrokerTyped,
       ListenerTyped, StatusTyped, RestTyped, Agreed, Spoken, SaysSo
  <2>3. Heard'
    BY <1>1, Empty, AppendLast, <2>a, <2>b DEF StatusArrives, Forward, BridgeTyped, BrokerTyped,
       ListenerTyped, StatusTyped, RestTyped, Heard
  <2>4. Stored'
    BY <1>1, Empty, AppendLast, <2>a, <2>b DEF StatusArrives, Forward, BridgeTyped, BrokerTyped,
       ListenerTyped, StatusTyped, RestTyped, Stored
  <2> QED
    BY <2>1, <2>2, <2>3, <2>4
<1>2. CASE WillFires
  <2>1. TypeOK'
    <3>1. BridgeTyped'
      BY <1>2, Empty, AppendLast DEF WillFires, Forward, BridgeTyped
    <3>2. BrokerTyped'
      BY <1>2, Empty, AppendLast DEF WillFires, Forward, BrokerTyped
    <3>3. ListenerTyped'
      BY <1>2, Empty, AppendLast DEF WillFires, Forward, ListenerTyped
    <3>4. StatusTyped'
      BY <1>2, Empty, AppendLast DEF WillFires, Forward, StatusTyped
    <3>5. RestTyped'
      BY <1>2, Empty, AppendLast DEF WillFires, Forward, RestTyped
    <3> QED
      BY <3>1, <3>2, <3>3, <3>4, <3>5
  <2>2. Agreed' /\ Spoken'
    BY <1>2, Empty, AppendLast DEF WillFires, Forward, BridgeTyped, BrokerTyped, ListenerTyped,
       StatusTyped, RestTyped, Agreed, Spoken, SaysSo
  <2>3. Heard'
    BY <1>2, Empty, AppendLast DEF WillFires, Forward, BridgeTyped, BrokerTyped, ListenerTyped,
       StatusTyped, RestTyped, Heard
  <2>4. Stored'
    BY <1>2, Empty, AppendLast DEF WillFires, Forward, BridgeTyped, BrokerTyped, ListenerTyped,
       StatusTyped, RestTyped, Stored
  <2> QED
    BY <2>1, <2>2, <2>3, <2>4
<1>3. CASE BrokerStarts
  BY <1>3, Empty DEF BrokerStarts, BridgeTyped, BrokerTyped, ListenerTyped, StatusTyped,
     RestTyped, Agreed, Spoken, Heard, Stored, SaysSo
<1> QED
  BY <1>1, <1>2, <1>3 DEF Broker

LEMMA ListenerKeep == ASSUME RInv, Listener PROVE RInv'
<1> USE NoneAssumption DEF RInv, TypeOK, Values, bridgeVars, brokerVars, listenerVars, database, wires, budget
<1>1. CASE ListenerConnects
  <2>1. TypeOK'
    <3>1. BridgeTyped'
      BY <1>1, Empty DEF ListenerConnects, BridgeTyped
    <3>2. BrokerTyped'
      BY <1>1, Empty DEF ListenerConnects, BrokerTyped
    <3>3. ListenerTyped'
      BY <1>1, Empty DEF ListenerConnects, ListenerTyped, BrokerTyped
    <3>4. StatusTyped'
      BY <1>1, Empty DEF ListenerConnects, StatusTyped
    <3>5. RestTyped'
      BY <1>1, Empty DEF ListenerConnects, RestTyped
    <3> QED
      BY <3>1, <3>2, <3>3, <3>4, <3>5
  <2>2. Agreed' /\ Spoken'
    BY <1>1, Empty DEF ListenerConnects, BridgeTyped, BrokerTyped, ListenerTyped, StatusTyped,
       RestTyped, Agreed, Spoken, SaysSo
  <2>3. Heard'
    BY <1>1, Empty DEF ListenerConnects, BridgeTyped, BrokerTyped, ListenerTyped, StatusTyped,
       RestTyped, Heard, Last
  <2>4. Stored'
    BY <1>1, Empty DEF ListenerConnects, BridgeTyped, BrokerTyped, ListenerTyped, StatusTyped,
       RestTyped, Stored
  <2> QED
    BY <2>1, <2>2, <2>3, <2>4
<1>2. CASE ListenerFindsNoBroker
  <2>1. TypeOK'
    <3>1. BridgeTyped'
      BY <1>2, Empty DEF ListenerFindsNoBroker, Set, Attempt, BridgeTyped
    <3>2. BrokerTyped'
      BY <1>2, Empty DEF ListenerFindsNoBroker, Set, Attempt, BrokerTyped
    <3>3. ListenerTyped'
      BY <1>2, Empty DEF ListenerFindsNoBroker, Set, Attempt, ListenerTyped
    <3>4. StatusTyped'
      BY <1>2, Empty DEF ListenerFindsNoBroker, Set, Attempt, StatusTyped
    <3>5. RestTyped'
      BY <1>2, Empty DEF ListenerFindsNoBroker, Set, Attempt, RestTyped
    <3> QED
      BY <3>1, <3>2, <3>3, <3>4, <3>5
  <2>2. Agreed' /\ Spoken'
    BY <1>2, Empty DEF ListenerFindsNoBroker, Set, Attempt, BridgeTyped, BrokerTyped,
       ListenerTyped, StatusTyped, RestTyped, Agreed, Spoken, SaysSo
  <2>3. Heard'
    BY <1>2, Empty DEF ListenerFindsNoBroker, Set, Attempt, BridgeTyped, BrokerTyped,
       ListenerTyped, StatusTyped, RestTyped, Heard
  <2>4. Stored'
    BY <1>2, Empty DEF ListenerFindsNoBroker, Set, Attempt, BridgeTyped, BrokerTyped,
       ListenerTyped, StatusTyped, RestTyped, Stored
  <2> QED
    BY <2>1, <2>2, <2>3, <2>4
<1>3. CASE ListenerNotices
  <2>1. TypeOK'
    <3>1. BridgeTyped'
      BY <1>3, Empty DEF ListenerNotices, Set, Attempt, BridgeTyped
    <3>2. BrokerTyped'
      BY <1>3, Empty DEF ListenerNotices, Set, Attempt, BrokerTyped
    <3>3. ListenerTyped'
      BY <1>3, Empty DEF ListenerNotices, Set, Attempt, ListenerTyped
    <3>4. StatusTyped'
      BY <1>3, Empty DEF ListenerNotices, Set, Attempt, StatusTyped
    <3>5. RestTyped'
      BY <1>3, Empty DEF ListenerNotices, Set, Attempt, RestTyped
    <3> QED
      BY <3>1, <3>2, <3>3, <3>4, <3>5
  <2>2. Agreed' /\ Spoken'
    BY <1>3, Empty DEF ListenerNotices, Set, Attempt, BridgeTyped, BrokerTyped, ListenerTyped,
       StatusTyped, RestTyped, Agreed, Spoken, SaysSo
  <2>3. Heard'
    BY <1>3, Empty DEF ListenerNotices, Set, Attempt, BridgeTyped, BrokerTyped, ListenerTyped,
       StatusTyped, RestTyped, Heard
  <2>4. Stored'
    BY <1>3, Empty DEF ListenerNotices, Set, Attempt, BridgeTyped, BrokerTyped, ListenerTyped,
       StatusTyped, RestTyped, Stored
  <2> QED
    BY <2>1, <2>2, <2>3, <2>4
<1>4. CASE ListenerReceives
  <2>a. inbox \in Seq(BOOLEAN) /\ inbox # <<>> /\ known' = Head(inbox) /\ inbox' = Tail(inbox)
    BY <1>4 DEF ListenerReceives, Set, Attempt, TypeOK, BridgeTyped, ListenerTyped
  <2>b. /\ Head(inbox) \in BOOLEAN /\ Tail(inbox) \in Seq(BOOLEAN)
        /\ Tail(inbox) = <<>> => Head(inbox) = Last(inbox)
        /\ Tail(inbox) # <<>> => Last(Tail(inbox)) = Last(inbox)
    BY <2>a, TailLast
  <2>1. TypeOK'
    BY <1>4, Empty, <2>a, <2>b DEF ListenerReceives, Set, Attempt, BridgeTyped, BrokerTyped,
       ListenerTyped, StatusTyped, RestTyped
  <2>2. Agreed' /\ Spoken'
    BY <1>4, Empty, <2>a, <2>b DEF ListenerReceives, Set, Attempt, BridgeTyped, BrokerTyped,
       ListenerTyped, StatusTyped, RestTyped, Agreed, Spoken, SaysSo
  <2>3. Heard'
    BY <1>4, Empty, <2>a, <2>b DEF ListenerReceives, Set, Attempt, BridgeTyped, BrokerTyped,
       ListenerTyped, StatusTyped, RestTyped, Heard
  <2>4. Stored'
    BY <1>4, Empty, <2>a, <2>b DEF ListenerReceives, Set, Attempt, BridgeTyped, BrokerTyped,
       ListenerTyped, StatusTyped, RestTyped, Stored
  <2> QED
    BY <2>1, <2>2, <2>3, <2>4
<1>5. CASE FlushRetries
  BY <1>5, Empty DEF FlushRetries, Attempt, BridgeTyped, BrokerTyped, ListenerTyped,
     StatusTyped, RestTyped, Agreed, Spoken, Heard, Stored, SaysSo
<1>6. CASE FlushChecks
  BY <1>6, Empty DEF FlushChecks, Set, Attempt, BridgeTyped, BrokerTyped, ListenerTyped,
     StatusTyped, RestTyped, Agreed, Spoken, Heard, Stored, SaysSo
<1>7. CASE ListenerStarts
  BY <1>7, Empty DEF ListenerStarts, BridgeTyped, BrokerTyped, ListenerTyped, StatusTyped,
     RestTyped, Agreed, Spoken, Heard, Stored, SaysSo
<1> QED
  BY <1>1, <1>2, <1>3, <1>4, <1>5, <1>6, <1>7 DEF Listener

LEMMA FaultsKeep == ASSUME RInv, Faults PROVE RInv'
<1> USE NoneAssumption DEF RInv, TypeOK, Values, bridgeVars, brokerVars, listenerVars, database, wires, budget
<1>1. CASE BridgeDies
  <2>1. TypeOK'
    <3>1. BridgeTyped'
      BY <1>1, Empty DEF BridgeDies, Fault, BridgeTyped
    <3>2. BrokerTyped'
      BY <1>1, Empty DEF BridgeDies, Fault, BrokerTyped
    <3>3. ListenerTyped'
      BY <1>1, Empty DEF BridgeDies, Fault, ListenerTyped
    <3>4. StatusTyped'
      BY <1>1, Empty DEF BridgeDies, Fault, StatusTyped
    <3>5. RestTyped'
      BY <1>1, Empty DEF BridgeDies, Fault, RestTyped
    <3> QED
      BY <3>1, <3>2, <3>3, <3>4, <3>5
  <2>2. Agreed' /\ Spoken'
    BY <1>1, Empty DEF BridgeDies, Fault, BridgeTyped, BrokerTyped, ListenerTyped, StatusTyped,
       RestTyped, Agreed, Spoken, SaysSo
  <2>3. Heard'
    BY <1>1, Empty DEF BridgeDies, Fault, BridgeTyped, BrokerTyped, ListenerTyped, StatusTyped,
       RestTyped, Heard
  <2>4. Stored'
    BY <1>1, Empty DEF BridgeDies, Fault, BridgeTyped, BrokerTyped, ListenerTyped, StatusTyped,
       RestTyped, Stored
  <2> QED
    BY <2>1, <2>2, <2>3, <2>4
<1>2. CASE LinkDrops
  <2>1. TypeOK'
    <3>1. BridgeTyped'
      BY <1>2, Empty DEF LinkDrops, Fault, BridgeTyped
    <3>2. BrokerTyped'
      BY <1>2, Empty DEF LinkDrops, Fault, BrokerTyped
    <3>3. ListenerTyped'
      BY <1>2, Empty DEF LinkDrops, Fault, ListenerTyped
    <3>4. StatusTyped'
      BY <1>2, Empty DEF LinkDrops, Fault, StatusTyped
    <3>5. RestTyped'
      BY <1>2, Empty DEF LinkDrops, Fault, RestTyped
    <3> QED
      BY <3>1, <3>2, <3>3, <3>4, <3>5
  <2>2. Agreed' /\ Spoken'
    BY <1>2, Empty DEF LinkDrops, Fault, BridgeTyped, BrokerTyped, ListenerTyped, StatusTyped,
       RestTyped, Agreed, Spoken, SaysSo
  <2>3. Heard'
    BY <1>2, Empty DEF LinkDrops, Fault, BridgeTyped, BrokerTyped, ListenerTyped, StatusTyped,
       RestTyped, Heard
  <2>4. Stored'
    BY <1>2, Empty DEF LinkDrops, Fault, BridgeTyped, BrokerTyped, ListenerTyped, StatusTyped,
       RestTyped, Stored
  <2> QED
    BY <2>1, <2>2, <2>3, <2>4
<1>3. CASE BrokerStops
  <2>1. TypeOK'
    <3>1. BridgeTyped'
      BY <1>3, Empty DEF BrokerStops, Fault, BridgeTyped
    <3>2. BrokerTyped'
      BY <1>3, Empty DEF BrokerStops, Fault, BrokerTyped
    <3>3. ListenerTyped'
      BY <1>3, Empty DEF BrokerStops, Fault, ListenerTyped
    <3>4. StatusTyped'
      BY <1>3, Empty DEF BrokerStops, Fault, StatusTyped
    <3>5. RestTyped'
      BY <1>3, Empty DEF BrokerStops, Fault, RestTyped
    <3> QED
      BY <3>1, <3>2, <3>3, <3>4, <3>5
  <2>2. Agreed' /\ Spoken'
    BY <1>3, Empty DEF BrokerStops, Fault, BridgeTyped, BrokerTyped, ListenerTyped, StatusTyped,
       RestTyped, Agreed, Spoken, SaysSo
  <2>3. Heard'
    BY <1>3, Empty DEF BrokerStops, Fault, BridgeTyped, BrokerTyped, ListenerTyped, StatusTyped,
       RestTyped, Heard
  <2>4. Stored'
    BY <1>3, Empty DEF BrokerStops, Fault, BridgeTyped, BrokerTyped, ListenerTyped, StatusTyped,
       RestTyped, Stored
  <2> QED
    BY <2>1, <2>2, <2>3, <2>4
<1>4. CASE ListenerDrops
  <2>1. TypeOK'
    <3>1. BridgeTyped'
      BY <1>4, Empty DEF ListenerDrops, Fault, BridgeTyped
    <3>2. BrokerTyped'
      BY <1>4, Empty DEF ListenerDrops, Fault, BrokerTyped
    <3>3. ListenerTyped'
      BY <1>4, Empty DEF ListenerDrops, Fault, ListenerTyped
    <3>4. StatusTyped'
      BY <1>4, Empty DEF ListenerDrops, Fault, StatusTyped
    <3>5. RestTyped'
      BY <1>4, Empty DEF ListenerDrops, Fault, RestTyped
    <3> QED
      BY <3>1, <3>2, <3>3, <3>4, <3>5
  <2>2. Agreed' /\ Spoken'
    BY <1>4, Empty DEF ListenerDrops, Fault, BridgeTyped, BrokerTyped, ListenerTyped,
       StatusTyped, RestTyped, Agreed, Spoken, SaysSo
  <2>3. Heard'
    BY <1>4, Empty DEF ListenerDrops, Fault, BridgeTyped, BrokerTyped, ListenerTyped,
       StatusTyped, RestTyped, Heard
  <2>4. Stored'
    BY <1>4, Empty DEF ListenerDrops, Fault, BridgeTyped, BrokerTyped, ListenerTyped,
       StatusTyped, RestTyped, Stored
  <2> QED
    BY <2>1, <2>2, <2>3, <2>4
<1>5. CASE ListenerDies
  <2>1. TypeOK'
    <3>1. BridgeTyped'
      BY <1>5, Empty DEF ListenerDies, Fault, BridgeTyped
    <3>2. BrokerTyped'
      BY <1>5, Empty DEF ListenerDies, Fault, BrokerTyped
    <3>3. ListenerTyped'
      BY <1>5, Empty DEF ListenerDies, Fault, ListenerTyped
    <3>4. StatusTyped'
      BY <1>5, Empty DEF ListenerDies, Fault, StatusTyped
    <3>5. RestTyped'
      BY <1>5, Empty DEF ListenerDies, Fault, RestTyped
    <3> QED
      BY <3>1, <3>2, <3>3, <3>4, <3>5
  <2>2. Agreed' /\ Spoken'
    BY <1>5, Empty DEF ListenerDies, Fault, BridgeTyped, BrokerTyped, ListenerTyped,
       StatusTyped, RestTyped, Agreed, Spoken, SaysSo
  <2>3. Heard'
    BY <1>5, Empty DEF ListenerDies, Fault, BridgeTyped, BrokerTyped, ListenerTyped,
       StatusTyped, RestTyped, Heard
  <2>4. Stored'
    BY <1>5, Empty DEF ListenerDies, Fault, BridgeTyped, BrokerTyped, ListenerTyped,
       StatusTyped, RestTyped, Stored
  <2> QED
    BY <2>1, <2>2, <2>3, <2>4
<1>6. CASE DatabaseStops
  <2>1. TypeOK'
    <3>1. BridgeTyped'
      BY <1>6, Empty DEF DatabaseStops, Fault, BridgeTyped
    <3>2. BrokerTyped'
      BY <1>6, Empty DEF DatabaseStops, Fault, BrokerTyped
    <3>3. ListenerTyped'
      BY <1>6, Empty DEF DatabaseStops, Fault, ListenerTyped
    <3>4. StatusTyped'
      BY <1>6, Empty DEF DatabaseStops, Fault, StatusTyped
    <3>5. RestTyped'
      <4>1. dbUp' \in BOOLEAN
        BY <1>6, Zenon DEF DatabaseStops
      <4> QED
        BY <1>6, <4>1 DEF DatabaseStops, Fault, RestTyped
    <3> QED
      BY <3>1, <3>2, <3>3, <3>4, <3>5
  <2>2. Agreed' /\ Spoken'
    BY <1>6, Empty DEF DatabaseStops, Fault, BridgeTyped, BrokerTyped, ListenerTyped,
       StatusTyped, RestTyped, Agreed, Spoken, SaysSo
  <2>3. Heard'
    BY <1>6, Empty DEF DatabaseStops, Fault, BridgeTyped, BrokerTyped, ListenerTyped,
       StatusTyped, RestTyped, Heard
  <2>4. Stored'
    BY <1>6, Empty DEF DatabaseStops, Fault, BridgeTyped, BrokerTyped, ListenerTyped,
       StatusTyped, RestTyped, Stored
  <2> QED
    BY <2>1, <2>2, <2>3, <2>4
<1>7. CASE DatabaseReplaced
  BY <1>7, Empty DEF DatabaseReplaced, Fault, BridgeTyped, BrokerTyped, ListenerTyped,
     StatusTyped, RestTyped, Agreed, Spoken, Heard, Stored, SaysSo
<1> QED
  BY <1>1, <1>2, <1>3, <1>4, <1>5, <1>6, <1>7 DEF Faults

LEMMA OthersKeep == ASSUME RInv, DatabaseStarts \/ Plug PROVE RInv'
<1> USE NoneAssumption DEF RInv, TypeOK, Values, bridgeVars, brokerVars, listenerVars, database, wires, budget
<1>1. CASE DatabaseStarts
  BY <1>1, Empty DEF DatabaseStarts, BridgeTyped, BrokerTyped, ListenerTyped, StatusTyped,
     RestTyped, Agreed, Spoken, Heard, Stored, SaysSo
<1>2. CASE Plug
  BY <1>2, Empty DEF Plug, BridgeTyped, BrokerTyped, ListenerTyped, StatusTyped, RestTyped,
     Agreed, Spoken, Heard, Stored, SaysSo
<1> QED
  BY <1>1, <1>2

LEMMA ReaderNext == RInv /\ [Next]_vars => RInv'
<1> SUFFICES ASSUME RInv, [Next]_vars PROVE RInv'
  OBVIOUS
<1>1. CASE Next
  BY <1>1, BridgeKeep, NetworkKeep, BrokerKeep, ListenerKeep, FaultsKeep, OthersKeep DEF Next
<1>2. CASE UNCHANGED vars
  BY <1>2 DEF vars, bridgeVars, brokerVars, listenerVars, database, wires, budget, RInv, TypeOK,
              BridgeTyped, BrokerTyped, ListenerTyped, StatusTyped, RestTyped, Agreed, Spoken, Heard, Stored, SaysSo, Last
<1> QED
  BY <1>1, <1>2

\* The state of bridge, broker, listener and row keeps its type: among it, what the listener still
\* has to write it also knows, and a message only waits for a listener that is connected.
THEOREM ReaderTypeCorrect == Spec => []TypeOK
<1>1. RInv => TypeOK
  BY DEF RInv
<1> QED
  BY ReaderInit, ReaderNext, <1>1, PTL DEF Spec

\* The kiosk's "card reader not available" is right once nothing is under way, whatever died, was
\* cut off, replugged or replaced before (publish_status(), the last will, class ReaderStatus).
THEOREM ReaderSettled == Spec => []Settled
<1>1. RInv => Settled
  <2> SUFFICES ASSUME RInv, AtRest, pending = NONE, ~replaced, ~overtaken PROVE Shown = plugged
    BY DEF Settled
  <2>1. SaysSo(retained) /\ (bridge = "session" <=> plugged)
    BY DEF RInv, Spoken, AtRest
  <2>2. known = retained
    BY <2>1, NoneAssumption DEF RInv, Heard, AtRest, SaysSo
  <2>3. row = known
    BY <2>1, <2>2, NoneAssumption DEF RInv, Stored, SaysSo
  <2>4. row = TRUE <=> plugged
    BY <2>1, <2>2, <2>3 DEF SaysSo, AtRest
  <2> QED
    BY <2>4 DEF Shown, RInv, TypeOK, RestTyped
<1> QED
  BY ReaderInit, ReaderNext, <1>1, PTL DEF Spec
=============================================================================
