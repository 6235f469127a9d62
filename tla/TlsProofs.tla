------------------------------ MODULE TlsProofs ------------------------------
(***************************************************************************)
(* Proofs about Tls for any number of workers, every age at which a        *)
(* certificate is renewed, and any number of faults.                       *)
(***************************************************************************)
EXTENDS Tls, TLAPS

(***************************************************************************)
(* The states.                                                             *)
(***************************************************************************)
Own    == {"server", "kiosk"}
Pairs  == [key : Marks, crt : {NONE} \cup Crts]
Stems  == [port : {"net", "kiosk"}, key : Marks, crt : {NONE} \cup Crts]
Files  == Stems \X {"key", "crt"}
Places == {"idle", "ca", "ca_opened", "ca_written", "server", "kiosk", "net", "kiosk_copy", "caddyfile", "cleanup",
           "custom", "custom_crt", "revert", "drop_key"}

Plain     == [at : Places, named : SUBSET Stems]
Restoring == [at : {"restore"}, named : {{}}, left : SUBSET Copied]
Issuing   == [at : {"issued"}, for : Own, crt : Crts]
Storing   == [at : {"copied"}, named : SUBSET Stems, stem : Stems]

TypeOK ==
  /\ ca \in [key : Marks, crt : Marks]
  /\ pair \in [Own \cup {"custom"} -> Pairs]
  /\ live \in SUBSET Files /\ caddyfile \in SUBSET Stems /\ served \in SUBSET Stems
  /\ lock \in {NONE} \cup Processes
  /\ proc \in [Processes -> Plain \cup Restoring \cup Issuing \cup Storing]
  /\ nss \in Marks /\ phone \in Marks
  /\ names \in {0, 1} /\ now \in Nat /\ made \in Nat /\ events \in Nat
  /\ torn \in BOOLEAN /\ halved \in BOOLEAN /\ mixed \in BOOLEAN /\ restored \in BOOLEAN

Working(p) == proc[p].at \notin {"idle", "restore"}

\* Whoever writes has the lock - but for a restore.
Locking == \A p \in Processes : Working(p) => lock = p

(***************************************************************************)
(* The device's own certificates are there before anything needs them, and *)
(* stay.                                                                   *)
(***************************************************************************)
Complete(n) == pair[n].key # NONE /\ pair[n].crt # NONE

\* Places a process reaches only past ensure()'s server certificate, and past its kiosk certificate.
PastServer(p) ==
  \/ proc[p].at \notin {"idle", "ca", "ca_opened", "ca_written", "server", "issued"}
  \/ proc[p].at = "issued" /\ proc[p].for = "kiosk"
PastKiosk(p) == proc[p].at \notin {"idle", "ca", "ca_opened", "ca_written", "server", "kiosk", "issued"}

Stocked ==
  /\ caddyfile # {} \/ served # {} \/ (\E p \in Processes : PastServer(p)) => Complete("server")
  /\ caddyfile # {} \/ served # {} \/ (\E p \in Processes : PastKiosk(p)) => Complete("kiosk")
  /\ \A p \in Processes : proc[p].at = "issued" => pair[proc[p].for].key # NONE

BaseInv == TypeOK /\ Locking /\ Stocked

(***************************************************************************)
(* Loadable: while nothing has gone wrong for good.                        *)
(***************************************************************************)
Ready(stem) == {<<stem, "key">>, <<stem, "crt">>} \subseteq live /\ Fits(stem)

\* A key has its own certificate, unless somebody is about to write that.
Matched ==
  /\ \A n \in Own \cup {"custom"} : Complete(n) =>
       \/ pair[n].crt.key = pair[n].key
       \/ \E p \in Processes : proc[p].at = "issued" /\ proc[p].for = n
       \/ n = "custom" /\ \E p \in Processes : proc[p].at = "custom_crt"
  /\ \A p \in Processes : proc[p].at = "issued" => pair[proc[p].for].key = proc[p].crt.key

\* A live certificate has its live key.
Backed == \A file \in live : file[2] = "crt" => <<file[1], "key">> \in live

\* What a process is going to name in the Caddyfile is there.
Named ==
  \A p \in Processes :
    /\ proc[p].at \in {"net", "kiosk_copy", "caddyfile", "cleanup"} => \A stem \in proc[p].named : Ready(stem)
    /\ proc[p].at = "copied" => /\ \A stem \in proc[p].named \ {proc[p].stem} : Ready(stem)
                                /\ <<proc[p].stem, "key">> \in live /\ Fits(proc[p].stem)
    /\ proc[p].at = "cleanup" => caddyfile = proc[p].named

\* A restore that has begun to copy is alone, and what it has copied is there.
CopiedSoFar ==
  \A p \in Processes : Copying(p) /\ proc[p].left # Copied =>
    /\ \A q \in Processes : ~Working(q)
    /\ "live" \notin proc[p].left => OldLive \X {"key", "crt"} \subseteq live
    /\ "Caddyfile" \notin proc[p].left => caddyfile = OldLive

Loaded == (\E p \in Processes : Copying(p)) \/ \A stem \in caddyfile : Ready(stem)

Sound   == Matched /\ Backed /\ Named /\ CopiedSoFar /\ Loaded
LoadInv == BaseInv /\ (torn \/ halved \/ mixed \/ Sound)

(***************************************************************************)
(* The CA stays.                                                           *)
(***************************************************************************)
Signed(stem) == stem.crt.ca \in {NONE, ca.crt}

Signs(p) ==
  /\ proc[p].at # "restore"
  /\ proc[p].at = "ca_opened" => ca.crt = NONE /\ ca.key # NONE
  /\ proc[p].at = "ca_written" => ca.crt = EMPTY
  /\ proc[p].at = "server" => ca.crt \in Int
  /\ proc[p].at = "issued" => proc[p].crt.ca = ca.crt /\ ca.crt \in Int
  /\ proc[p].at \in {"net", "kiosk_copy", "caddyfile", "cleanup", "copied"} => \A stem \in proc[p].named : Signed(stem)

OneCa ==
  /\ ca.key # EMPTY /\ (ca.crt # NONE => ca.key # NONE)
  /\ ca.crt = EMPTY => \E p \in Processes : proc[p].at = "ca_written"
  /\ \A p \in Processes : Signs(p)
  /\ \A n \in Own : pair[n].crt # NONE => pair[n].crt.ca = ca.crt /\ ca.crt \in Int
  /\ pair["custom"].crt # NONE => pair["custom"].crt.ca = NONE
  /\ \A stem \in caddyfile \cup served : Signed(stem)
  /\ phone # NONE => phone = ca.crt /\ phone \in Int

CaInv == BaseInv /\ (torn \/ restored \/ OneCa) /\ CaStays

-----------------------------------------------------------------------------
USE TlsAssumption, NoneAssumption
USE DEF files, world, gaps

(***************************************************************************)
(* Type correctness.                                                       *)
(***************************************************************************)
LEMMA InitTyped == Init => TypeOK
<1> SUFFICES ASSUME Init PROVE TypeOK
  OBVIOUS
<1>1. NONE \in Marks /\ "idle" \in Places
  BY DEF Marks, Places
<1>2. NoPair \in Pairs /\ Idle \in Plain
  BY <1>1 DEF NoPair, Pairs, Idle, Plain
<1>3. pair \in [Own \cup {"custom"} -> Pairs] /\ proc \in [Processes -> Plain \cup Restoring \cup Issuing \cup Storing]
  BY <1>2 DEF Init, Own
<1> QED
  BY <1>1, <1>3 DEF Init, TypeOK, NoPair

\* Where a process is says which record it has.
LEMMA Shapes ==
  ASSUME TypeOK, NEW p \in Processes
  PROVE  /\ proc[p].at \in Places => proc[p] \in Plain
         /\ proc[p].at = "restore" => proc[p] \in Restoring
         /\ proc[p].at = "issued" => proc[p] \in Issuing
         /\ proc[p].at = "copied" => proc[p] \in Storing
         /\ proc[p].at \in Places \cup {"restore", "issued", "copied"}
BY DEF TypeOK, Plain, Restoring, Issuing, Storing, Places

\* Going somewhere is the process's own.
LEMMA Moves ==
  ASSUME TypeOK, NEW p \in Processes
  PROVE  /\ \A at \in Places : Goes(p, at) => /\ proc' \in [Processes -> Plain \cup Restoring \cup Issuing \cup Storing]
                                  /\ proc'[p] = [at |-> at, named |-> {}]
                                  /\ \A q \in Processes \ {p} : proc'[q] = proc[q]
         /\ Leaves(p) => /\ proc' \in [Processes -> Plain \cup Restoring \cup Issuing \cup Storing]
                         /\ proc'[p] = Idle /\ lock' = NONE
                         /\ \A q \in Processes \ {p} : proc'[q] = proc[q]
<1>1. ASSUME NEW at \in Places PROVE [at |-> at, named |-> {}] \in Plain
  BY DEF Plain
<1>2. Idle \in Plain
  BY <1>1 DEF Idle, Places
<1> QED
  BY <1>1, <1>2 DEF TypeOK, Goes, Leaves

LEMMA StemsTyped ==
  ASSUME TypeOK
  PROVE  Network \in Stems /\ Kiosk \in Stems /\ OldLive \in SUBSET Stems
<1>1. ASSUME NEW port \in {"net", "kiosk"}, NEW n \in Own \cup {"custom"} PROVE Stem(port, n) \in Stems
  BY DEF TypeOK, Pairs, Stem, Stems
<1>2. Network \in Stems /\ Kiosk \in Stems
  BY <1>1 DEF Network, Kiosk, Own
<1>3. /\ OldPair["server"].key = -2 /\ OldPair["server"].crt = [key |-> -2, ca |-> -1, names |-> 0, born |-> 0]
      /\ OldPair["kiosk"].key = -3 /\ OldPair["kiosk"].crt = [key |-> -3, ca |-> -1, names |-> "localhost", born |-> 0]
  BY DEF OldPair
<1>4. OldLive \in SUBSET Stems
  BY <1>3 DEF OldLive, Stems, Crts, Marks
<1> QED
  BY <1>2, <1>4

LEMMA OldTyped == /\ Old \in [key : Int, crt : Int] /\ DOMAIN OldPair = Own
                  /\ \A n \in Own : /\ OldPair[n] \in [key : Int, crt : Crts]
                                    /\ OldPair[n].crt.key = OldPair[n].key
<1>1. Old \in [key : Int, crt : Int] /\ DOMAIN OldPair = Own
  BY DEF Old, OldPair, Own
<1>2. ASSUME NEW n \in Own
      PROVE  OldPair[n] \in [key : Int, crt : Crts] /\ OldPair[n].crt.key = OldPair[n].key
  <2>1. CASE n = "server"
    <3>1. OldPair[n] = [key |-> -2, crt |-> [key |-> -2, ca |-> -1, names |-> 0, born |-> 0]]
      BY <2>1 DEF OldPair
    <3>2. [key |-> -2, ca |-> -1, names |-> 0, born |-> 0] \in Crts
      BY DEF Crts, Marks
    <3> QED
      BY <3>1, <3>2
  <2>2. CASE n = "kiosk"
    <3>1. OldPair[n] = [key |-> -3, crt |-> [key |-> -3, ca |-> -1, names |-> "localhost", born |-> 0]]
      BY <2>2 DEF OldPair
    <3>2. [key |-> -3, ca |-> -1, names |-> "localhost", born |-> 0] \in Crts
      BY DEF Crts, Marks
    <3> QED
      BY <3>1, <3>2
  <2> QED
    BY <2>1, <2>2 DEF Own
<1> QED
  BY <1>1, <1>2

Procs == [Processes -> Plain \cup Restoring \cup Issuing \cup Storing]

\* What a process does to its own record; the others' stay.
Steps(p) == proc' \in Procs /\ \A q \in Processes \ {p} : proc'[q] = proc[q]

LEMMA MovesTyped ==
  ASSUME TypeOK, NEW p \in Processes
  PROVE  (Leaves(p) \/ \E at \in Places : Goes(p, at)) => Steps(p)
BY Moves DEF Steps, Procs

\* Going somewhere, seen from afar.
LEMMA MovesAt ==
  ASSUME TypeOK, NEW p \in Processes, NEW at \in Places, Goes(p, at)
  PROVE  Steps(p) /\ proc'[p] = [at |-> at, named |-> {}] /\ proc'[p].at = at
<1>1. proc'[p] = [at |-> at, named |-> {}]
  BY Moves
<1>2. proc'[p].at = at
  BY <1>1
<1> QED
  BY <1>1, <1>2, MovesTyped

LEMMA MarksAre == Int \subseteq Marks /\ NONE \in Marks /\ EMPTY \in Marks /\ Nat \subseteq Marks
BY DEF Marks

LEMMA PlacesAre ==
  /\ {"idle", "ca", "ca_opened", "ca_written", "server", "kiosk", "net", "kiosk_copy", "caddyfile", "cleanup",
      "custom", "custom_crt", "revert", "drop_key"} = Places
  /\ "restore" \notin Places /\ "issued" \notin Places /\ "copied" \notin Places
BY DEF Places

\* The steps that only move on.
LEMMA StepsSimple ==
  ASSUME TypeOK, NEW p \in Processes,
         \/ CaKey(p) \/ CaOpened(p) \/ CaWritten(p) \/ Ensures(p) \/ CustomKey(p) \/ CustomCrt(p) \/ DropCrt(p)
         \/ DropKey(p) \/ Upload(p) \/ Revert(p)
  PROVE  Steps(p) /\ \E at \in Places : proc'[p] = [at |-> at, named |-> {}]
<1>1. \E at \in Places : Goes(p, at)
  <2>1. CASE CaKey(p) \/ CaOpened(p) \/ CaWritten(p)
    BY <2>1, PlacesAre DEF CaKey, CaOpened, CaWritten
  <2>2. CASE Ensures(p) \/ Upload(p) \/ Revert(p)
    BY <2>2, PlacesAre DEF Ensures, Upload, Revert, Takes
  <2>3. CASE CustomKey(p) \/ CustomCrt(p) \/ DropCrt(p) \/ DropKey(p)
    BY <2>3, PlacesAre DEF CustomKey, CustomCrt, DropCrt, DropKey
  <2> QED
    BY <2>1, <2>2, <2>3
<1> QED
  BY <1>1, Moves, MovesTyped

LEMMA StepsIssue ==
  ASSUME TypeOK, NEW p \in Processes, NEW n \in Own, IssueKey(p, n)
  PROVE  /\ Steps(p)
         /\ (lock' = lock /\ proc'[p].at \in {"kiosk", "net", "issued"}) \/ (lock' = NONE /\ proc'[p].at = "idle")
         /\ \/ /\ ~NeedsIssue(n) /\ proc'[p] = [at |-> Following(n), named |-> {}] /\ UNCHANGED <<pair, lock, made>>
            \/ /\ NeedsIssue(n) /\ ca.key # ca.crt /\ proc'[p] = Idle /\ lock' = NONE /\ UNCHANGED <<pair, made>>
            \/ /\ NeedsIssue(n) /\ ca.key = ca.crt /\ lock' = lock /\ made' = made + 1
               /\ pair' = [pair EXCEPT ![n].key = made]
               /\ proc'[p] = [at |-> "issued", for |-> n,
                              crt |-> [key |-> made, ca |-> ca.crt, names |-> Wanted(n), born |-> now]]
         /\ Following(n) \in {"kiosk", "net"} /\ [key |-> made, ca |-> ca.crt, names |-> Wanted(n), born |-> now] \in Crts
<1>1. Following(n) \in {"kiosk", "net"} /\ Following(n) \in Places
  BY PlacesAre DEF Following
<1>2. Wanted(n) \in {0, 1, "localhost", "own"} /\ made \in Marks /\ ca.crt \in Marks /\ now \in Int
  BY MarksAre DEF Wanted, TypeOK
<1> DEFINE crt == [key |-> made, ca |-> ca.crt, names |-> Wanted(n), born |-> now]
<1>3. crt \in Crts
  BY <1>2 DEF Crts
<1>4. CASE ~NeedsIssue(n)
  <2>1. Goes(p, Following(n)) /\ UNCHANGED <<pair, lock, made>>
    BY <1>4 DEF IssueKey
  <2> QED
    BY <1>1, <1>3, <1>4, <2>1, MovesAt
<1>5. CASE NeedsIssue(n) /\ ca.key # ca.crt
  <2>1. Leaves(p) /\ UNCHANGED <<pair, made>>
    BY <1>5 DEF IssueKey
  <2>2. Steps(p) /\ proc'[p] = Idle /\ lock' = NONE
    BY <2>1, Moves, MovesTyped
  <2>3. proc'[p].at = "idle"
    BY <2>2 DEF Idle
  <2> QED
    BY <1>1, <1>3, <1>5, <2>1, <2>2, <2>3
<1> HIDE DEF crt
<1>6. CASE NeedsIssue(n) /\ ca.key = ca.crt
  <2>1. /\ pair' = [pair EXCEPT ![n].key = made] /\ made' = made + 1 /\ lock' = lock
        /\ proc' = [proc EXCEPT ![p] = [at |-> "issued", for |-> n, crt |-> crt]]
    BY <1>6 DEF IssueKey, crt
  <2>2. [at |-> "issued", for |-> n, crt |-> crt] \in Issuing
    BY <1>3 DEF Issuing
  <2>3. proc' \in Procs /\ proc'[p] = [at |-> "issued", for |-> n, crt |-> crt] /\ \A q \in Processes \ {p} : proc'[q] = proc[q]
    BY <2>1, <2>2 DEF TypeOK, Procs
  <2>4. proc'[p].at = "issued"
    BY <2>3
  <2> QED
    BY <1>1, <1>3, <1>6, <2>1, <2>3, <2>4 DEF Steps, crt
<1> QED
  BY <1>4, <1>5, <1>6

LEMMA StepsIssued ==
  ASSUME TypeOK, NEW p \in Processes, IssueCrt(p)
  PROVE  /\ Steps(p) /\ proc[p] \in Issuing /\ proc'[p] = [at |-> Following(proc[p].for), named |-> {}]
         /\ Following(proc[p].for) = IF proc[p].for = "server" THEN "kiosk" ELSE "net"
<1>1. proc[p] \in Issuing
  BY Shapes DEF IssueCrt, At
<1>2. Following(proc[p].for) \in Places /\ Goes(p, Following(proc[p].for))
  BY <1>1, PlacesAre DEF IssueCrt, Following
<1> QED
  BY <1>1, <1>2, Moves, MovesTyped DEF Following

LEMMA StepsCopy ==
  ASSUME TypeOK, NEW p \in Processes, NEW at \in {"net", "kiosk_copy"}, NEW stem \in Stems, CopyKey(p, at, stem)
  PROVE  /\ Steps(p) /\ proc[p] \in Plain /\ proc[p].at = at
         /\ proc'[p].at \in {"copied", "kiosk_copy", "caddyfile"}
         /\ \/ /\ <<stem, "crt">> \in live /\ live' = live
               /\ proc'[p] = [at |-> After(stem), named |-> proc[p].named \cup {stem}]
            \/ /\ <<stem, "crt">> \notin live /\ live' = live \cup {<<stem, "key">>}
               /\ proc'[p] = [at |-> "copied", named |-> proc[p].named \cup {stem}, stem |-> stem]
         /\ After(stem) \in {"kiosk_copy", "caddyfile"}
<1>1. proc[p] \in Plain /\ proc[p].at = at
  BY Shapes, PlacesAre DEF CopyKey, At
<1> DEFINE named == proc[p].named \cup {stem}
<1>2. named \in SUBSET Stems
  BY <1>1 DEF Plain
<1> HIDE DEF named
<1>3. After(stem) \in {"kiosk_copy", "caddyfile"} /\ After(stem) \in Places
  BY PlacesAre DEF After
<1>4. [at |-> After(stem), named |-> named] \in Plain
  BY <1>2, <1>3 DEF Plain
<1>5. [at |-> "copied", named |-> named, stem |-> stem] \in Storing
  BY <1>2 DEF Storing
<1>6. CASE <<stem, "crt">> \in live
  <2>1. live' = live /\ proc' = [proc EXCEPT ![p] = [at |-> After(stem), named |-> named]]
    BY <1>6 DEF CopyKey, named
  <2>2. /\ Steps(p) /\ proc'[p] = [at |-> After(stem), named |-> named]
    BY <2>1, <1>4 DEF TypeOK, Steps, Procs
  <2>3. proc'[p].at \in {"kiosk_copy", "caddyfile"}
    BY <1>3, <2>2
  <2> QED
    BY <1>1, <1>3, <1>6, <2>1, <2>2, <2>3 DEF named
<1>7. CASE <<stem, "crt">> \notin live
  <2>1. /\ live' = live \cup {<<stem, "key">>}
        /\ proc' = [proc EXCEPT ![p] = [at |-> "copied", named |-> named, stem |-> stem]]
    BY <1>7 DEF CopyKey, named
  <2>2. /\ Steps(p) /\ proc'[p] = [at |-> "copied", named |-> named, stem |-> stem]
    BY <2>1, <1>5 DEF TypeOK, Steps, Procs
  <2>3. proc'[p].at = "copied"
    BY <2>2
  <2> QED
    BY <1>1, <1>3, <1>7, <2>1, <2>2, <2>3 DEF named
<1> QED
  BY <1>6, <1>7

LEMMA StepsCopied ==
  ASSUME TypeOK, NEW p \in Processes, CopyCrt(p)
  PROVE  /\ Steps(p) /\ proc[p] \in Storing /\ live' = live \cup {<<proc[p].stem, "crt">>}
         /\ proc'[p] = [at |-> After(proc[p].stem), named |-> proc[p].named]
         /\ After(proc[p].stem) \in {"kiosk_copy", "caddyfile"}
<1>1. proc[p] \in Storing
  BY Shapes DEF CopyCrt, At
<1>2. After(proc[p].stem) \in {"kiosk_copy", "caddyfile"} /\ After(proc[p].stem) \in Places
  BY PlacesAre DEF After
<1>3. [at |-> After(proc[p].stem), named |-> proc[p].named] \in Plain
  BY <1>1, <1>2 DEF Plain, Storing
<1>4. proc' = [proc EXCEPT ![p] = [at |-> After(proc[p].stem), named |-> proc[p].named]]
  BY <1>1 DEF CopyCrt, TypeOK
<1> QED
  BY <1>1, <1>2, <1>3, <1>4 DEF CopyCrt, TypeOK, Steps, Procs

LEMMA StepsWrite ==
  ASSUME TypeOK, NEW p \in Processes, WriteCaddyfile(p)
  PROVE  /\ Steps(p) /\ proc[p] \in Plain /\ proc[p].named \in SUBSET Stems
         /\ \/ caddyfile = proc[p].named /\ proc'[p] = Idle /\ lock' = NONE /\ caddyfile' = caddyfile
            \/ /\ caddyfile' = proc[p].named /\ lock' = lock
               /\ proc'[p] = [at |-> "cleanup", named |-> proc[p].named]
<1>1. proc[p] \in Plain
  BY Shapes, PlacesAre DEF WriteCaddyfile, At
<1>2. CASE caddyfile = proc[p].named
  <2>1. Leaves(p) /\ caddyfile' = caddyfile
    BY <1>2 DEF WriteCaddyfile
  <2> QED
    BY <1>1, <1>2, <2>1, Moves, MovesTyped DEF Plain
<1>3. CASE caddyfile # proc[p].named
  <2>1. caddyfile' = proc[p].named /\ lock' = lock /\ proc' = [proc EXCEPT ![p].at = "cleanup"]
    BY <1>3 DEF WriteCaddyfile
  <2>2. [proc[p] EXCEPT !.at = "cleanup"] = [at |-> "cleanup", named |-> proc[p].named]
    BY <1>1 DEF Plain
  <2>3. [at |-> "cleanup", named |-> proc[p].named] \in Plain
    BY <1>1, PlacesAre DEF Plain
  <2>4. proc' = [proc EXCEPT ![p] = [at |-> "cleanup", named |-> proc[p].named]]
    BY <2>1, <2>2
  <2>5. Steps(p) /\ proc'[p] = [at |-> "cleanup", named |-> proc[p].named]
    BY <2>3, <2>4 DEF TypeOK, Steps, Procs
  <2> QED
    BY <1>1, <2>1, <2>5 DEF Plain
<1> QED
  BY <1>2, <1>3

LEMMA StepsCleanup ==
  ASSUME TypeOK, NEW p \in Processes, Cleanup(p)
  PROVE  Steps(p) /\ proc[p] \in Plain /\ proc'[p] = Idle /\ lock' = NONE
<1>1. proc[p] \in Plain
  BY Shapes, PlacesAre DEF Cleanup, At
<1> QED
  BY <1>1, Moves, MovesTyped DEF Cleanup

LEMMA StepsRestore ==
  ASSUME TypeOK, NEW p \in Processes, Restore(p)
  PROVE  Steps(p) /\ proc'[p] = [at |-> "restore", named |-> {}, left |-> Copied]
<1>1. [at |-> "restore", named |-> {}, left |-> Copied] \in Restoring
  BY DEF Restoring
<1> QED
  BY <1>1 DEF Restore, TypeOK, Steps, Procs

LEMMA StepsCopies ==
  ASSUME TypeOK, NEW p \in Processes, NEW file \in Copied, Copies(p, file)
  PROVE  /\ Steps(p) /\ proc[p] \in Restoring
         /\ proc'[p] = [at |-> "restore", named |-> {}, left |-> proc[p].left \ {file}]
         /\ proc'[p].at = "restore" /\ proc'[p].left = proc[p].left \ {file}
<1>1. proc[p] \in Restoring
  BY Shapes DEF Copies, Copying, At
<1>2. [proc[p] EXCEPT !.left = @ \ {file}] = [at |-> "restore", named |-> {}, left |-> proc[p].left \ {file}]
  BY <1>1 DEF Restoring
<1>3. [at |-> "restore", named |-> {}, left |-> proc[p].left \ {file}] \in Restoring
  BY <1>1 DEF Restoring
<1>4. proc' = [proc EXCEPT ![p] = [proc[p] EXCEPT !.left = @ \ {file}]]
  BY DEF Copies
<1> QED
  BY <1>1, <1>2, <1>3, <1>4 DEF TypeOK, Steps, Procs

LEMMA StepsKilled ==
  ASSUME TypeOK, NEW p \in Processes, Killed(p)
  PROVE  Steps(p) /\ proc'[p] = Idle
<1>1. Idle \in Plain
  BY PlacesAre DEF Idle, Plain
<1> QED
  BY <1>1 DEF Killed, TypeOK, Steps, Procs

\* Everything but the processes' records.
Rest ==
  /\ ca \in [key : Marks, crt : Marks]
  /\ pair \in [Own \cup {"custom"} -> Pairs]
  /\ live \in SUBSET Files /\ caddyfile \in SUBSET Stems /\ served \in SUBSET Stems
  /\ lock \in {NONE} \cup Processes
  /\ nss \in Marks /\ phone \in Marks
  /\ names \in {0, 1} /\ now \in Nat /\ made \in Nat /\ events \in Nat
  /\ torn \in BOOLEAN /\ halved \in BOOLEAN /\ mixed \in BOOLEAN /\ restored \in BOOLEAN

LEMMA TypeIs == /\ TypeOK <=> Rest /\ proc \in Procs
                /\ TypeOK' <=> Rest' /\ proc' \in Procs
BY DEF TypeOK, Rest, Procs

LEMMA PairTyped ==
  ASSUME Rest, NEW n \in Own \cup {"custom"}
  PROVE  /\ \A k \in Marks : [pair EXCEPT ![n].key = k] \in [Own \cup {"custom"} -> Pairs]
         /\ \A c \in {NONE} \cup Crts : [pair EXCEPT ![n].crt = c] \in [Own \cup {"custom"} -> Pairs]
BY DEF Rest, Pairs

LEMMA TypedWorks ==
  ASSUME TypeOK, NEW p \in Processes, Works(p) PROVE TypeOK'
<1> USE TypeIs DEF Steps
<1>1. Rest /\ proc \in Procs
  OBVIOUS
<1>2. CASE CaKey(p) \/ CaOpened(p) \/ CaWritten(p)
  <2>1. proc' \in Procs
    BY <1>2, StepsSimple
  <2>2. Rest'
    BY <1>1, <1>2, MarksAre DEF CaKey, CaOpened, CaWritten, Rest
  <2> QED
    BY <2>1, <2>2
<1>3. CASE Ensures(p)
  <2>1. proc' \in Procs
    BY <1>3, StepsSimple
  <2>2. mixed' \in BOOLEAN
    BY <1>3 DEF Ensures, Takes
  <2>3. Rest'
    BY <1>1, <1>3, <2>2 DEF Ensures, Takes, Rest
  <2> QED
    BY <2>1, <2>3
<1>4. CASE CustomKey(p) \/ CustomCrt(p) \/ DropCrt(p) \/ DropKey(p)
  <2>1. proc' \in Procs
    BY <1>4, StepsSimple
  <2>2. made \in Marks /\ NONE \in Marks /\ pair["custom"].key \in Marks
    BY <1>1, MarksAre DEF Rest, Pairs
  <2>3. [key |-> pair["custom"].key, ca |-> NONE, names |-> "own", born |-> now] \in Crts
    BY <1>1, <2>2 DEF Rest, Crts
  <2>4. pair' \in [Own \cup {"custom"} -> Pairs]
    <3>1. PICK n \in Own \cup {"custom"} : n = "custom"
      OBVIOUS
    <3>2. CASE CustomKey(p)
      BY <1>1, <2>2, <3>1, <3>2, PairTyped DEF CustomKey
    <3>3. CASE CustomCrt(p)
      BY <1>1, <2>3, <3>1, <3>3, PairTyped DEF CustomCrt
    <3>4. CASE DropCrt(p)
      BY <1>1, <3>1, <3>4, PairTyped DEF DropCrt
    <3>5. CASE DropKey(p)
      BY <1>1, <2>2, <3>1, <3>5, PairTyped DEF DropKey
    <3> QED
      BY <1>4, <3>2, <3>3, <3>4, <3>5
  <2>5. Rest'
    BY <1>1, <1>4, <2>4 DEF CustomKey, CustomCrt, DropCrt, DropKey, Rest
  <2> QED
    BY <2>1, <2>5
<1>5. ASSUME NEW n \in Own, IssueKey(p, n) PROVE TypeOK'
  <2>1. proc' \in Procs /\ made' \in {made, made + 1} /\ lock' \in {lock, NONE} /\ pair' \in {pair, [pair EXCEPT ![n].key = made]}
    BY <1>5, StepsIssue DEF IssueKey
  <2>2. pair' \in [Own \cup {"custom"} -> Pairs]
    <3>1. made \in Marks
      BY <1>1, MarksAre DEF Rest
    <3>2. pair \in [Own \cup {"custom"} -> Pairs]
      BY <1>1 DEF Rest
    <3> QED
      BY <1>1, <2>1, <3>1, <3>2, PairTyped
  <2>3. Rest'
    BY <1>1, <1>5, <2>1, <2>2 DEF IssueKey, Rest
  <2> QED
    BY <2>1, <2>3
<1>6. CASE IssueCrt(p)
  <2>1. proc' \in Procs /\ proc[p].for \in Own /\ proc[p].crt \in Crts
    BY <1>6, StepsIssued DEF Issuing
  <2>2. pair' \in [Own \cup {"custom"} -> Pairs]
    BY <1>1, <1>6, <2>1, PairTyped DEF IssueCrt
  <2>3. Rest'
    BY <1>1, <1>6, <2>2 DEF IssueCrt, Rest
  <2> QED
    BY <2>1, <2>3
<1>7. ASSUME NEW at \in {"net", "kiosk_copy"}, NEW stem \in Stems, CopyKey(p, at, stem) PROVE TypeOK'
  <2>1. proc' \in Procs /\ live' \in SUBSET Files
    <3>1. <<stem, "key">> \in Files /\ live \in SUBSET Files
      BY <1>1 DEF Rest, Files
    <3>2. proc' \in Procs
      BY <1>7, StepsCopy
    <3>3. live' = live \/ live' = live \cup {<<stem, "key">>}
      BY <1>7 DEF CopyKey
    <3> QED
      BY <3>1, <3>2, <3>3
  <2>2. Rest'
    BY <1>1, <1>7, <2>1 DEF CopyKey, Rest
  <2> QED
    BY <2>1, <2>2
<1>8. CASE CopyCrt(p)
  <2>1. proc' \in Procs /\ live' \in SUBSET Files
    <3>1. proc[p].stem \in Stems
      BY <1>8, StepsCopied DEF Storing
    <3>2. <<proc[p].stem, "crt">> \in Files /\ live \in SUBSET Files
      BY <1>1, <3>1 DEF Rest, Files
    <3> QED
      BY <1>8, <3>2, StepsCopied
  <2>2. Rest'
    BY <1>1, <1>8, <2>1 DEF CopyCrt, Rest
  <2> QED
    BY <2>1, <2>2
<1>9. CASE WriteCaddyfile(p)
  <2>1. proc' \in Procs /\ caddyfile' \in SUBSET Stems /\ lock' \in {lock, NONE}
    BY <1>1, <1>9, StepsWrite DEF Rest
  <2>2. Rest'
    BY <1>1, <1>9, <2>1 DEF WriteCaddyfile, Rest
  <2> QED
    BY <2>1, <2>2
<1>10. CASE Cleanup(p)
  <2>1. proc' \in Procs /\ lock' = NONE /\ live' \in SUBSET live
    BY <1>10, StepsCleanup DEF Cleanup
  <2>2. Rest'
    BY <1>1, <1>10, <2>1 DEF Cleanup, Rest
  <2> QED
    BY <2>1, <2>2
<1>11. ASSUME NEW file \in Copied, Copies(p, file) PROVE TypeOK'
  <2>1. proc' \in Procs
    BY <1>11, StepsCopies
  <2>2. ca' \in [key : Marks, crt : Marks]
    BY <1>1, <1>11, OldTyped, MarksAre DEF Copies, Rest
  <2>3. pair' \in [Own \cup {"custom"} -> Pairs]
    <3>1. ASSUME NEW n \in Own PROVE OldPair[n] \in Pairs
      BY OldTyped, MarksAre DEF Pairs
    <3>2. pair' = pair \/ \E n \in Own : pair' = [pair EXCEPT ![n] = OldPair[n]]
      BY <1>11, OldTyped DEF Copies
    <3> QED
      BY <1>1, <3>1, <3>2 DEF Rest
  <2>4. live' \in SUBSET Files /\ caddyfile' \in SUBSET Stems
    BY <1>1, <1>11, StemsTyped DEF Copies, Rest, Files
  <2>5. mixed' \in BOOLEAN
    BY <1>11 DEF Copies
  <2>6. Rest'
    BY <1>1, <1>11, <2>2, <2>3, <2>4, <2>5 DEF Copies, Rest
  <2> QED
    BY <2>1, <2>6
<1> QED
  BY <1>2, <1>3, <1>4, <1>5, <1>6, <1>7, <1>8, <1>9, <1>10, <1>11, StemsTyped DEF Works, Own

LEMMA TypedWorld ==
  ASSUME TypeOK, Dashboard \/ Caddy \/ Browser \/ World PROVE TypeOK'
<1> USE TypeIs DEF Steps, Happens
<1>1. Rest /\ proc \in Procs
  OBVIOUS
<1>2. ASSUME NEW p \in Workers, Upload(p) \/ Revert(p) PROVE TypeOK'
  <2>1. p \in Processes
    BY DEF Processes
  <2>2. proc' \in Procs
    BY <1>2, <2>1, StepsSimple
  <2>3. mixed' \in BOOLEAN
    BY <1>2 DEF Upload, Revert, Takes
  <2>4. Rest'
    BY <1>1, <1>2, <2>1, <2>3 DEF Upload, Revert, Asked, Calm, Takes, Rest
  <2> QED
    BY <2>2, <2>4
<1>3. ASSUME NEW p \in Workers, Restore(p) PROVE TypeOK'
  <2>1. p \in Processes
    BY DEF Processes
  <2>2. proc' \in Procs
    BY <1>3, <2>1, StepsRestore
  <2>3. Rest'
    BY <1>1, <1>3 DEF Restore, Asked, Calm, Rest
  <2> QED
    BY <2>2, <2>3
<1>4. CASE CaddyReloads
  <2>1. phone' \in {phone, ca.crt} /\ ca.crt \in Marks
    BY <1>1, <1>4 DEF CaddyReloads, Download, Rest
  <2> QED
    BY <1>1, <1>4, <2>1 DEF CaddyReloads, Rest
<1>5. CASE KioskStarts
  BY <1>1, <1>5 DEF KioskStarts, Rest
<1>6. CASE CaddyRestarts
  BY <1>1, <1>6 DEF CaddyRestarts, Rest
<1>7. CASE NamesChange
  <2>1. torn' \in BOOLEAN /\ names' \in {0, 1}
    BY <1>1, <1>7 DEF NamesChange, Rest, Broken
  <2> QED
    BY <1>1, <1>7, <2>1 DEF NamesChange, Rest
<1>8. CASE Age
  BY <1>1, <1>8 DEF Age, Rest
<1>9. ASSUME NEW p \in Processes, Killed(p) PROVE TypeOK'
  <2>1. proc' \in Procs
    BY <1>9, StepsKilled
  <2>2. torn' \in BOOLEAN /\ halved' \in BOOLEAN
    BY <1>1, <1>9 DEF Killed
  <2>3. lock' \in {NONE, lock}
    BY <1>9 DEF Killed
  <2>4. Rest'
    BY <1>1, <1>9, <2>2, <2>3 DEF Killed, Rest
  <2> QED
    BY <2>1, <2>4
<1> QED
  BY <1>2, <1>3, <1>4, <1>5, <1>6, <1>7, <1>8, <1>9 DEF Dashboard, Caddy, Browser, World

LEMMA TypedNext == TypeOK /\ [Next]_vars => TypeOK'
<1>1. TypeOK /\ Next => TypeOK'
  BY TypedWorks, TypedWorld DEF Next, Process
<1>2. TypeOK /\ UNCHANGED vars => TypeOK'
  BY DEF vars, TypeOK
<1> QED
  BY <1>1, <1>2

\* Type correctness: files, stems and every process's place are what the code knows.
THEOREM Typed == Spec => []TypeOK
BY InitTyped, TypedNext, PTL DEF Spec

(***************************************************************************)
(* The lock, and the device's own certificates.                            *)
(***************************************************************************)
\* The steps of who has the lock, and those that take it.
Writes(p) ==
  \/ CaKey(p) \/ CaOpened(p) \/ CaWritten(p)
  \/ \E n \in Own : IssueKey(p, n)
  \/ IssueCrt(p)
  \/ CopyKey(p, "net", Network) \/ CopyKey(p, "kiosk_copy", Kiosk) \/ CopyCrt(p)
  \/ WriteCaddyfile(p) \/ Cleanup(p)
  \/ CustomKey(p) \/ CustomCrt(p) \/ DropCrt(p) \/ DropKey(p)
Begins(p)   == Ensures(p) \/ Upload(p) \/ Revert(p)
Restores(p) == Restore(p) \/ \E file \in Copied : Copies(p, file)
Outside     == CaddyReloads \/ CaddyRestarts \/ KioskStarts \/ NamesChange \/ Age

LEMMA NextIs ==
  Next => /\ ~torn /\ ~mixed
          /\ Outside \/ \E p \in Processes : Writes(p) \/ Begins(p) \/ Restores(p) \/ Killed(p)
BY DEF Next, Process, Dashboard, Caddy, Browser, World, Followed, Works, Writes, Begins, Restores, Outside,
       Processes, Own

\* Who writes holds the lock, and nobody else writes.
LEMMA WritesAlone ==
  ASSUME TypeOK, Locking, NEW p \in Processes, Writes(p)
  PROVE  /\ Working(p) /\ lock = p /\ \A q \in Processes \ {p} : ~Working(q)
         /\ Steps(p)
         /\ (lock' = lock /\ Working(p)') \/ (lock' = NONE /\ proc'[p].at = "idle")
         /\ UNCHANGED <<world, gaps>>
<1>1. Working(p) => lock = p /\ \A q \in Processes \ {p} : ~Working(q)
  BY DEF Locking
<1>2. CASE CaKey(p) \/ CaOpened(p) \/ CaWritten(p)
  <2>1. Working(p) /\ Steps(p) /\ lock' = lock /\ UNCHANGED <<world, gaps>>
    BY <1>2, StepsSimple DEF CaKey, CaOpened, CaWritten, At, Working
  <2>2. proc'[p].at \in {"ca_opened", "ca_written", "server"}
    <3>1. PICK at \in {"ca_opened", "ca_written", "server"} : Goes(p, at)
      BY <1>2 DEF CaKey, CaOpened, CaWritten
    <3>2. at \in Places
      BY PlacesAre
    <3> QED
      BY <3>1, <3>2, MovesAt
  <2> QED
    BY <1>1, <2>1, <2>2 DEF Working
<1>3. CASE CustomKey(p) \/ CustomCrt(p) \/ DropCrt(p) \/ DropKey(p)
  <2>1. Working(p) /\ Steps(p) /\ lock' = lock /\ UNCHANGED <<world, gaps>>
    BY <1>3, StepsSimple DEF CustomKey, CustomCrt, DropCrt, DropKey, At, Working
  <2>2. proc'[p].at \in {"custom_crt", "net", "drop_key"}
    <3>1. PICK at \in {"custom_crt", "net", "drop_key"} : Goes(p, at)
      BY <1>3 DEF CustomKey, CustomCrt, DropCrt, DropKey
    <3>2. at \in Places
      BY PlacesAre
    <3> QED
      BY <3>1, <3>2, MovesAt
  <2> QED
    BY <1>1, <2>1, <2>2 DEF Working
<1>4. ASSUME NEW n \in Own, IssueKey(p, n)
      PROVE  /\ Working(p) /\ Steps(p) /\ UNCHANGED <<world, gaps>>
             /\ (lock' = lock /\ Working(p)') \/ (lock' = NONE /\ proc'[p].at = "idle")
  <2>1. Working(p) /\ UNCHANGED <<world, gaps>>
    BY <1>4 DEF IssueKey, At, Working, Own
  <2>2. Steps(p) /\ Following(n) \in {"kiosk", "net"}
    BY <1>4, StepsIssue
  <2>3. \/ lock' = lock /\ proc'[p].at \in {"kiosk", "net", "issued"}
        \/ lock' = NONE /\ proc'[p].at = "idle"
    BY <1>4, StepsIssue
  <2> QED
    BY <2>1, <2>2, <2>3 DEF Working
<1>5. CASE IssueCrt(p)
  <2>1. Working(p) /\ lock' = lock /\ UNCHANGED <<world, gaps>>
    BY <1>5 DEF IssueCrt, At, Working
  <2>3. Steps(p) /\ \E at \in {"kiosk", "net"} : proc'[p] = [at |-> at, named |-> {}]
    BY <1>5, StepsIssued
  <2>2. Steps(p) /\ proc'[p].at \in {"kiosk", "net"}
    BY <2>3
  <2> QED
    BY <1>1, <2>1, <2>2 DEF Working
<1>6. ASSUME NEW at \in {"net", "kiosk_copy"}, NEW stem \in Stems, CopyKey(p, at, stem)
      PROVE  Working(p) /\ Steps(p) /\ lock' = lock /\ UNCHANGED <<world, gaps>> /\ Working(p)'
  <2>1. Working(p) /\ lock' = lock /\ UNCHANGED <<world, gaps>>
    BY <1>6 DEF CopyKey, At, Working
  <2>2. Steps(p) /\ proc'[p].at \in {"copied", "kiosk_copy", "caddyfile"}
    BY <1>6, StepsCopy
  <2> QED
    BY <2>1, <2>2 DEF Working
<1>7. CASE CopyCrt(p)
  <2>1. Working(p) /\ lock' = lock /\ UNCHANGED <<world, gaps>>
    BY <1>7 DEF CopyCrt, At, Working
  <2>3. Steps(p) /\ proc'[p] = [at |-> After(proc[p].stem), named |-> proc[p].named]
        /\ After(proc[p].stem) \in {"kiosk_copy", "caddyfile"}
    BY <1>7, StepsCopied
  <2>2. Steps(p) /\ proc'[p].at \in {"kiosk_copy", "caddyfile"}
    BY <2>3
  <2> QED
    BY <1>1, <2>1, <2>2 DEF Working
<1>8. CASE WriteCaddyfile(p)
  <2>1. Working(p) /\ UNCHANGED <<world, gaps>>
    BY <1>8 DEF WriteCaddyfile, At, Working
  <2>3. /\ Steps(p)
        /\ \/ lock' = NONE /\ proc'[p] = Idle
           \/ lock' = lock /\ proc'[p] = [at |-> "cleanup", named |-> proc[p].named]
    BY <1>8, StepsWrite
  <2>2. Steps(p) /\ ((lock' = lock /\ proc'[p].at = "cleanup") \/ (lock' = NONE /\ proc'[p].at = "idle"))
    BY <2>3 DEF Idle
  <2> QED
    BY <1>1, <2>1, <2>2 DEF Working
<1>9. CASE Cleanup(p)
  <2>1. Working(p) /\ UNCHANGED <<world, gaps>>
    BY <1>9 DEF Cleanup, At, Working
  <2>2. Steps(p) /\ lock' = NONE /\ proc'[p].at = "idle"
    BY <1>9, StepsCleanup DEF Idle
  <2> QED
    BY <1>1, <2>1, <2>2
<1> QED
  BY <1>1, <1>2, <1>3, <1>4, <1>5, <1>6, <1>7, <1>8, <1>9, StemsTyped DEF Writes

LEMMA BeginsFree ==
  ASSUME TypeOK, Locking, NEW p \in Processes, Begins(p)
  PROVE  /\ lock = NONE /\ lock' = p /\ (\A q \in Processes : ~Working(q))
         /\ Steps(p) /\ proc'[p].at \in {"ca", "custom", "revert"}
         /\ proc'[p].at = "ca" \/ caddyfile # {}
         /\ UNCHANGED <<files, served, nss, phone, names, now, torn, halved, restored, made>>
         /\ mixed' = (mixed \/ \E other \in Processes : Copying(other))
<1>1. /\ lock = NONE /\ lock' = p
      /\ mixed' = (mixed \/ \E other \in Processes : Copying(other))
      /\ UNCHANGED <<files, served, nss, phone, names, now, torn, halved, restored, made>>
  BY DEF Begins, Ensures, Upload, Revert, Takes, Asked, Calm
<1>2. Steps(p)
  BY StepsSimple DEF Begins
<1>3. proc'[p].at \in {"ca", "custom", "revert"} /\ (proc'[p].at = "ca" \/ caddyfile # {})
  <2>1. PICK at \in {"ca", "custom", "revert"} : Goes(p, at) /\ (at = "ca" \/ caddyfile # {})
    BY DEF Begins, Ensures, Upload, Revert, Takes, Asked
  <2>2. at \in Places
    BY PlacesAre
  <2> QED
    BY <2>1, <2>2, MovesAt
<1>4. \A q \in Processes : ~Working(q)
  BY <1>1 DEF Locking, Processes
<1> QED
  BY <1>1, <1>2, <1>3, <1>4

LEMMA RestoresFree ==
  ASSUME TypeOK, NEW p \in Processes, Restores(p)
  PROVE  /\ lock' = lock /\ Steps(p) /\ ~Working(p) /\ proc'[p].at = "restore"
         /\ Restore(p) => caddyfile # {}
<1>1. CASE Restore(p)
  <2>1. lock' = lock /\ ~Working(p) /\ caddyfile # {}
    BY <1>1 DEF Restore, Asked, At, Working
  <2>2. Steps(p) /\ proc'[p].at = "restore"
    BY <1>1, StepsRestore
  <2> QED
    BY <2>1, <2>2
<1>2. ASSUME NEW file \in Copied, Copies(p, file)
      PROVE  lock' = lock /\ Steps(p) /\ ~Working(p) /\ proc'[p].at = "restore" /\ ~Restore(p)
  <2>1. lock' = lock /\ ~Working(p) /\ ~Restore(p)
    BY <1>2 DEF Copies, Copying, Restore, Asked, At, Working
  <2>2. Steps(p) /\ proc'[p].at = "restore"
    BY <1>2, StepsCopies
  <2> QED
    BY <2>1, <2>2
<1> QED
  BY <1>1, <1>2 DEF Restores

LEMMA OutsideKeeps ==
  ASSUME Outside
  PROVE  UNCHANGED <<files, lock, proc, made, halved, mixed, restored>> /\ (served' \in {served, caddyfile, {}})
BY DEF Outside, CaddyReloads, CaddyRestarts, KioskStarts, NamesChange, Age

LEMMA LockingStep == ASSUME TypeOK, Locking, Next PROVE Locking'
<1>1. CASE Outside
  BY <1>1, OutsideKeeps DEF Locking, Working
<1>2. ASSUME NEW p \in Processes, Writes(p) PROVE Locking'
  BY <1>2, WritesAlone DEF Locking, Working, Steps
<1>3. ASSUME NEW p \in Processes, Begins(p) PROVE Locking'
  BY <1>3, BeginsFree DEF Locking, Working, Steps
<1>4. ASSUME NEW p \in Processes, Restores(p) PROVE Locking'
  BY <1>4, RestoresFree DEF Locking, Working, Steps
<1>5. ASSUME NEW p \in Processes, Killed(p) PROVE Locking'
  <2>1. Steps(p) /\ proc'[p].at = "idle" /\ (lock' = lock \/ (lock = p /\ lock' = NONE))
    <3>1. Steps(p) /\ proc'[p] = Idle
      BY <1>5, StepsKilled
    <3>2. lock' = lock \/ (lock = p /\ lock' = NONE)
      BY <1>5 DEF Killed
    <3> QED
      BY <3>1, <3>2 DEF Idle
  <2> QED
    BY <2>1 DEF Locking, Working, Steps
<1> QED
  BY <1>1, <1>2, <1>3, <1>4, <1>5, NextIs

\* What a step does to a pair of the device's own: a new key, its certificate, the restored pair.
LEMMA OwnPairs ==
  ASSUME TypeOK, Next, NEW n \in Own
  PROVE  \/ pair'[n] = pair[n]
         \/ pair'[n].key \in Nat /\ pair'[n].crt = pair[n].crt
         \/ pair'[n].key = pair[n].key /\ pair'[n].crt \in Crts
         \/ pair'[n] = OldPair[n]
<1> USE DEF Own
<1>1. pair \in [Own \cup {"custom"} -> Pairs] /\ made \in Nat
  BY DEF TypeOK
<1>2. ASSUME NEW p \in Processes, NEW m \in Own, IssueKey(p, m)
      PROVE  pair'[n] = pair[n] \/ (pair'[n].key \in Nat /\ pair'[n].crt = pair[n].crt)
  <2>1. pair' = pair \/ pair' = [pair EXCEPT ![m].key = made]
    BY <1>2 DEF IssueKey
  <2> QED
    BY <1>1, <2>1 DEF Pairs
<1>3. ASSUME NEW p \in Processes, IssueCrt(p)
      PROVE  pair'[n] = pair[n] \/ (pair'[n].key = pair[n].key /\ pair'[n].crt \in Crts)
  <2>1. proc[p].crt \in Crts /\ proc[p].for \in Own
    <3>1. proc[p] \in Issuing
      BY <1>3, StepsIssued
    <3> QED
      BY <3>1 DEF Issuing
  <2>2. pair' = [pair EXCEPT ![proc[p].for].crt = proc[p].crt]
    BY <1>3 DEF IssueCrt
  <2> QED
    BY <1>1, <2>1, <2>2 DEF Pairs
<1>4. ASSUME NEW p \in Processes, Writes(p), ~IssueCrt(p), ~\E m \in Own : IssueKey(p, m)
      PROVE  pair'[n] = pair[n]
  <2>1. CASE CustomKey(p) \/ CustomCrt(p) \/ DropCrt(p) \/ DropKey(p)
    BY <1>1, <2>1 DEF CustomKey, CustomCrt, DropCrt, DropKey
  <2>2. CASE ~(CustomKey(p) \/ CustomCrt(p) \/ DropCrt(p) \/ DropKey(p))
    BY <1>4, <2>2 DEF Writes, CaKey, CaOpened, CaWritten, CopyKey, CopyCrt, WriteCaddyfile, Cleanup
  <2> QED
    BY <2>1, <2>2
<1>5. ASSUME NEW p \in Processes, Begins(p) \/ Killed(p) \/ Restore(p) PROVE pair' = pair
  BY <1>5 DEF Begins, Ensures, Upload, Revert, Killed, Restore
<1>6. ASSUME NEW p \in Processes, NEW file \in Copied, Copies(p, file)
      PROVE  pair'[n] \in {pair[n], OldPair[n]}
  BY <1>1, <1>6, OldTyped DEF Copies
<1>7. CASE Outside
  BY <1>7, OutsideKeeps
<1> QED
  BY <1>2, <1>3, <1>4, <1>5, <1>6, <1>7, NextIs DEF Restores

LEMMA OwnStay ==
  ASSUME TypeOK, Next, NEW n \in Own
  PROVE  /\ pair[n].key # NONE => pair'[n].key # NONE
         /\ pair[n].crt # NONE => pair'[n].crt # NONE
         /\ Complete(n) => Complete(n)'
<1>1. OldPair[n].key \in Int /\ OldPair[n].crt \in Crts
  BY OldTyped
<1>2. /\ pair[n].key # NONE => pair'[n].key # NONE
      /\ pair[n].crt # NONE => pair'[n].crt # NONE
  BY <1>1, OwnPairs
<1> QED
  BY <1>2 DEF Complete

LEMMA PlacesApart ==
  ASSUME NEW p \in Processes
  PROVE  /\ ~Working(p) /\ proc[p].at # "restore" => ~PastServer(p) /\ ~PastKiosk(p)
         /\ proc[p].at = "restore" => PastServer(p) /\ PastKiosk(p)
BY DEF Working, PastServer, PastKiosk

\* The steps behind ensure()'s kiosk certificate, and those of the dashboard.
Late(p) ==
  \/ CopyKey(p, "net", Network) \/ CopyKey(p, "kiosk_copy", Kiosk) \/ CopyCrt(p)
  \/ WriteCaddyfile(p) \/ Cleanup(p)
  \/ CustomKey(p) \/ CustomCrt(p) \/ DropCrt(p) \/ DropKey(p)

LEMMA LateWrites ==
  ASSUME TypeOK, NEW p \in Processes, Late(p)
  PROVE  PastServer(p) /\ PastKiosk(p) /\ proc'[p].at # "issued"
<1>1. PastServer(p) /\ PastKiosk(p)
  BY DEF Late, CopyKey, CopyCrt, WriteCaddyfile, Cleanup, CustomKey, CustomCrt, DropCrt, DropKey, At,
         PastServer, PastKiosk
<1>2. ASSUME NEW at \in {"net", "kiosk_copy"}, NEW stem \in Stems, CopyKey(p, at, stem)
      PROVE  proc'[p].at # "issued"
  BY <1>2, StepsCopy
<1>3. CASE CopyCrt(p)
  <2>1. /\ proc'[p] = [at |-> After(proc[p].stem), named |-> proc[p].named]
        /\ After(proc[p].stem) \in {"kiosk_copy", "caddyfile"}
    BY <1>3, StepsCopied
  <2>2. proc'[p].at = After(proc[p].stem)
    BY <2>1
  <2> QED
    BY <1>1, <2>1, <2>2
<1>4. CASE WriteCaddyfile(p)
  <2>1. proc'[p] \in {Idle, [at |-> "cleanup", named |-> proc[p].named]}
    BY <1>4, StepsWrite
  <2> QED
    BY <1>1, <2>1 DEF Idle
<1>5. CASE Cleanup(p)
  <2>1. proc'[p] = Idle
    BY <1>5, StepsCleanup
  <2> QED
    BY <1>1, <2>1 DEF Idle
<1>6. CASE CustomKey(p) \/ CustomCrt(p) \/ DropCrt(p) \/ DropKey(p)
  <2>1. PICK at \in {"custom_crt", "net", "drop_key"} : Goes(p, at)
    BY <1>6 DEF CustomKey, CustomCrt, DropCrt, DropKey
  <2>2. at \in Places
    BY PlacesAre
  <2> QED
    BY <1>1, <2>1, <2>2, MovesAt
<1> QED
  BY <1>1, <1>2, <1>3, <1>4, <1>5, <1>6, StemsTyped DEF Late

\* Nobody gets past the server certificate, or past the kiosk's, unless it is there.
LEMMA PastStep ==
  ASSUME TypeOK, Stocked, Next, NEW p \in Processes, Steps(p),
         Writes(p) \/ Begins(p) \/ Restores(p) \/ Killed(p), Locking
  PROVE  /\ PastServer(p)' => Complete("server")'
         /\ PastKiosk(p)' => Complete("kiosk")'
         /\ proc'[p].at = "issued" => pair'[proc'[p].for].key # NONE
<1>1. \A n \in Own : Complete(n) => Complete(n)'
  BY OwnStay
<1>2. /\ PastServer(p) \/ caddyfile # {} => Complete("server")'
      /\ PastKiosk(p) \/ caddyfile # {} => Complete("kiosk")'
  BY <1>1 DEF Stocked, Own
<1>3. CASE Begins(p)
  BY <1>2, <1>3, BeginsFree DEF PastServer, PastKiosk
<1>4. CASE Restores(p)
  <2>1. proc'[p].at = "restore" /\ (caddyfile # {} \/ proc[p].at = "restore")
    <3>1. CASE Restore(p)
      BY <1>4, <3>1, RestoresFree
    <3>2. CASE \E file \in Copied : Copies(p, file)
      <4>1. proc[p].at = "restore"
        BY <3>2 DEF Copies, Copying, At
      <4> QED
        BY <1>4, <4>1, RestoresFree
    <3> QED
      BY <1>4, <3>1, <3>2 DEF Restores
  <2> QED
    BY <1>2, <2>1, PlacesApart
<1>5. CASE Killed(p)
  <2>1. proc'[p] = Idle
    BY <1>5, StepsKilled
  <2> QED
    BY <2>1 DEF Idle, PastServer, PastKiosk
<1>6. ASSUME NEW n \in Own, IssueKey(p, n)
      PROVE  /\ PastServer(p)' => Complete("server")'
             /\ PastKiosk(p)' => Complete("kiosk")'
             /\ proc'[p].at = "issued" => pair'[proc'[p].for].key # NONE
  <2>1. proc[p].at = n
    BY <1>6 DEF IssueKey, At
  <2>2. n = "kiosk" => PastServer(p)
    BY <2>1 DEF PastServer
  <2>3. CASE ~NeedsIssue(n) /\ proc'[p] = [at |-> Following(n), named |-> {}]
    <3>1. Complete(n)
      BY <2>3 DEF NeedsIssue, Complete
    <3>2. proc'[p].at = IF n = "server" THEN "kiosk" ELSE "net"
      BY <2>3 DEF Following
    <3> QED
      BY <1>1, <1>2, <2>2, <3>1, <3>2 DEF PastServer, PastKiosk, Own
  <2>4. CASE proc'[p] = Idle
    BY <2>4 DEF Idle, PastServer, PastKiosk
  <2>5. CASE /\ pair' = [pair EXCEPT ![n].key = made]
             /\ proc'[p] = [at |-> "issued", for |-> n,
                            crt |-> [key |-> made, ca |-> ca.crt, names |-> Wanted(n), born |-> now]]
    <3>1. proc'[p].at = "issued" /\ proc'[p].for = n
      BY <2>5
    <3>2. pair'[n].key = made /\ made # NONE
      BY <2>5 DEF TypeOK, Pairs
    <3> QED
      BY <1>2, <2>2, <3>1, <3>2 DEF PastServer, PastKiosk, Own
  <2> QED
    BY <1>6, <2>3, <2>4, <2>5, StepsIssue
<1>7. CASE IssueCrt(p)
  <2>1. proc[p] \in Issuing /\ proc[p].at = "issued"
        /\ proc'[p] = [at |-> Following(proc[p].for), named |-> {}]
        /\ Following(proc[p].for) = IF proc[p].for = "server" THEN "kiosk" ELSE "net"
    <3>1. proc[p].at = "issued"
      BY <1>7 DEF IssueCrt, At
    <3> QED
      BY <1>7, <3>1, StepsIssued
  <2>2. proc'[p].at = IF proc[p].for = "server" THEN "kiosk" ELSE "net"
    BY <2>1
  <2>3. PICK n \in Own : n = proc[p].for
    BY <2>1 DEF Issuing
  <2>4. Complete(n)'
    <3>1. pair'[n].crt = proc[p].crt /\ proc[p].crt # NONE /\ pair'[n].key = pair[n].key
      BY <1>7, <2>1, <2>3 DEF IssueCrt, TypeOK, Pairs, Issuing
    <3>2. pair[n].key # NONE
      BY <2>1, <2>3 DEF Stocked
    <3> QED
      BY <3>1, <3>2 DEF Complete
  <2>5. n = "kiosk" => PastServer(p)
    BY <2>1, <2>3 DEF PastServer
  <2> QED
    BY <1>2, <2>2, <2>3, <2>4, <2>5 DEF PastServer, PastKiosk, Own
<1>8. CASE CaKey(p) \/ CaOpened(p) \/ CaWritten(p)
  <2>1. PICK at \in {"ca_opened", "ca_written", "server"} : Goes(p, at)
    BY <1>8 DEF CaKey, CaOpened, CaWritten
  <2>2. proc'[p].at = at
    BY <2>1, MovesAt, PlacesAre
  <2> QED
    BY <2>2 DEF PastServer, PastKiosk
<1>9. CASE Late(p)
  BY <1>2, <1>9, LateWrites
<1> QED
  BY <1>3, <1>4, <1>5, <1>6, <1>7, <1>8, <1>9 DEF Writes, Late

LEMMA InitBase == Init => BaseInv
BY InitTyped DEF Init, BaseInv, Locking, Working, Stocked, PastServer, PastKiosk, Idle

LEMMA StepsOfOne ==
  ASSUME TypeOK, Locking, NEW p \in Processes, Writes(p) \/ Begins(p) \/ Restores(p) \/ Killed(p)
  PROVE  Steps(p)
BY WritesAlone, BeginsFree, RestoresFree, StepsKilled

\* Caddy runs with what a Caddyfile named; a Caddyfile is written behind the certificates only.
LEMMA StockedStep ==
  ASSUME TypeOK, Locking, Stocked, Next PROVE Stocked'
<1>1. \A n \in Own : /\ Complete(n) => Complete(n)'
                     /\ pair[n].key # NONE => pair'[n].key # NONE
  BY OwnStay
<1>2. CASE Outside
  <2>1. proc' = proc /\ caddyfile' = caddyfile /\ served' \in {served, caddyfile, {}} /\ pair' = pair
    BY <1>2, OutsideKeeps
  <2> QED
    BY <2>1 DEF Stocked, PastServer, PastKiosk, Complete
<1>3. ASSUME NEW p \in Processes, Writes(p) \/ Begins(p) \/ Restores(p) \/ Killed(p) PROVE Stocked'
  <2>1. Steps(p)
    BY <1>3, StepsOfOne
  <2>2. /\ PastServer(p)' => Complete("server")'
        /\ PastKiosk(p)' => Complete("kiosk")'
        /\ proc'[p].at = "issued" => pair'[proc'[p].for].key # NONE
    BY <1>3, <2>1, PastStep
  <2>3. ASSUME NEW q \in Processes, q # p
        PROVE  /\ PastServer(q)' = PastServer(q) /\ PastKiosk(q)' = PastKiosk(q)
               /\ proc'[q].at = "issued" => pair'[proc'[q].for].key # NONE
    <3>1. proc'[q] = proc[q]
      BY <2>1, <2>3 DEF Steps
    <3>2. CASE proc[q].at = "issued"
      <4>1. PICK n \in Own : n = proc[q].for
        BY <3>2, Shapes DEF Issuing
      <4> QED
        BY <1>1, <3>1, <4>1 DEF Stocked, PastServer, PastKiosk
    <3> QED
      BY <3>1, <3>2 DEF PastServer, PastKiosk
  <2>4. served' = served /\ (caddyfile' # {} => caddyfile # {} \/ (PastServer(p) /\ PastKiosk(p)))
    <3>1. CASE Writes(p)
      <4>1. served' = served
        BY <3>1, WritesAlone
      <4>2. CASE WriteCaddyfile(p)
        BY <4>1, <4>2, LateWrites DEF Late
      <4>3. CASE ~WriteCaddyfile(p)
        BY <3>1, <4>1, <4>3 DEF Writes, CaKey, CaOpened, CaWritten, IssueKey, IssueCrt, CopyKey, CopyCrt, Cleanup,
                                CustomKey, CustomCrt, DropCrt, DropKey
      <4> QED
        BY <4>2, <4>3
    <3>2. CASE Begins(p)
      BY <3>2, BeginsFree
    <3>3. CASE Restore(p)
      BY <3>3 DEF Restore, Asked, Calm
    <3>4. ASSUME NEW file \in Copied, Copies(p, file) PROVE served' = served /\ PastServer(p) /\ PastKiosk(p)
      BY <3>4 DEF Copies, Copying, At, PastServer, PastKiosk
    <3>5. CASE Killed(p)
      BY <3>5 DEF Killed
    <3> QED
      BY <1>3, <3>1, <3>2, <3>3, <3>4, <3>5 DEF Restores
  <2>5. caddyfile' # {} \/ served' # {} => Complete("server")' /\ Complete("kiosk")'
    BY <1>1, <2>4 DEF Stocked, Own
  <2>6. /\ (\E q \in Processes : PastServer(q)') => Complete("server")'
        /\ (\E q \in Processes : PastKiosk(q)') => Complete("kiosk")'
        /\ \A q \in Processes : proc'[q].at = "issued" => pair'[proc'[q].for].key # NONE
    BY <1>1, <2>2, <2>3 DEF Stocked, Own
  <2> QED
    BY <2>5, <2>6 DEF Stocked
<1> QED
  BY <1>2, <1>3, NextIs

LEMMA BaseNext == BaseInv /\ [Next]_vars => BaseInv'
<1>1. BaseInv /\ Next => BaseInv'
  BY TypedNext, LockingStep, StockedStep DEF BaseInv
<1>2. BaseInv /\ UNCHANGED vars => BaseInv'
  BY TypedNext DEF vars, BaseInv, Locking, Working, Stocked, Complete, PastServer, PastKiosk
<1> QED
  BY <1>1, <1>2

(***************************************************************************)
(* The CA stays.                                                           *)
(***************************************************************************)
\* As long as there is no CA certificate nothing depends on one.
LEMMA FreshCa ==
  ASSUME BaseInv, OneCa, ca.crt \notin Int
  PROVE  /\ caddyfile = {} /\ served = {} /\ phone = NONE
         /\ \A n \in Own : pair[n].crt = NONE
         /\ \A p \in Processes : ~PastServer(p) /\ proc[p].at \notin {"issued", "server"}
<1>1. \A n \in Own : pair[n].crt = NONE
  BY DEF OneCa
<1>2. ~Complete("server")
  BY <1>1 DEF Complete, Own
<1> QED
  BY <1>1, <1>2 DEF OneCa, Signs, BaseInv, Stocked

\* While a process writes, nobody else is anywhere.
LEMMA OthersIdle ==
  ASSUME BaseInv, OneCa, NEW p \in Processes, Writes(p)
  PROVE  \A q \in Processes \ {p} : proc[q].at = "idle" /\ proc'[q] = proc[q]
BY WritesAlone DEF BaseInv, OneCa, Signs, Working, Steps

LEMMA IdleSigns == ASSUME NEW q \in Processes, proc'[q].at = "idle" PROVE Signs(q)'
BY DEF Signs

\* ensure()'s first step: a CA is made only while there is none.
LEMMA CaMoves ==
  ASSUME BaseInv, OneCa, NEW p \in Processes, CaKey(p) \/ CaOpened(p) \/ CaWritten(p)
  PROVE  OneCa'
<1>1. Writes(p)
  BY DEF Writes
<1>2. \A q \in Processes \ {p} : proc[q].at = "idle" /\ Signs(q)'
  BY <1>1, OthersIdle, IdleSigns
<1>3. TypeOK /\ ca \in [key : Marks, crt : Marks] /\ made \in Nat
  BY DEF BaseInv, TypeOK
<1>4. UNCHANGED <<pair, caddyfile, served, phone>>
  BY DEF CaKey, CaOpened, CaWritten
<1>5. proc[p].at # "ca_written" => ca.crt # EMPTY
  BY <1>2 DEF OneCa
<1>6. CASE CaKey(p) /\ ~NeedsCa
  <2>1. ca' = ca /\ proc'[p].at = "server" /\ proc[p].at = "ca"
    <3>1. ca' = ca /\ Goes(p, "server") /\ proc[p].at = "ca"
      BY <1>6 DEF CaKey, At
    <3> QED
      BY <1>3, <3>1, MovesAt, PlacesAre
  <2>2. ca.crt \in Int
    BY <1>3, <1>5, <1>6, <2>1 DEF NeedsCa, Marks
  <2>3. Signs(p)'
    BY <2>1, <2>2 DEF Signs
  <2> QED
    BY <1>2, <1>4, <1>5, <2>1, <2>3 DEF OneCa, Signed
<1>7. CASE CaKey(p) /\ NeedsCa
  <2>1. ca.crt = NONE
    BY <1>7 DEF NeedsCa, OneCa
  <2>2. ca'.key = made /\ ca'.crt = NONE /\ proc'[p].at = "ca_opened"
    <3>1. ca' = [ca EXCEPT !.key = made] /\ Goes(p, "ca_opened")
      BY <1>7 DEF CaKey
    <3> QED
      BY <1>3, <2>1, <3>1, MovesAt, PlacesAre
  <2>3. made # NONE /\ made # EMPTY
    BY <1>3
  <2>4. Signs(p)'
    BY <2>2, <2>3 DEF Signs
  <2> QED
    BY <1>2, <1>4, <2>1, <2>2, <2>3, <2>4, FreshCa DEF OneCa
<1>8. CASE CaOpened(p)
  <2>1. ca.crt = NONE /\ ca.key # NONE /\ ca.key # EMPTY
    BY <1>8 DEF CaOpened, At, OneCa, Signs
  <2>2. ca'.key = ca.key /\ ca'.crt = EMPTY /\ proc'[p].at = "ca_written"
    <3>1. ca' = [ca EXCEPT !.crt = EMPTY] /\ Goes(p, "ca_written")
      BY <1>8 DEF CaOpened
    <3> QED
      BY <1>3, <3>1, MovesAt, PlacesAre
  <2>3. Signs(p)'
    BY <2>2 DEF Signs
  <2> QED
    BY <1>2, <1>4, <2>1, <2>2, <2>3, FreshCa DEF OneCa
<1>9. CASE CaWritten(p)
  <2>1. ca.crt = EMPTY /\ ca.key \in Int
    <3>1. ca.crt = EMPTY /\ ca.key # NONE /\ ca.key # EMPTY
      BY <1>9 DEF CaWritten, At, OneCa, Signs
    <3> QED
      BY <1>3, <3>1 DEF Marks
  <2>2. ca'.key = ca.key /\ ca'.crt = ca.key /\ proc'[p].at = "server"
    <3>1. ca' = [ca EXCEPT !.crt = ca.key] /\ Goes(p, "server")
      BY <1>9 DEF CaWritten
    <3> QED
      BY <1>3, <3>1, MovesAt, PlacesAre
  <2>3. Signs(p)'
    BY <2>1, <2>2 DEF Signs
  <2> QED
    BY <1>2, <1>4, <2>1, <2>2, <2>3, FreshCa DEF OneCa
<1> QED
  BY <1>6, <1>7, <1>8, <1>9

\* The stems named are of certificates that the CA, or nobody, signed.
LEMMA StemsSigned ==
  ASSUME BaseInv, OneCa, NEW p \in Processes
  PROVE  /\ proc[p].at = "net" => Signed(Network)
         /\ proc[p].at = "kiosk_copy" => Signed(Kiosk)
<1>1. \A n \in Own : Complete(n) => pair[n].crt.ca = ca.crt
  BY DEF OneCa, Complete
<1>2. proc[p].at = "net" => Complete("server")
  BY DEF BaseInv, Stocked, PastServer
<1>3. proc[p].at = "kiosk_copy" => Complete("kiosk")
  BY DEF BaseInv, Stocked, PastKiosk
<1>4. \A port \in {"net", "kiosk"}, n \in Own \cup {"custom"} : Stem(port, n).crt = pair[n].crt
  BY DEF Stem
<1>5. HasCustom => pair["custom"].crt.ca = NONE
  BY DEF HasCustom, OneCa
<1>6. Network.crt = IF HasCustom THEN pair["custom"].crt ELSE pair["server"].crt
  BY <1>4 DEF Network, Own
<1>7. Kiosk.crt = pair["kiosk"].crt
  BY <1>4 DEF Kiosk, Own
<1> QED
  BY <1>1, <1>2, <1>3, <1>5, <1>6, <1>7 DEF Signed, Own

LEMMA WritesSigned ==
  ASSUME BaseInv, OneCa, NEW p \in Processes, Writes(p)
  PROVE  OneCa'
<1>1. \A q \in Processes \ {p} : proc[q].at = "idle" /\ Signs(q)'
  BY OthersIdle, IdleSigns
<1>2. TypeOK /\ Locking /\ ca \in [key : Marks, crt : Marks] /\ made \in Nat /\ pair \in [Own \cup {"custom"} -> Pairs]
  BY DEF BaseInv, TypeOK
<1>3. served' = served /\ phone' = phone
  BY <1>2, WritesAlone
<1>4. CASE CaKey(p) \/ CaOpened(p) \/ CaWritten(p)
  BY <1>4, CaMoves
<1> DEFINE Certified == /\ \A n \in Own : pair[n].crt # NONE => pair[n].crt.ca = ca.crt /\ ca.crt \in Int
                        /\ pair["custom"].crt # NONE => pair["custom"].crt.ca = NONE
<1>5. Certified
  BY DEF OneCa
<1>6. ASSUME ca' = ca, proc[p].at # "ca_written", Signs(p)', Certified', \A stem \in caddyfile' : Signed(stem)
      PROVE  OneCa'
  <2>1. ca.crt # EMPTY
    BY <1>1, <1>6 DEF OneCa
  <2> QED
    BY <1>1, <1>3, <1>6, <2>1 DEF OneCa, Signed
<1>7. \A stem \in caddyfile : Signed(stem)
  BY DEF OneCa
<1>8. ASSUME NEW n \in Own, IssueKey(p, n) PROVE OneCa'
  <2>1. ca' = ca /\ caddyfile' = caddyfile /\ proc[p].at = n
    BY <1>8 DEF IssueKey, At
  <2>2. Certified'
    <3>1. \A m \in Own \cup {"custom"} : pair'[m].crt = pair[m].crt
      BY <1>2, <1>8 DEF IssueKey, Pairs
    <3> QED
      BY <1>5, <2>1, <3>1
  <2>3. ca.crt \in Int
    <3>1. CASE n = "server"
      BY <2>1, <3>1 DEF OneCa, Signs
    <3>2. CASE n = "kiosk"
      <4>1. Complete("server")
        BY <2>1, <3>2 DEF BaseInv, Stocked, PastServer
      <4> QED
        BY <4>1 DEF OneCa, Complete, Own
    <3> QED
      BY <3>1, <3>2 DEF Own
  <2>4. Signs(p)'
    <3>1. CASE proc'[p] = Idle
      BY <3>1 DEF Idle, Signs
    <3>2. CASE proc'[p] = [at |-> Following(n), named |-> {}]
      BY <3>2 DEF Following, Signs
    <3>3. CASE proc'[p] = [at |-> "issued", for |-> n,
                           crt |-> [key |-> made, ca |-> ca.crt, names |-> Wanted(n), born |-> now]]
      <4>1. proc'[p].at = "issued" /\ proc'[p].crt.ca = ca.crt
        BY <3>3
      <4> QED
        BY <2>1, <2>3, <4>1 DEF Signs
    <3> QED
      BY <1>2, <1>8, <3>1, <3>2, <3>3, StepsIssue
  <2>5. proc[p].at # "ca_written"
    BY <2>1 DEF Own
  <2> QED
    BY <1>6, <1>7, <2>1, <2>2, <2>4, <2>5
<1>9. CASE IssueCrt(p)
  <2>1. ca' = ca /\ caddyfile' = caddyfile /\ proc[p].at = "issued"
    BY <1>9 DEF IssueCrt, At
  <2>2. proc[p] \in Issuing /\ proc'[p] = [at |-> Following(proc[p].for), named |-> {}]
    BY <1>2, <1>9, StepsIssued
  <2>3. PICK n \in Own : n = proc[p].for
    BY <2>2 DEF Issuing
  <2>4. Certified'
    <3>1. pair'[n].crt = proc[p].crt /\ \A m \in (Own \cup {"custom"}) \ {n} : pair'[m] = pair[m]
      BY <1>2, <1>9, <2>3 DEF IssueCrt, Pairs
    <3>2. proc[p].crt.ca = ca.crt /\ ca.crt \in Int
      BY <2>1 DEF OneCa, Signs
    <3> QED
      BY <1>5, <2>1, <3>1, <3>2 DEF Own
  <2>5. Signs(p)'
    BY <2>2 DEF Following, Signs
  <2> QED
    BY <1>6, <1>7, <2>1, <2>4, <2>5
<1>10. ASSUME NEW at \in {"net", "kiosk_copy"}, NEW stem \in Stems, CopyKey(p, at, stem), Signed(stem) PROVE OneCa'
  <2>1. ca' = ca /\ pair' = pair /\ caddyfile' = caddyfile /\ proc[p].at = at
    BY <1>10 DEF CopyKey, At
  <2>2. \A other \in proc[p].named \cup {stem} : Signed(other)
    BY <1>10, <2>1 DEF OneCa, Signs
  <2>3. \/ proc'[p] = [at |-> After(stem), named |-> proc[p].named \cup {stem}]
        \/ proc'[p] = [at |-> "copied", named |-> proc[p].named \cup {stem}, stem |-> stem]
    <3>1. TypeOK /\ CopyKey(p, at, stem)
      BY <1>2, <1>10
    <3>2. CASE <<stem, "crt">> \in live
      BY <3>1, <3>2, StepsCopy
    <3>3. CASE <<stem, "crt">> \notin live
      BY <3>1, <3>3, StepsCopy
    <3> QED
      BY <3>2, <3>3
  <2>4. proc'[p].named = proc[p].named \cup {stem} /\ proc'[p].at \in {"copied", "kiosk_copy", "caddyfile"}
    BY <2>3 DEF After
  <2>5. Signs(p)'
    BY <2>1, <2>2, <2>4 DEF Signs, Signed
  <2> QED
    BY <1>5, <1>6, <1>7, <2>1, <2>5
<1>11. CASE CopyCrt(p)
  <2>1. ca' = ca /\ pair' = pair /\ caddyfile' = caddyfile /\ proc[p].at = "copied"
    BY <1>11 DEF CopyCrt, At
  <2>2. /\ proc'[p] = [at |-> After(proc[p].stem), named |-> proc[p].named]
        /\ After(proc[p].stem) \in {"kiosk_copy", "caddyfile"}
    BY <1>2, <1>11, StepsCopied
  <2>3. proc'[p].named = proc[p].named /\ proc'[p].at \in {"kiosk_copy", "caddyfile"}
    BY <2>2
  <2>4. Signs(p)'
    BY <2>1, <2>3 DEF Signs, Signed, OneCa
  <2> QED
    BY <1>5, <1>6, <1>7, <2>1, <2>4
<1>12. CASE WriteCaddyfile(p)
  <2>1. ca' = ca /\ pair' = pair /\ proc[p].at = "caddyfile"
    BY <1>12 DEF WriteCaddyfile, At
  <2>2. \A stem \in proc[p].named : Signed(stem)
    BY <2>1 DEF OneCa, Signs
  <2>3. \/ proc'[p] = Idle /\ caddyfile' = caddyfile
        \/ proc'[p] = [at |-> "cleanup", named |-> proc[p].named] /\ caddyfile' = proc[p].named
    BY <1>2, <1>12, StepsWrite
  <2>4. Signs(p)'
    BY <2>1, <2>2, <2>3 DEF Idle, Signs, Signed
  <2> QED
    BY <1>5, <1>6, <1>7, <2>1, <2>2, <2>3, <2>4
<1>13. CASE Cleanup(p)
  <2>1. ca' = ca /\ pair' = pair /\ caddyfile' = caddyfile /\ proc[p].at = "cleanup"
    BY <1>13 DEF Cleanup, At
  <2>2. proc'[p] = Idle
    BY <1>2, <1>13, StepsCleanup
  <2>3. Signs(p)'
    BY <2>2 DEF Idle, Signs
  <2> QED
    BY <1>5, <1>6, <1>7, <2>1, <2>3
<1>14. CASE CustomKey(p) \/ CustomCrt(p) \/ DropCrt(p) \/ DropKey(p)
  <2>1. ca' = ca /\ caddyfile' = caddyfile /\ proc[p].at # "ca_written"
    BY <1>14 DEF CustomKey, CustomCrt, DropCrt, DropKey, At
  <2>2. PICK at \in {"custom_crt", "net", "drop_key"} : Goes(p, at)
    BY <1>14 DEF CustomKey, CustomCrt, DropCrt, DropKey
  <2>3. proc'[p] = [at |-> at, named |-> {}]
    BY <1>2, <2>2, MovesAt, PlacesAre
  <2>4. Signs(p)'
    BY <2>3 DEF Signs
  <2>5. /\ \A m \in Own : pair'[m] = pair[m]
        /\ pair'["custom"].crt = pair["custom"].crt \/ pair'["custom"].crt = NONE
           \/ pair'["custom"].crt = [key |-> pair["custom"].key, ca |-> NONE, names |-> "own", born |-> now]
    BY <1>2, <1>14 DEF CustomKey, CustomCrt, DropCrt, DropKey, Pairs, Own
  <2>6. Certified'
    BY <1>5, <2>1, <2>5
  <2> QED
    BY <1>6, <1>7, <2>1, <2>4, <2>6
<1>15. ASSUME NEW at \in {"net", "kiosk_copy"}, CopyKey(p, at, IF at = "net" THEN Network ELSE Kiosk) PROVE OneCa'
  <2>1. proc[p].at = at
    BY <1>15 DEF CopyKey, At
  <2> QED
    BY <1>2, <1>10, <1>15, <2>1, StemsSigned, StemsTyped
<1> QED
  BY <1>4, <1>8, <1>9, <1>11, <1>12, <1>13, <1>14, <1>15 DEF Writes

LEMMA CaStep ==
  ASSUME BaseInv, OneCa, Next
  PROVE  torn' \/ restored' \/ OneCa'
<1>1. TypeOK /\ Locking
  BY DEF BaseInv
<1>2. ASSUME NEW p \in Processes, Writes(p) PROVE OneCa'
  BY <1>2, WritesSigned
<1>3. ASSUME NEW p \in Processes, Begins(p) PROVE OneCa'
  <2>1. UNCHANGED <<ca, pair, caddyfile, served, phone>> /\ Steps(p) /\ proc'[p].at \in {"ca", "custom", "revert"}
        /\ ~Working(p)
    BY <1>1, <1>3, BeginsFree
  <2>2. Signs(p)'
    BY <2>1 DEF Signs
  <2>3. \A q \in Processes \ {p} : Signs(q)'
    BY <2>1 DEF OneCa, Signs, Signed, Steps
  <2>4. proc[p].at # "ca_written"
    BY <2>1 DEF Working
  <2> QED
    BY <2>1, <2>2, <2>3, <2>4 DEF OneCa, Signed, Steps
<1>4. ASSUME NEW p \in Processes, Restores(p) PROVE restored'
  <2>1. CASE Restore(p)
    BY <2>1 DEF Restore
  <2>2. ASSUME NEW file \in Copied, Copies(p, file) PROVE FALSE
    BY <2>2 DEF Copies, Copying, At, OneCa, Signs
  <2> QED
    BY <1>4, <2>1, <2>2 DEF Restores
<1>5. ASSUME NEW p \in Processes, Killed(p) PROVE torn' \/ OneCa'
  <2>1. UNCHANGED <<ca, pair, caddyfile, served, phone>> /\ (proc[p].at = "ca_written" => torn')
    BY <1>5 DEF Killed, At
  <2>2. Steps(p) /\ proc'[p] = Idle
    BY <1>1, <1>5, StepsKilled
  <2>3. Signs(p)'
    BY <2>2 DEF Signs, Idle
  <2>4. \A q \in Processes \ {p} : Signs(q)'
    BY <2>1, <2>2 DEF OneCa, Signs, Signed, Steps
  <2> QED
    BY <2>1, <2>2, <2>3, <2>4 DEF OneCa, Signed, Steps
<1>6. CASE Outside
  <2>1. UNCHANGED <<ca, pair, caddyfile, proc>> /\ served' \in {served, caddyfile, {}}
    BY <1>6, OutsideKeeps
  <2>2. phone' = phone \/ (phone' = ca.crt /\ ca.crt \in Int)
    <3>1. CASE CaddyReloads
      <4>1. Complete("server")
        BY <3>1 DEF CaddyReloads, Loads, BaseInv, Stocked
      <4> QED
        BY <3>1, <4>1 DEF CaddyReloads, Download, OneCa, Complete, Own
    <3>2. CASE ~CaddyReloads
      BY <1>6, <3>2 DEF Outside, CaddyRestarts, KioskStarts, NamesChange, Age
    <3> QED
      BY <3>1, <3>2
  <2>3. \A q \in Processes : Signs(q)'
    BY <2>1 DEF OneCa, Signs, Signed
  <2> QED
    BY <2>1, <2>2, <2>3 DEF OneCa, Signed
<1> QED
  BY <1>2, <1>3, <1>4, <1>5, <1>6, NextIs

LEMMA OneCaStays == OneCa => CaStays
BY DEF OneCa, CaStays, Signed

\* What makes a gap for good leaves what is claimed as it was; a gap stays one.
LEMMA GapsStay ==
  ASSUME Next
  PROVE  /\ restored => restored'
         /\ halved => halved'
         /\ torn' => UNCHANGED <<caddyfile, served, phone, restored>>
<1>1. restored => restored'
  BY DEF Next, Process, Dashboard, Caddy, Browser, World, Works, Ensures, CaKey, CaOpened, CaWritten,
       IssueKey, IssueCrt, CopyKey, CopyCrt, WriteCaddyfile, Cleanup, CustomKey, CustomCrt, DropCrt, DropKey, Copies,
       Upload, Revert, Restore, CaddyReloads, KioskStarts, CaddyRestarts, Age, NamesChange, Killed
<1>2. ASSUME NEW p \in Processes, Killed(p)
      PROVE  (halved => halved') /\ UNCHANGED <<caddyfile, served, phone, restored>>
  BY <1>2 DEF Killed
<1>3. CASE NamesChange
  BY <1>3 DEF NamesChange
<1>4. CASE ~NamesChange /\ ~\E p \in Processes : Killed(p)
  <2>1. halved' = halved /\ torn' = torn
    BY <1>4 DEF Next, Process, Dashboard, Caddy, Browser, World, Works, Ensures, CaKey, CaOpened, CaWritten,
       IssueKey, IssueCrt, CopyKey, CopyCrt, WriteCaddyfile, Cleanup, CustomKey, CustomCrt, DropCrt, DropKey, Copies,
       Upload, Revert, Restore, CaddyReloads, KioskStarts, CaddyRestarts, Age
  <2> QED
    BY <1>1, <2>1, NextIs
<1> QED
  BY <1>1, <1>2, <1>3, <1>4

LEMMA InitCa == Init => CaInv
<1> SUFFICES ASSUME Init PROVE CaInv
  OBVIOUS
<1>1. BaseInv
  BY InitBase
<1>2. NONE # EMPTY /\ \A p \in Processes : proc[p] = Idle
  BY DEF Init
<1>3. OneCa
  BY <1>2 DEF Init, OneCa, Signs, Idle, NoPair, Own
<1> QED
  BY <1>1, <1>3, OneCaStays DEF CaInv

LEMMA CaNext == CaInv /\ [Next]_vars => CaInv'
<1> SUFFICES ASSUME CaInv, [Next]_vars PROVE CaInv'
  OBVIOUS
<1>1. BaseInv'
  BY BaseNext DEF CaInv
<1>2. CASE Next
  <2>1. ~torn /\ TypeOK
    BY <1>2, NextIs DEF CaInv, BaseInv
  <2>2. CASE restored
    BY <1>1, <1>2, <2>2, GapsStay DEF CaInv, CaStays
  <2>3. CASE ~restored
    <3>1. torn' \/ restored' \/ OneCa'
      BY <1>2, <2>1, <2>3, CaStep DEF CaInv
    <3>2. CASE OneCa'
      BY <1>1, <3>2, OneCaStays DEF CaInv, OneCa, CaStays, Signed
    <3>3. CASE restored'
      BY <1>1, <3>3 DEF CaInv, CaStays
    <3>4. CASE torn'
      BY <1>1, <1>2, <3>4, GapsStay DEF CaInv, CaStays
    <3> QED
      BY <3>1, <3>2, <3>3, <3>4
  <2> QED
    BY <2>2, <2>3
<1>3. CASE UNCHANGED vars
  BY <1>1, <1>3 DEF vars, CaInv, OneCa, Signs, Signed, CaStays
<1> QED
  BY <1>2, <1>3

\* A phone that has installed the device's CA never has to install another: whatever certificates are
\* renewed, replaced and taken back, whoever is killed, the device's own on both ports are signed by it
\* (_create_ca(), _needs_issue(); docs/ARCHITECTURE.md: "the CA stays, so phones keep trusting it").
THEOREM CaKept == Spec => []CaStays
<1>1. CaInv => CaStays
  BY DEF CaInv
<1> QED
  BY <1>1, InitCa, CaNext, PTL DEF Spec

(***************************************************************************)
(* Loadable.                                                               *)
(***************************************************************************)
Fit(n) == Complete(n) => pair[n].crt.key = pair[n].key

\* A process that writes finds the pairs whole, but for the one it is writing.
LEMMA WriterFinds ==
  ASSUME BaseInv, Sound, NEW p \in Processes, Writes(p)
  PROVE  /\ \A q \in Processes \ {p} : /\ proc[q].at \in {"idle", "restore"} /\ proc'[q] = proc[q]
                                       /\ Copying(q) => proc[q].left = Copied
         /\ proc'[p].at # "restore"
         /\ \A n \in Own \cup {"custom"} :
              (proc[p].at = "issued" => n # proc[p].for) /\ (proc[p].at = "custom_crt" => n # "custom") => Fit(n)
<1>1. /\ Working(p) /\ \A q \in Processes \ {p} : ~Working(q) /\ proc'[q] = proc[q]
      /\ Working(p)' \/ proc'[p].at = "idle"
  BY WritesAlone DEF BaseInv, Steps
<1>2. \A q \in Processes \ {p} : proc[q].at \in {"idle", "restore"}
  BY <1>1 DEF Working
<1>3. \A q \in Processes : Copying(q) => proc[q].left = Copied
  BY <1>1 DEF Sound, CopiedSoFar
<1>4. ASSUME NEW n \in Own \cup {"custom"}, proc[p].at = "issued" => n # proc[p].for,
             proc[p].at = "custom_crt" => n # "custom"
      PROVE  Fit(n)
  BY <1>2, <1>4 DEF Sound, Matched, Fit
<1> QED
  BY <1>1, <1>2, <1>3, <1>4 DEF Working

\* What is to be shown of a step of a process that writes.
LEMMA WriterSound ==
  ASSUME BaseInv, Sound, NEW p \in Processes, Writes(p),
         \A n \in Own \cup {"custom"} :
           Fit(n)' \/ (proc'[p].at = "issued" /\ proc'[p].for = n) \/ (n = "custom" /\ proc'[p].at = "custom_crt"),
         proc'[p].at = "issued" => pair'[proc'[p].for].key = proc'[p].crt.key,
         Backed',
         proc'[p].at \in {"net", "kiosk_copy", "caddyfile", "cleanup"} => \A stem \in proc'[p].named : Ready(stem)',
         proc'[p].at = "copied" => /\ \A stem \in proc'[p].named \ {proc'[p].stem} : Ready(stem)'
                                   /\ <<proc'[p].stem, "key">> \in live' /\ Fits(proc'[p].stem),
         proc'[p].at = "cleanup" => caddyfile' = proc'[p].named,
         (\A stem \in caddyfile : Ready(stem)) => \A stem \in caddyfile' : Ready(stem)'
  PROVE  Sound'
<1>1. /\ \A q \in Processes \ {p} : /\ proc[q].at \in {"idle", "restore"} /\ proc'[q] = proc[q]
                                    /\ Copying(q) => proc[q].left = Copied
      /\ proc'[p].at # "restore"
  BY WriterFinds
<1>2. Matched'
  BY <1>1 DEF Matched, Fit
<1>3. Named'
  BY <1>1 DEF Named
<1>4. CopiedSoFar'
  BY <1>1 DEF CopiedSoFar, Copying, At
<1>5. Loaded'
  <2>1. proc[p].at # "restore"
    BY WritesAlone DEF BaseInv, Working
  <2> QED
    BY <1>1, <2>1 DEF Sound, Loaded, Copying, At
<1> QED
  BY <1>2, <1>3, <1>4, <1>5 DEF Sound

LEMMA FitKept ==
  ASSUME NEW n \in Own \cup {"custom"}, pair'[n] = pair[n], Fit(n) PROVE Fit(n)'
BY DEF Fit, Complete

LEMMA ReadyGrows ==
  ASSUME NEW stem, Ready(stem), live \subseteq live' PROVE Ready(stem)'
BY DEF Ready, Fits

\* ensure()'s steps up to the kiosk's certificate.
LEMMA EnsureSound ==
  ASSUME BaseInv, Sound, NEW p \in Processes,
         CaKey(p) \/ CaOpened(p) \/ CaWritten(p) \/ (\E n \in Own : IssueKey(p, n)) \/ IssueCrt(p)
  PROVE  Sound'
<1>1. TypeOK /\ made \in Nat /\ pair \in [Own \cup {"custom"} -> Pairs]
  BY DEF BaseInv, TypeOK
<1>2. Writes(p) /\ UNCHANGED <<live, caddyfile>>
  BY DEF Writes, CaKey, CaOpened, CaWritten, IssueKey, IssueCrt
<1>3. Backed' /\ \A stem \in caddyfile : Ready(stem) => Ready(stem)'
  BY <1>2, ReadyGrows DEF Sound, Backed
<1>4. \A n \in Own \cup {"custom"} :
        (proc[p].at = "issued" => n # proc[p].for) /\ (proc[p].at = "custom_crt" => n # "custom") => Fit(n)
  BY <1>2, WriterFinds
<1>5. CASE CaKey(p) \/ CaOpened(p) \/ CaWritten(p)
  <2>1. pair' = pair /\ proc[p].at \notin {"issued", "custom_crt"}
    BY <1>5 DEF CaKey, CaOpened, CaWritten, At
  <2>2. proc'[p].at \in {"ca_opened", "ca_written", "server"}
    <3>1. PICK at \in {"ca_opened", "ca_written", "server"} : Goes(p, at)
      BY <1>5 DEF CaKey, CaOpened, CaWritten
    <3> QED
      BY <1>1, <3>1, MovesAt, PlacesAre
  <2>3. \A n \in Own \cup {"custom"} : Fit(n)'
    BY <1>4, <2>1, FitKept
  <2> QED
    BY <1>2, <1>3, <2>2, <2>3, WriterSound
<1>6. ASSUME NEW n \in Own, IssueKey(p, n) PROVE Sound'
  <2>1. proc[p].at = n
    BY <1>6 DEF IssueKey, At
  <2>2. \A m \in Own \cup {"custom"} : Fit(m)
    BY <1>4, <2>1 DEF Own
  <2>3. CASE pair' = pair /\ proc'[p] \in {Idle, [at |-> Following(n), named |-> {}]}
    <3>1. \A m \in Own \cup {"custom"} : Fit(m)'
      BY <2>2, <2>3, FitKept
    <3>2. proc'[p].at \in {"idle", "kiosk", "net"} /\ proc'[p].named = {}
      BY <2>3 DEF Idle, Following
    <3> QED
      BY <1>2, <1>3, <3>1, <3>2, WriterSound
  <2>4. CASE /\ pair' = [pair EXCEPT ![n].key = made]
             /\ proc'[p] = [at |-> "issued", for |-> n,
                            crt |-> [key |-> made, ca |-> ca.crt, names |-> Wanted(n), born |-> now]]
    <3>1. proc'[p].at = "issued" /\ proc'[p].for = n /\ proc'[p].crt.key = made
      BY <2>4
    <3>2. pair'[n].key = made /\ \A m \in (Own \cup {"custom"}) \ {n} : pair'[m] = pair[m]
      BY <1>1, <2>4 DEF Pairs
    <3>3. \A m \in (Own \cup {"custom"}) \ {n} : Fit(m)'
      BY <2>2, <3>2, FitKept
    <3> QED
      BY <1>2, <1>3, <3>1, <3>2, <3>3, WriterSound
  <2> QED
    BY <1>1, <1>6, <2>3, <2>4, StepsIssue
<1>7. CASE IssueCrt(p)
  <2>1. proc[p].at = "issued"
    BY <1>7 DEF IssueCrt, At
  <2>2. proc[p] \in Issuing /\ proc'[p] = [at |-> Following(proc[p].for), named |-> {}]
        /\ Following(proc[p].for) = IF proc[p].for = "server" THEN "kiosk" ELSE "net"
    BY <1>1, <1>7, StepsIssued
  <2>3. PICK n \in Own : n = proc[p].for
    BY <2>2 DEF Issuing
  <2>4. pair'[n].crt = proc[p].crt /\ pair'[n].key = pair[n].key
        /\ \A m \in (Own \cup {"custom"}) \ {n} : pair'[m] = pair[m]
    BY <1>1, <1>7, <2>3 DEF IssueCrt, Pairs
  <2>5. pair[n].key = proc[p].crt.key
    BY <2>1, <2>3 DEF Sound, Matched
  <2>6. Fit(n)'
    BY <2>4, <2>5 DEF Fit
  <2>7. \A m \in (Own \cup {"custom"}) \ {n} : Fit(m)'
    BY <1>4, <2>1, <2>3, <2>4, FitKept
  <2>8. proc'[p].at \in {"kiosk", "net"} /\ proc'[p].named = {}
    BY <2>2
  <2> QED
    BY <1>2, <1>3, <2>6, <2>7, <2>8, WriterSound
<1> QED
  BY <1>5, <1>6, <1>7

\* install_custom() and remove_custom()
LEMMA CustomSound ==
  ASSUME BaseInv, Sound, NEW p \in Processes, CustomKey(p) \/ CustomCrt(p) \/ DropCrt(p) \/ DropKey(p)
  PROVE  Sound'
<1>1. TypeOK /\ pair \in [Own \cup {"custom"} -> Pairs]
  BY DEF BaseInv, TypeOK
<1>2. Writes(p) /\ UNCHANGED <<live, caddyfile>> /\ proc[p].at # "issued"
  BY DEF Writes, CustomKey, CustomCrt, DropCrt, DropKey, At
<1>3. Backed' /\ \A stem \in caddyfile : Ready(stem) => Ready(stem)'
  BY <1>2, ReadyGrows DEF Sound, Backed
<1>4. \A m \in Own : pair'[m] = pair[m]
  BY <1>1 DEF CustomKey, CustomCrt, DropCrt, DropKey, Own
<1>5. \A n \in Own : Fit(n)'
  <2>1. \A n \in Own : Fit(n)
    BY <1>2, WriterFinds DEF Own
  <2> QED
    BY <1>4, <2>1, FitKept
<1>6. PICK at \in {"custom_crt", "net", "drop_key"} : Goes(p, at) /\ (at = "custom_crt" <=> CustomKey(p))
  BY DEF CustomKey, CustomCrt, DropCrt, DropKey, At
<1>7. proc'[p] = [at |-> at, named |-> {}]
  BY <1>1, <1>6, MovesAt, PlacesAre
<1>8. Fit("custom")' \/ at = "custom_crt"
  <2>1. CASE CustomCrt(p)
    <3>1. pair'["custom"].crt.key = pair["custom"].key /\ pair'["custom"].key = pair["custom"].key
      BY <1>1, <2>1 DEF CustomCrt, Pairs
    <3> QED
      BY <3>1 DEF Fit
  <2>2. CASE DropCrt(p)
    <3>1. pair'["custom"].crt = NONE
      BY <1>1, <2>2 DEF DropCrt, Pairs
    <3> QED
      BY <3>1 DEF Fit, Complete
  <2>3. CASE DropKey(p)
    <3>1. pair'["custom"].key = NONE
      BY <1>1, <2>3 DEF DropKey, Pairs
    <3> QED
      BY <3>1 DEF Fit, Complete
  <2> QED
    BY <1>6, <2>1, <2>2, <2>3
<1>9. proc'[p].at = at /\ proc'[p].named = {}
  BY <1>7
<1> QED
  BY <1>2, <1>3, <1>5, <1>8, <1>9, WriterSound

\* What _caddyfile() is to name has its key.
LEMMA StemsFit ==
  ASSUME BaseInv, Sound, NEW p \in Processes
  PROVE  /\ Writes(p) /\ proc[p].at = "net" => Fits(Network)
         /\ Writes(p) /\ proc[p].at = "kiosk_copy" => Fits(Kiosk)
<1>1. \A port \in {"net", "kiosk"}, n \in Own \cup {"custom"} :
        Stem(port, n).crt = pair[n].crt /\ Stem(port, n).key = pair[n].key
  BY DEF Stem
<1>2. proc[p].at = "net" => Complete("server")
  BY DEF BaseInv, Stocked, PastServer
<1>3. proc[p].at = "kiosk_copy" => Complete("kiosk")
  BY DEF BaseInv, Stocked, PastKiosk
<1>4. Writes(p) /\ proc[p].at \in {"net", "kiosk_copy"} => \A n \in Own \cup {"custom"} : Fit(n)
  BY WriterFinds
<1>5. HasCustom <=> Complete("custom")
  BY DEF HasCustom, Complete
<1>6. Network = IF HasCustom THEN Stem("net", "custom") ELSE Stem("net", "server")
  BY DEF Network
<1>7. \A n \in Own \cup {"custom"} : Fit(n) /\ Complete(n) => Fits(Stem("net", n)) /\ Fits(Stem("kiosk", n))
  BY <1>1 DEF Fit, Fits
<1> QED
  BY <1>2, <1>3, <1>4, <1>5, <1>6, <1>7 DEF Kiosk, Own

\* _live_copy() and _write_caddyfile()
LEMMA CopySound ==
  ASSUME BaseInv, Sound, NEW p \in Processes, NEW at \in {"net", "kiosk_copy"}, NEW stem \in Stems,
         CopyKey(p, at, stem), Writes(p), Fits(stem)
  PROVE  Sound'
<1>1. TypeOK /\ live \in SUBSET Files
  BY DEF BaseInv, TypeOK
<1>2. proc[p].at = at /\ UNCHANGED <<pair, caddyfile>>
  BY DEF CopyKey, At
<1>3. \A n \in Own \cup {"custom"} : Fit(n)'
  <2>1. \A n \in Own \cup {"custom"} : Fit(n)
    BY <1>2, WriterFinds
  <2> QED
    BY <1>2, <2>1, FitKept
<1>4. \A other \in proc[p].named : Ready(other)
  BY <1>2 DEF Sound, Named
<1>5. CASE <<stem, "crt">> \in live
  <2>1. live' = live /\ proc'[p] = [at |-> After(stem), named |-> proc[p].named \cup {stem}]
        /\ After(stem) \in {"kiosk_copy", "caddyfile"}
    <3>1. live' = live
      BY <1>5 DEF CopyKey
    <3>2. proc'[p] = [at |-> After(stem), named |-> proc[p].named \cup {stem}]
      <4>1. proc' = [proc EXCEPT ![p] = [at |-> After(stem), named |-> proc[p].named \cup {stem}]]
        BY <1>5 DEF CopyKey
      <4> QED
        BY <1>1, <4>1 DEF TypeOK
    <3> QED
      BY <3>1, <3>2 DEF After
  <2>2. proc'[p].at \in {"kiosk_copy", "caddyfile"} /\ proc'[p].named = proc[p].named \cup {stem}
    BY <2>1
  <2>3. Ready(stem)
    <3>1. <<stem, "crt">>[2] = "crt" /\ <<stem, "crt">>[1] = stem
      OBVIOUS
    <3>2. <<stem, "key">> \in live
      BY <1>5, <3>1 DEF Sound, Backed
    <3> QED
      BY <1>5, <3>2 DEF Ready
  <2>4. \A other \in proc'[p].named : Ready(other)'
    BY <1>4, <2>1, <2>2, <2>3, ReadyGrows
  <2>5. Backed' /\ \A other \in caddyfile : Ready(other) => Ready(other)'
    BY <2>1, ReadyGrows DEF Sound, Backed
  <2> QED
    BY <1>2, <1>3, <2>2, <2>4, <2>5, WriterSound
<1>6. CASE <<stem, "crt">> \notin live
  <2>1. live' = live \cup {<<stem, "key">>}
        /\ proc'[p] = [at |-> "copied", named |-> proc[p].named \cup {stem}, stem |-> stem]
    <3>1. live' = live \cup {<<stem, "key">>}
      BY <1>6 DEF CopyKey
    <3>2. proc'[p] = [at |-> "copied", named |-> proc[p].named \cup {stem}, stem |-> stem]
      <4>1. proc' = [proc EXCEPT ![p] = [at |-> "copied", named |-> proc[p].named \cup {stem}, stem |-> stem]]
        BY <1>6 DEF CopyKey
      <4> QED
        BY <1>1, <4>1 DEF TypeOK
    <3> QED
      BY <3>1, <3>2
  <2>2. proc'[p].at = "copied" /\ proc'[p].named = proc[p].named \cup {stem} /\ proc'[p].stem = stem
    BY <2>1
  <2>3. \A other \in proc'[p].named \ {stem} : Ready(other)'
    BY <1>4, <2>1, <2>2, ReadyGrows
  <2>4. Backed'
    <3>1. <<stem, "key">>[2] # "crt"
      OBVIOUS
    <3> QED
      BY <2>1, <3>1 DEF Sound, Backed
  <2>5. \A other \in caddyfile : Ready(other) => Ready(other)'
    BY <2>1, ReadyGrows
  <2> QED
    BY <1>2, <1>3, <2>1, <2>2, <2>3, <2>4, <2>5, WriterSound
<1> QED
  BY <1>5, <1>6

LEMMA CaddySound ==
  ASSUME BaseInv, Sound, NEW p \in Processes, CopyCrt(p) \/ WriteCaddyfile(p) \/ Cleanup(p)
  PROVE  Sound'
<1>1. TypeOK /\ live \in SUBSET Files /\ Writes(p) /\ pair' = pair
  BY DEF BaseInv, TypeOK, Writes, CopyCrt, WriteCaddyfile, Cleanup
<1>2. \A n \in Own \cup {"custom"} : Fit(n)'
  <2>1. proc[p].at \notin {"issued", "custom_crt"}
    BY DEF CopyCrt, WriteCaddyfile, Cleanup, At
  <2>2. \A n \in Own \cup {"custom"} : Fit(n)
    BY <1>1, <2>1, WriterFinds
  <2> QED
    BY <1>1, <2>2, FitKept
<1>3. CASE CopyCrt(p)
  <2>1. proc[p].at = "copied" /\ caddyfile' = caddyfile
    BY <1>3 DEF CopyCrt, At
  <2>2. /\ proc[p] \in Storing /\ live' = live \cup {<<proc[p].stem, "crt">>}
        /\ proc'[p] = [at |-> After(proc[p].stem), named |-> proc[p].named]
        /\ After(proc[p].stem) \in {"kiosk_copy", "caddyfile"}
    BY <1>1, <1>3, StepsCopied
  <2>3. proc'[p].at \in {"kiosk_copy", "caddyfile"} /\ proc'[p].named = proc[p].named
    BY <2>2
  <2>4. /\ \A stem \in proc[p].named \ {proc[p].stem} : Ready(stem)
        /\ <<proc[p].stem, "key">> \in live /\ Fits(proc[p].stem)
    BY <2>1 DEF Sound, Named
  <2>5. PICK stem \in Stems : stem = proc[p].stem
    BY <2>2 DEF Storing
  <2>6. Ready(stem)'
    BY <2>2, <2>4, <2>5 DEF Ready, Fits
  <2>7. \A other \in proc'[p].named : Ready(other)'
    BY <2>2, <2>3, <2>4, <2>5, <2>6, ReadyGrows
  <2>8. Backed'
    <3>1. <<stem, "crt">>[1] = stem /\ <<stem, "key">> \in live'
      BY <2>2, <2>4, <2>5
    <3> QED
      BY <2>2, <2>5, <3>1 DEF Sound, Backed
  <2>9. \A other \in caddyfile : Ready(other) => Ready(other)'
    BY <2>2, ReadyGrows
  <2> QED
    BY <1>1, <1>2, <2>1, <2>3, <2>7, <2>8, <2>9, WriterSound
<1>4. CASE WriteCaddyfile(p)
  <2>1. proc[p].at = "caddyfile" /\ live' = live
    BY <1>4 DEF WriteCaddyfile, At
  <2>2. \A stem \in proc[p].named : Ready(stem)'
    <3>1. \A stem \in proc[p].named : Ready(stem)
      BY <2>1 DEF Sound, Named
    <3> QED
      BY <2>1, <3>1, ReadyGrows
  <2>3. \/ caddyfile = proc[p].named /\ proc'[p] = Idle /\ caddyfile' = caddyfile
        \/ caddyfile' = proc[p].named /\ proc'[p] = [at |-> "cleanup", named |-> proc[p].named]
    BY <1>1, <1>4, StepsWrite
  <2>4. proc'[p].at = "idle" \/ (proc'[p].at = "cleanup" /\ proc'[p].named = caddyfile')
    BY <2>3 DEF Idle
  <2>5. Backed' /\ caddyfile' = proc[p].named
    BY <2>1, <2>3 DEF Sound, Backed
  <2> QED
    BY <1>1, <1>2, <2>2, <2>4, <2>5, WriterSound
<1>5. CASE Cleanup(p)
  <2>1. proc[p].at = "cleanup" /\ caddyfile' = caddyfile /\ live' = {file \in live : file[1] \in proc[p].named}
    BY <1>5 DEF Cleanup, At
  <2>2. proc'[p].at = "idle"
    <3>1. proc'[p] = Idle
      BY <1>1, <1>5, StepsCleanup
    <3> QED
      BY <3>1 DEF Idle
  <2>3. caddyfile = proc[p].named /\ \A stem \in caddyfile : Ready(stem)
    BY <2>1 DEF Sound, Named
  <2>4. \A stem \in caddyfile : Ready(stem)'
    <3>1. ASSUME NEW stem \in caddyfile PROVE {<<stem, "key">>, <<stem, "crt">>} \subseteq live'
      <4>1. <<stem, "key">>[1] = stem /\ <<stem, "crt">>[1] = stem
        OBVIOUS
      <4> QED
        BY <2>1, <2>3, <4>1 DEF Ready
    <3>2. \A stem \in caddyfile : Fits(stem)
      BY <2>3 DEF Ready
    <3>3. ASSUME NEW stem \in caddyfile PROVE Ready(stem)'
      BY <3>1, <3>2, <3>3 DEF Ready, Fits
    <3> QED
      BY <3>3
  <2>5. Backed'
    <3>1. ASSUME NEW file \in live', file[2] = "crt" PROVE <<file[1], "key">> \in live'
      <4>1. <<file[1], "key">> \in live /\ file[1] \in proc[p].named
        BY <2>1, <3>1 DEF Sound, Backed
      <4>2. <<file[1], "key">>[1] = file[1]
        OBVIOUS
      <4> QED
        BY <2>1, <4>1, <4>2
    <3> QED
      BY <3>1 DEF Backed
  <2> QED
    BY <1>1, <1>2, <2>1, <2>2, <2>4, <2>5, WriterSound
<1> QED
  BY <1>3, <1>4, <1>5

LEMMA WritesSound == ASSUME BaseInv, Sound, NEW p \in Processes, Writes(p) PROVE Sound'
<1>1. TypeOK
  BY DEF BaseInv
<1>2. CASE CopyKey(p, "net", Network)
  <2>1. Network \in Stems /\ Fits(Network)
    <3>1. proc[p].at = "net"
      BY <1>2 DEF CopyKey, At
    <3> QED
      BY <1>1, <3>1, StemsTyped, StemsFit
  <2> QED
    BY <1>2, <2>1, CopySound
<1>3. CASE CopyKey(p, "kiosk_copy", Kiosk)
  <2>1. Kiosk \in Stems /\ Fits(Kiosk)
    <3>1. proc[p].at = "kiosk_copy"
      BY <1>3 DEF CopyKey, At
    <3> QED
      BY <1>1, <3>1, StemsTyped, StemsFit
  <2> QED
    BY <1>3, <2>1, CopySound
<1> QED
  BY <1>2, <1>3, EnsureSound, CustomSound, CaddySound DEF Writes

\* Nobody writes: then every pair is whole, and a process that writes comes of none.
LEMMA NobodySound ==
  ASSUME BaseInv, Sound, NEW p \in Processes, Steps(p), \A q \in Processes : ~Working(q),
         ~Working(p)' \/ proc'[p].at \in {"ca", "custom", "revert"},
         \A n \in Own \cup {"custom"} : pair'[n] = pair[n] \/ Fit(n)',
         Backed', CopiedSoFar', Loaded'
  PROVE  Sound'
<1>1. \A n \in Own \cup {"custom"} : Fit(n)
  BY DEF Sound, Matched, Fit, Working
<1>2. \A n \in Own \cup {"custom"} : Fit(n)'
  BY <1>1, FitKept
<1>3. \A q \in Processes : proc'[q].at \in {"idle", "restore", "ca", "custom", "revert"}
  BY DEF Steps, Working
<1>4. Matched'
  BY <1>2, <1>3 DEF Matched, Fit
<1>5. Named'
  BY <1>3 DEF Named
<1> QED
  BY <1>4, <1>5 DEF Sound

LEMMA BeginsSound ==
  ASSUME BaseInv, Sound, NEW p \in Processes, Begins(p), ~mixed'
  PROVE  Sound'
<1>1. /\ \A q \in Processes : ~Working(q)
      /\ Steps(p) /\ proc'[p].at \in {"ca", "custom", "revert"}
      /\ UNCHANGED files
      /\ \A q \in Processes : ~Copying(q)
  BY BeginsFree DEF BaseInv
<1>2. \A q \in Processes : ~Copying(q)'
  BY <1>1 DEF Steps, Copying, At
<1>3. Backed' /\ CopiedSoFar'
  BY <1>1, <1>2 DEF Sound, Backed, CopiedSoFar
<1>4. Loaded'
  BY <1>1 DEF Sound, Loaded, Ready, Fits
<1> QED
  BY <1>1, <1>3, <1>4, NobodySound

\* A restore asked for takes no lock, and copies nothing yet: whoever writes goes on.
LEMMA RestoreSound ==
  ASSUME BaseInv, Sound, NEW p \in Processes, Restore(p)
  PROVE  Sound'
<1>1. TypeOK /\ UNCHANGED files /\ proc[p].at = "idle"
  BY DEF BaseInv, Restore, Asked, At
<1>2. Steps(p) /\ proc'[p] = [at |-> "restore", named |-> {}, left |-> Copied]
  BY <1>1, StepsRestore
<1>3. proc'[p].at = "restore" /\ proc'[p].left = Copied /\ Copied # {}
  BY <1>2 DEF Copied
<1>4. Matched'
  BY <1>1, <1>2, <1>3 DEF Sound, Matched, Complete, Steps
<1>5. Named'
  BY <1>1, <1>2, <1>3 DEF Sound, Named, Ready, Fits, Steps
<1>6. CopiedSoFar'
  BY <1>1, <1>2, <1>3 DEF Sound, CopiedSoFar, Copying, At, Working, Steps
<1>7. Backed' /\ Loaded'
  BY <1>1, <1>3 DEF Sound, Backed, Loaded, Copying, At
<1> QED
  BY <1>4, <1>5, <1>6, <1>7 DEF Sound

\* What a restore copies is whole, and the Caddyfile that it leaves names what it has copied.
LEMMA CopiesSound ==
  ASSUME BaseInv, Sound, NEW p \in Processes, NEW file \in Copied, Copies(p, file), ~mixed'
  PROVE  Sound'
<1>1. TypeOK /\ live \in SUBSET Files /\ pair \in [Own \cup {"custom"} -> Pairs]
  BY DEF BaseInv, TypeOK
<1>2. /\ Steps(p) /\ proc[p] \in Restoring
      /\ proc'[p].at = "restore" /\ proc'[p].left = proc[p].left \ {file}
  BY <1>1, StepsCopies
<1>3. \A q \in Processes : ~Working(q)
  BY DEF Copies, BaseInv, Locking, Processes
<1>4. Copying(p) /\ file \in proc[p].left /\ proc[p].at = "restore" /\ proc[p].left \subseteq Copied
  BY <1>2 DEF Copies, Copying, At, Restoring
<1>5. \A q \in Processes : ~Working(q)'
  BY <1>2, <1>3 DEF Steps, Working
<1>6. /\ live' = IF file = "live" THEN live \cup OldLive \X {"key", "crt"} ELSE live
      /\ caddyfile' = IF file = "Caddyfile" THEN OldLive ELSE caddyfile
      /\ pair' = IF file \in Own THEN [pair EXCEPT ![file] = OldPair[file]] ELSE pair
  BY OldTyped DEF Copies
<1>7. live \subseteq live'
  BY <1>6
<1>8. ASSUME NEW n \in Own \cup {"custom"} PROVE pair'[n] = pair[n] \/ Fit(n)'
  <2>1. CASE file = n /\ n \in Own
    <3>1. pair'[n] = OldPair[n]
      BY <1>1, <1>6, <2>1
    <3> QED
      BY <2>1, <3>1, OldTyped DEF Fit
  <2>2. CASE file # n
    BY <1>1, <1>6, <2>2 DEF Own
  <2> QED
    BY <2>1, <2>2 DEF Copied
<1>9. Backed'
  <2>1. ASSUME NEW f \in OldLive \X {"key", "crt"} PROVE <<f[1], "key">> \in OldLive \X {"key", "crt"}
    OBVIOUS
  <2> QED
    BY <1>6, <2>1 DEF Sound, Backed
<1>10. /\ "live" \notin proc'[p].left => OldLive \X {"key", "crt"} \subseteq live'
       /\ "Caddyfile" \notin proc'[p].left => caddyfile' = OldLive
  BY <1>2, <1>4, <1>6, <1>7 DEF Sound, CopiedSoFar, Copied
<1>11. CopiedSoFar'
  BY <1>2, <1>4, <1>5, <1>6, <1>7, <1>10 DEF Sound, CopiedSoFar, Copying, At, Steps
<1>12. Loaded'
  <2>1. CASE proc'[p].left # {}
    BY <1>2, <2>1 DEF Loaded, Copying, At
  <2>2. CASE proc'[p].left = {}
    <3>1. OldLive \X {"key", "crt"} \subseteq live' /\ caddyfile' = OldLive
      BY <1>10, <2>2
    <3>2. \A stem \in OldLive : Fits(stem)
      BY OldTyped DEF OldLive, Fits, Own
    <3>3. ASSUME NEW stem \in caddyfile' PROVE Ready(stem)'
      BY <3>1, <3>2, <3>3 DEF Ready, Fits
    <3> QED
      BY <3>3 DEF Loaded
  <2> QED
    BY <2>1, <2>2
<1>13. ~Working(p)'
  BY <1>5
<1> QED
  BY <1>2, <1>3, <1>8, <1>9, <1>11, <1>12, <1>13, NobodySound

\* Who is killed leaves whole files, but where the gaps are.
LEMMA KilledSound ==
  ASSUME BaseInv, Sound, NEW p \in Processes, Killed(p), ~torn', ~halved'
  PROVE  Sound'
<1>1. TypeOK /\ UNCHANGED files
  BY DEF BaseInv, Killed
<1>2. proc[p].at # "issued" /\ ~Copying(p) /\ (proc[p].at = "custom_crt" => pair["custom"].crt = NONE)
  BY DEF Killed, At
<1>3. Steps(p) /\ proc'[p] = Idle
  BY <1>1, StepsKilled
<1>4. proc'[p].at = "idle"
  BY <1>3 DEF Idle
<1>5. Matched'
  BY <1>1, <1>2, <1>3, <1>4 DEF Sound, Matched, Complete, Steps
<1>6. Named'
  BY <1>1, <1>3, <1>4 DEF Sound, Named, Ready, Fits, Steps
<1>7. CopiedSoFar'
  BY <1>1, <1>3, <1>4 DEF Sound, CopiedSoFar, Copying, At, Working, Steps
<1>8. Backed' /\ Loaded'
  BY <1>1, <1>2, <1>3 DEF Sound, Backed, Loaded, Copying, At, Ready, Fits, Steps
<1> QED
  BY <1>5, <1>6, <1>7, <1>8 DEF Sound

LEMMA LoadStep == ASSUME BaseInv, Sound, Next, ~torn', ~halved', ~mixed' PROVE Sound'
<1>1. CASE Outside
  <2>1. UNCHANGED <<files, proc>>
    BY <1>1, OutsideKeeps
  <2> QED
    BY <2>1 DEF Sound, Matched, Complete, Backed, Named, CopiedSoFar, Loaded, Copying, At, Working, Ready, Fits
<1> QED
  BY <1>1, NextIs, WritesSound, BeginsSound, RestoreSound, CopiesSound, KilledSound DEF Restores

LEMMA InitLoad == Init => LoadInv
<1> SUFFICES ASSUME Init PROVE LoadInv
  OBVIOUS
<1>1. BaseInv
  BY InitBase
<1>2. \A p \in Processes : proc[p].at = "idle"
  BY DEF Init, Idle
<1>3. \A n \in Own \cup {"custom"} : ~Complete(n)
  BY DEF Init, Own, NoPair, Complete
<1>4. Sound
  BY <1>2, <1>3 DEF Init, Sound, Matched, Backed, Named, CopiedSoFar, Loaded, Copying, At
<1> QED
  BY <1>1, <1>4 DEF LoadInv

LEMMA LoadNext == LoadInv /\ [Next]_vars => LoadInv'
<1> SUFFICES ASSUME LoadInv, [Next]_vars PROVE LoadInv'
  OBVIOUS
<1>1. BaseInv'
  BY BaseNext DEF LoadInv
<1>2. CASE Next
  <2>1. ~torn /\ ~mixed /\ (halved => halved')
    BY <1>2, NextIs, GapsStay
  <2>2. CASE halved
    BY <1>1, <2>1, <2>2 DEF LoadInv
  <2>3. CASE ~halved
    BY <1>1, <1>2, <2>1, <2>3, LoadStep DEF LoadInv
  <2> QED
    BY <2>2, <2>3
<1>3. CASE UNCHANGED vars
  BY <1>1, <1>3 DEF vars, LoadInv, Sound, Matched, Complete, Backed, Named, CopiedSoFar, Loaded, Copying, At,
                    Working, Ready, Fits
<1> QED
  BY <1>2, <1>3

\* Whenever Caddy starts, the Caddyfile names files that are there, each key with its own certificate -
\* whoever was killed where, or writes at that moment (_locked(), _live_copy(), _write_caddyfile()).
THEOREM AlwaysLoadable == Spec => []Loadable
<1>1. LoadInv => Loadable
  BY DEF LoadInv, Sound, Loaded, Loadable, Loads, Ready
<1> QED
  BY <1>1, InitLoad, LoadNext, PTL DEF Spec
=============================================================================
