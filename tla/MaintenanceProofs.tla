-------------------------- MODULE MaintenanceProofs --------------------------
(***************************************************************************)
(* Proofs about Maintenance for any number of restores, any parts asked    *)
(* for, every age at which a status is stale, with and without a stick.    *)
(***************************************************************************)
EXTENDS Maintenance, TLAPS

(***************************************************************************)
(* The states.                                                             *)
(***************************************************************************)
FILES  == PARTS \ {"database"}
Copying == {"copied", "clearing", "dropping", "loading"}
Placing == {"placing", "migrating", "migrated"}
Steps  == Over \cup Copying \cup Placing \cup {"asked", "checking", "copying", "failing"}
States == {"idle", "running", "done", "error"}

StateOK ==
  /\ db \in SUBSET Rows /\ schema \in {"current", "old"}
  /\ copies \in [Restores -> {NONE} \cup SUBSET Rows]
  /\ place \in [FILES -> {"own", "half", "backup"}]
  /\ restoreStatus \in [state : States, age : Nat] /\ importStatus \in [state : States, age : Nat]
  /\ screen \in {NONE} \cup [kind : KINDS, age : Nat]
  /\ pc \in [Restores -> Steps] /\ parts \in [Restores -> SUBSET PARTS]
  /\ loaded \in [Restores -> SUBSET Backup] /\ todo \in [Restores -> Seq(FILES)]
  /\ did \in [Restores -> SUBSET PARTS]
  /\ imp \in {"off", "reading", "writing", "committed", "failing", "over", "dead"}
  /\ purge \in BOOLEAN /\ gone \in SUBSET Rows /\ filled \in SUBSET Legacy
  /\ upd \in {"none", "uploading", "incoming", "checking", "saved", "switched"}
  /\ dump \in {NONE} \cup SUBSET Rows
  /\ upd \in {"saved", "switched"} => dump \in SUBSET Rows
  /\ events \in Nat

TypeOK == StateOK /\ late \in [Restores -> SUBSET Rows] /\ met \in SUBSET Restores

(***************************************************************************)
(* All or nothing: an import's transaction is alone with what it deletes.  *)
(***************************************************************************)
Whole(rows) == \A source \in {Backup, Legacy} : source \subseteq rows \/ source \cap rows = {}

Alone == imp = "writing" => /\ gone = IF purge THEN db ELSE {}
                            /\ \A r \in Restores : pc[r] # "loading"

WholeInv == TypeOK /\ Alone /\ AllOrNothing

(***************************************************************************)
(* Who met whom, and what nobody but a restore itself can do to it.        *)
(***************************************************************************)
MetInv == \A r \in Restores : Working(r) /\ Others(r) => r \in met

ScreenInv == TypeOK /\ MetInv /\ ScreenTrue

\* What a restore replaces is in its copy, or came in later.
Saved(r) == pc[r] \in Copying =>
              \/ copies[r] # NONE /\ db \subseteq late[r] \cup copies[r]
              \/ r \in met /\ ~Stick

SavedInv == TypeOK /\ MetInv /\ \A r \in Restores : Saved(r)

\* The files a restore still has to put back, and those it has put back.
Elements(s) == {s[i] : i \in 1..Len(s)}
Left(r)  == Elements(todo[r])
Files(r) == did[r] \ {"database"}

Progress(r) ==
  /\ pc[r] \in Over \cup {"asked", "checking", "copying", "copied"} => did[r] = {}
  /\ pc[r] \in {"clearing", "dropping", "loading", "placing"} =>
       \/ Files(r) = {} /\ Left(r) = {}
       \/ Left(r) \subseteq parts[r] /\ Files(r) = (parts[r] \ {"database"}) \ Left(r)
  /\ pc[r] \in {"migrating", "migrated"} => Files(r) \in {{}, parts[r] \ {"database"}}

\* What an undisturbed restore has brought back is still there.
Kept(r) == Working(r) /\ r \notin met =>
             /\ \A p \in Files(r) : place[p] = "backup"
             /\ pc[r] \in Placing /\ "database" \in parts[r] => Backup \subseteq db
             /\ pc[r] = "migrated" => schema = "current"

DoneInv == TypeOK /\ MetInv /\ \A r \in Restores : Progress(r) /\ Kept(r)

-----------------------------------------------------------------------------
USE NoneAssumption, PartsAssumption, StaleAssumption
USE DEF data, files, job, import, update

(***************************************************************************)
(* Type correctness.                                                       *)
(***************************************************************************)
LEMMA RowKinds ==
  /\ Own \in SUBSET Rows /\ Backup \in SUBSET Rows /\ Legacy \in SUBSET Rows /\ Added \in SUBSET Rows
  /\ {} \in SUBSET Rows
BY DEF Rows

LEMMA FilesTyped == ASSUME NEW chosen PROVE FilesOf(chosen) \in Seq(FILES)
<1>1. /\ "certificates" \in FILES /\ "identity" \in FILES /\ "settings" \in FILES
  BY DEF FILES, PARTS
<1>2. ASSUME NEW f \in FILES PROVE <<f, f>> \in Seq(FILES) /\ <<f>> \in Seq(FILES) /\ <<>> \in Seq(FILES)
  OBVIOUS
<1>3. ASSUME NEW s \in Seq(FILES), NEW t \in Seq(FILES) PROVE s \o t \in Seq(FILES)
  OBVIOUS
<1>4. ASSUME NEW b \in BOOLEAN, NEW s \in Seq(FILES) PROVE (IF b THEN s ELSE <<>>) \in Seq(FILES)
  OBVIOUS
<1> DEFINE one == IF "certificates" \in chosen THEN <<"certificates", "certificates">> ELSE <<>>
           two == IF "identity" \in chosen THEN <<"identity", "identity">> ELSE <<>>
           three == IF "settings" \in chosen THEN <<"settings">> ELSE <<>>
<1>5. one \in Seq(FILES) /\ two \in Seq(FILES) /\ three \in Seq(FILES)
  BY <1>1, <1>2
<1> HIDE DEF one, two, three
<1>6. (one \o two) \o three \in Seq(FILES)
  BY <1>3, <1>5
<1> QED
  BY <1>6 DEF FilesOf, one, two, three

LEMMA InitTyped == Init => TypeOK
<1> SUFFICES ASSUME Init PROVE TypeOK
  OBVIOUS
<1>1. <<>> \in Seq(FILES)
  OBVIOUS
<1>2. todo \in [Restores -> Seq(FILES)]
  BY <1>1 DEF Init
<1>3. "off" \in Steps /\ "idle" \in States
  BY DEF Steps, Over, States
<1>4. /\ pc \in [Restores -> Steps] /\ copies \in [Restores -> {NONE} \cup SUBSET Rows]
      /\ restoreStatus \in [state : States, age : Nat] /\ importStatus \in [state : States, age : Nat]
  BY <1>3 DEF Init
<1>5. /\ place \in [FILES -> {"own", "half", "backup"}]
  BY DEF Init, FILES
<1> QED
  BY <1>2, <1>4, <1>5, RowKinds DEF Init, TypeOK, StateOK

\* The history only names restores and rows.
LEMMA HistoryTyped ==
  ASSUME History, late \in [Restores -> SUBSET Rows], db' \in SUBSET Rows
  PROVE  late' \in [Restores -> SUBSET Rows] /\ met' \in SUBSET Restores
<1>1. met' \in SUBSET Restores
  BY DEF History
<1>2. ASSUME NEW r \in Restores PROVE late[r] \cup (db' \ db) \in SUBSET Rows /\ {} \in SUBSET Rows
  OBVIOUS
<1>3. late' \in [Restores -> SUBSET Rows]
  BY <1>2 DEF History
<1> QED
  BY <1>1, <1>3

LEMMA ForgetsTyped ==
  ASSUME StateOK, NEW ended, Forgets(ended)
  PROVE  /\ parts' \in [Restores -> SUBSET PARTS] /\ loaded' \in [Restores -> SUBSET Backup]
         /\ todo' \in [Restores -> Seq(FILES)] /\ did' \in [Restores -> SUBSET PARTS]
<1>1. <<>> \in Seq(FILES)
  OBVIOUS
<1> QED
  BY <1>1 DEF StateOK, Forgets

LEMMA WebStopsTyped ==
  ASSUME StateOK, WebStops
  PROVE  /\ pc' \in [Restores -> Steps]
         /\ parts' \in [Restores -> SUBSET PARTS] /\ loaded' \in [Restores -> SUBSET Backup]
         /\ todo' \in [Restores -> Seq(FILES)] /\ did' \in [Restores -> SUBSET PARTS]
         /\ imp' \in {"off", "over", "dead"} /\ purge' = FALSE /\ gone' = {} /\ filled' = {}
  BY ForgetsTyped DEF WebStops, StateOK, Steps, Over

LEMMA TypedRestore ==
  ASSUME StateOK, NEW r \in Restores, Restore(r) \/ Thread(r) \/ WorkerDies(r)
  PROVE  StateOK'
<1> USE DEF Goes, Says, Shows, Happens, Steps, Over, Copying, Placing, States, KINDS
<1>1. ASSUME NEW chosen \in Choices, Asks(r, chosen) PROVE StateOK'
  BY <1>1 DEF Asks, StateOK
<1>2. CASE UploadRefused(r)
  BY <1>2, ForgetsTyped DEF UploadRefused, StateOK
<1>3. CASE StartRestore(r)
  BY <1>3 DEF StartRestore, StateOK
<1>4. CASE Checked(r)
  BY <1>4 DEF Checked, StateOK
<1>5. CASE CopiesFirst(r)
  BY <1>5 DEF CopiesFirst, StateOK
<1>6. ASSUME NEW held \in {{}, PARTS}, BeginsRestoring(r, held) PROVE StateOK'
  BY <1>6, FilesTyped DEF BeginsRestoring, StateOK
<1>7. CASE Terminates(r)
  <2>1. pc' \in [Restores -> Steps] /\ loaded' \in [Restores -> SUBSET Backup]
    BY <1>7 DEF Terminates, StateOK
  <2>2. imp' \in {imp, "failing"} /\ gone' \in {gone, {}} /\ filled' \in {filled, {}}
    BY <1>7 DEF Terminates
  <2> QED
    BY <1>7, <2>1, <2>2 DEF Terminates, StateOK
<1>8. CASE Drops(r)
  BY <1>8 DEF Drops, StateOK
<1>9. CASE LoadsRow(r)
  BY <1>9 DEF LoadsRow, StateOK
<1>10. CASE Commits(r)
  BY <1>10, RowKinds DEF Commits, StateOK, PARTS
<1>11. CASE PlacesFile(r)
  <2>1. todo[r] \in Seq(FILES) /\ todo[r] # <<>>
    BY <1>11 DEF PlacesFile, StateOK
  <2>2. Head(todo[r]) \in FILES /\ Tail(todo[r]) \in Seq(FILES)
    BY <2>1
  <2>3. Head(todo[r]) \in PARTS
    BY <2>2 DEF FILES
  <2>4. place' \in [FILES -> {"own", "half", "backup"}] /\ did' \in [Restores -> SUBSET PARTS]
    BY <1>11, <2>2, <2>3 DEF PlacesFile, StateOK
  <2>5. todo' \in [Restores -> Seq(FILES)]
    BY <1>11, <2>2 DEF PlacesFile, StateOK
  <2> QED
    BY <1>11, <2>4, <2>5 DEF PlacesFile, StateOK
<1>12. CASE BeginsMigrating(r)
  BY <1>12 DEF BeginsMigrating, StateOK
<1>13. CASE Migrated(r)
  BY <1>13 DEF Migrated, StateOK
<1>14. CASE Finishes(r)
  BY <1>14, ForgetsTyped DEF Finishes, StateOK
<1>15. CASE Fails(r)
  BY <1>15, ForgetsTyped DEF Fails, FailsHidden, StateOK
<1>16. CASE WorkerDies(r)
  BY <1>16, ForgetsTyped DEF WorkerDies, StateOK
<1> QED
  BY <1>1, <1>2, <1>3, <1>4, <1>5, <1>6, <1>7, <1>8, <1>9, <1>10, <1>11, <1>12, <1>13, <1>14, <1>15, <1>16
     DEF Restore, Thread

LEMMA TypedImport ==
  ASSUME StateOK, ImportThread \/ ImportDies \/ \E withPurge \in BOOLEAN : StartImport(withPurge)
  PROVE  StateOK'
<1> USE DEF Tells, Happens, States, StateOK
<1>1. CASE BeginsImport
  BY <1>1 DEF BeginsImport
<1>2. CASE ImportsRow
  BY <1>2 DEF ImportsRow
<1>3. CASE CommitsImport
  BY <1>3, RowKinds DEF CommitsImport
<1>4. CASE FinishesImport
  BY <1>4 DEF FinishesImport
<1>5. CASE FailsImport
  <2>1. /\ imp' = "over" /\ purge' = FALSE /\ gone' = {} /\ filled' = {} /\ events' \in {events, events + 1}
        /\ importStatus' \in [state : {"error"}, age : Nat]
        /\ UNCHANGED <<data, restoreStatus, screen, pc, job, update>>
    BY <1>5 DEF FailsImport
  <2>2. gone' \in SUBSET Rows /\ filled' \in SUBSET Legacy /\ purge' \in BOOLEAN
    BY <2>1
  <2>3. events' \in Nat /\ importStatus' \in [state : States, age : Nat]
    BY <2>1
  <2> QED
    BY <2>1, <2>2, <2>3
<1>6. CASE ImportDies
  <2>1. /\ imp' = "dead" /\ purge' = FALSE /\ gone' = {} /\ filled' = {} /\ events' = events + 1
        /\ UNCHANGED <<data, files, pc, job, update>>
    BY <1>6 DEF ImportDies
  <2>2. gone' \in SUBSET Rows /\ filled' \in SUBSET Legacy /\ purge' \in BOOLEAN
    BY <2>1
  <2>3. events' \in Nat
    BY <2>1
  <2> QED
    BY <2>1, <2>2, <2>3
<1>7. CASE \E withPurge \in BOOLEAN : StartImport(withPurge)
  BY <1>7 DEF StartImport
<1> QED
  BY <1>1, <1>2, <1>3, <1>4, <1>5, <1>6, <1>7 DEF ImportThread

LEMMA TypedOthers ==
  ASSUME StateOK, Watcher \/ Ages \/ Resets \/ (\E row \in Added : Books(row))
                  \/ AsksUpdate \/ Uploaded \/ StackRestarts
  PROVE  StateOK'
<1> USE DEF Shows, Happens, KINDS
<1>1. CASE PicksBundle \/ RefusesBundle \/ Applied \/ AsksUpdate \/ Uploaded
  BY <1>1 DEF PicksBundle, RefusesBundle, Applied, AsksUpdate, Uploaded, StateOK
<1>2. CASE StopsAndSaves
  BY <1>2, WebStopsTyped DEF StopsAndSaves, StateOK
<1>3. CASE Switches
  BY <1>3 DEF Switches, StateOK
<1>4. CASE RollsBack
  BY <1>4, WebStopsTyped DEF RollsBack, StateOK
<1>5. CASE StackRestarts
  <2>1. WebStops /\ events' \in Nat /\ schema' = "current" /\ UNCHANGED <<db, copies, place, files, update>>
    BY <1>5 DEF StackRestarts, StateOK
  <2> QED
    BY <2>1, WebStopsTyped DEF StateOK
<1>6. CASE Resets \/ \E row \in Added : Books(row)
  BY <1>6, RowKinds DEF Resets, Books, StateOK
<1>7. CASE Ages
  <2>1. ASSUME NEW s \in [state : States, age : Nat], NEW cap
        PROVE  [s EXCEPT !.age = IF s.state = "running" /\ @ < cap THEN @ + 1 ELSE @] \in [state : States, age : Nat]
    OBVIOUS
  <2>2. restoreStatus' \in [state : States, age : Nat] /\ importStatus' \in [state : States, age : Nat]
    BY <1>7, <2>1 DEF Ages, StateOK
  <2>3. screen' \in {NONE} \cup [kind : KINDS, age : Nat]
    BY <1>7 DEF Ages, Shown, StateOK
  <2>4. events' \in Nat
    BY <1>7 DEF Ages, StateOK
  <2> QED
    BY <1>7, <2>2, <2>3, <2>4 DEF Ages, StateOK
<1> QED
  BY <1>1, <1>2, <1>3, <1>4, <1>5, <1>6, <1>7 DEF Watcher

LEMMA TypedNext == TypeOK /\ [Next]_vars => TypeOK'
<1> SUFFICES ASSUME TypeOK, [Next]_vars PROVE TypeOK'
  OBVIOUS
<1>1. CASE Next
  <2>1. StateOK
    BY DEF TypeOK, StateOK
  <2>2. StateOK'
    BY <1>1, <2>1, TypedRestore, TypedImport, TypedOthers DEF Next, Someone
  <2>3. late' \in [Restores -> SUBSET Rows] /\ met' \in SUBSET Restores
    BY <1>1, <2>2, HistoryTyped DEF Next, TypeOK, StateOK
  <2> QED
    BY <2>2, <2>3 DEF TypeOK, StateOK
<1>2. CASE UNCHANGED vars
  BY <1>2 DEF vars, TypeOK, StateOK
<1> QED
  BY <1>1, <1>2

\* Type correctness: rows, copies, files and every job's place are what the code knows.
THEOREM Typed == Spec => []TypeOK
BY InitTyped, TypedNext, PTL DEF Spec

(***************************************************************************)
(* All or nothing.                                                         *)
(***************************************************************************)
LEMMA Sources ==
  /\ Whole(Own) /\ Whole({}) /\ Whole(Backup) /\ Backup \cap Legacy = {}
  /\ \A row \in Added : row \notin Backup \cup Legacy
BY DEF Whole, Own, Added, Backup, Legacy

\* What can happen to the database, to the dump and to the copies.
LEMMA WholeStep ==
  ASSUME StateOK, Whole(db), dump # NONE => Whole(dump), Alone, Next
  PROVE  /\ Whole(db')
         /\ dump' \in {dump, NONE, db}
         /\ \A r \in Restores : copies'[r] \in {copies[r], NONE, db}
<1> USE Sources DEF StateOK
<1>1. ASSUME NEW r \in Restores, Restore(r) \/ Thread(r) \/ WorkerDies(r)
      PROVE  /\ db' = db \/ db' = Backup
             /\ dump' = dump /\ \A s \in Restores : copies'[s] \in {copies[s], NONE, db}
  <2>1. CASE Checked(r) \/ CopiesFirst(r) \/ Commits(r)
    BY <2>1 DEF Checked, CopiesFirst, Commits, SourceWhole
  <2>2. CASE ~(Checked(r) \/ CopiesFirst(r) \/ Commits(r))
    <3>1. UNCHANGED <<db, dump, copies>>
      BY <1>1, <2>2
         DEF Restore, Thread, Asks, UploadRefused, StartRestore, BeginsRestoring, Terminates, Drops, LoadsRow,
             PlacesFile, BeginsMigrating, Migrated, Finishes, Fails, WorkerDies
    <3> QED
      BY <3>1
  <2> QED
    BY <2>1, <2>2
<1>2. CASE CommitsImport
  <2>1. db' = (db \ gone) \cup Legacy /\ gone = IF purge THEN db ELSE {}
    BY <1>2 DEF CommitsImport, Alone
  <2>2. Whole(db')
    <3>1. CASE purge
      BY <2>1, <3>1 DEF Whole
    <3>2. CASE ~purge
      BY <2>1, <3>2 DEF Whole
    <3> QED
      BY <3>1, <3>2
  <2> QED
    BY <1>2, <2>2 DEF CommitsImport
<1>3. CASE Resets \/ \E row \in Added : Books(row)
  <2>1. db' = {} \/ \E row \in Added : db' = db \cup {row}
    BY <1>3 DEF Resets, Books
  <2>2. Whole(db')
    BY <2>1 DEF Whole
  <2> QED
    BY <1>3, <2>2 DEF Resets, Books
<1>4. CASE BeginsImport \/ ImportsRow \/ FinishesImport \/ FailsImport \/ ImportDies
           \/ \E withPurge \in BOOLEAN : StartImport(withPurge)
  BY <1>4 DEF BeginsImport, ImportsRow, FinishesImport, FailsImport, ImportDies, StartImport
<1>5. CASE Watcher
  <2>1. CASE RollsBack
    <3>1. db' = dump /\ dump # NONE /\ dump' = NONE /\ copies' = copies
      BY <2>1 DEF RollsBack
    <3> QED
      BY <3>1
  <2>2. CASE ~RollsBack
    BY <1>5, <2>2 DEF Watcher, PicksBundle, RefusesBundle, StopsAndSaves, Switches, Applied
  <2> QED
    BY <2>1, <2>2
<1>6. CASE AsksUpdate \/ Uploaded \/ StackRestarts \/ Ages
  BY <1>6 DEF AsksUpdate, Uploaded, StackRestarts, Ages
<1> QED
  BY <1>1, <1>2, <1>3, <1>4, <1>5, <1>6 DEF Next, Someone, ImportThread

\* Nothing else touches the database while an import's transaction has rows to delete from it.
LEMMA AloneStep == ASSUME StateOK, Alone, Next PROVE Alone'
<1> USE DEF StateOK, Alone
<1>1. ASSUME NEW r \in Restores, Restore(r) \/ Thread(r) \/ WorkerDies(r) PROVE Alone'
  <2>1. CASE Drops(r)
    BY <2>1 DEF Drops
  <2>2. CASE Terminates(r)
    <3>1. imp' # "writing"
      BY <2>2 DEF Terminates
    <3> QED
      BY <3>1
  <2>3. CASE Commits(r)
    BY <2>3 DEF Commits, Goes
  <2>4. CASE Restore(r) \/ WorkerDies(r)
    BY <2>4 DEF Restore, Asks, UploadRefused, StartRestore, WorkerDies, Goes
  <2>5. CASE Checked(r) \/ CopiesFirst(r) \/ LoadsRow(r) \/ PlacesFile(r) \/ (\E held \in {{}, PARTS} : BeginsRestoring(r, held))
    BY <2>5 DEF Checked, CopiesFirst, LoadsRow, PlacesFile, BeginsRestoring, Goes
  <2>6. CASE BeginsMigrating(r) \/ Migrated(r) \/ Finishes(r) \/ Fails(r)
    BY <2>6 DEF BeginsMigrating, Migrated, Finishes, Fails, FailsHidden, Goes
  <2> QED
    BY <1>1, <2>1, <2>2, <2>3, <2>4, <2>5, <2>6 DEF Thread
<1>2. CASE ImportThread \/ ImportDies \/ \E withPurge \in BOOLEAN : StartImport(withPurge)
  <2>1. CASE BeginsImport
    BY <2>1 DEF BeginsImport, Locked
  <2>2. CASE ~BeginsImport
    BY <1>2, <2>2 DEF ImportThread, ImportsRow, CommitsImport, FinishesImport, FailsImport, ImportDies, StartImport
  <2> QED
    BY <2>1, <2>2
<1>3. CASE Resets \/ \E row \in Added : Books(row)
  BY <1>3 DEF Resets, Books, Locked
<1>4. CASE StopsAndSaves \/ RollsBack \/ StackRestarts
  <2>1. imp' # "writing"
    BY <1>4 DEF StopsAndSaves, RollsBack, StackRestarts, WebStops
  <2> QED
    BY <2>1
<1>5. CASE PicksBundle \/ RefusesBundle \/ Switches \/ Applied \/ AsksUpdate \/ Uploaded \/ Ages
  BY <1>5 DEF PicksBundle, RefusesBundle, Switches, Applied, AsksUpdate, Uploaded, Ages
<1> QED
  BY <1>1, <1>2, <1>3, <1>4, <1>5 DEF Next, Someone, Watcher

LEMMA InitWhole == Init => WholeInv
BY InitTyped, Sources DEF Init, WholeInv, Alone, AllOrNothing, Whole

LEMMA WholeNext == WholeInv /\ [Next]_vars => WholeInv'
<1> SUFFICES ASSUME WholeInv, [Next]_vars PROVE WholeInv'
  OBVIOUS
<1>1. TypeOK' /\ StateOK
  BY TypedNext DEF WholeInv, TypeOK
<1>2. CASE Next
  <2>1. db # NONE /\ db' # NONE
    BY <1>1 DEF TypeOK, StateOK
  <2>2. /\ Whole(db) /\ (dump # NONE => Whole(dump))
        /\ \A r \in Restores : copies[r] # NONE => Whole(copies[r])
    <3>1. \A rows \in {db, dump} \cup {copies[r] : r \in Restores} : rows # NONE => Whole(rows)
      BY DEF WholeInv, AllOrNothing, Whole
    <3>2. \A r \in Restores : copies[r] \in {db, dump} \cup {copies[s] : s \in Restores}
      OBVIOUS
    <3> QED
      BY <2>1, <3>1, <3>2
  <2>3. /\ Whole(db') /\ dump' \in {dump, NONE, db}
        /\ \A r \in Restores : copies'[r] \in {copies[r], NONE, db}
    BY <1>1, <1>2, <2>2, WholeStep DEF WholeInv
  <2>4. /\ dump' # NONE => Whole(dump')
        /\ \A r \in Restores : copies'[r] # NONE => Whole(copies'[r])
    BY <2>2, <2>3
  <2>5. AllOrNothing'
    BY <2>3, <2>4 DEF AllOrNothing, Whole
  <2>6. Alone'
    BY <1>1, <1>2, AloneStep DEF WholeInv
  <2> QED
    BY <1>1, <2>5, <2>6 DEF WholeInv
<1>3. CASE UNCHANGED vars
  BY <1>1, <1>3 DEF vars, WholeInv, Alone, AllOrNothing
<1> QED
  BY <1>2, <1>3

\* Whatever runs beside whatever, fails, is killed or is rolled back: of a backup or an old database all
\* rows are in the database, the dump and every copy, or none is.
THEOREM NothingHalf == Spec => []AllOrNothing
<1>1. WholeInv => AllOrNothing
  BY DEF WholeInv
<1> QED
  BY <1>1, InitWhole, WholeNext, PTL DEF Spec

(***************************************************************************)
(* The screen.                                                             *)
(***************************************************************************)
LEMMA InitMet == Init => MetInv
BY DEF Init, MetInv, Working, Over

LEMMA MetNext == MetInv /\ [Next]_vars => MetInv'
<1>1. Next => MetInv'
  BY DEF Next, History, MetInv
<1>2. MetInv /\ UNCHANGED vars => MetInv'
  BY DEF vars, MetInv, Working, Others, Importing, Updating, Over
<1> QED
  BY <1>1, <1>2

\* What a restore has met it keeps having met, and so does one that works beside a job.
LEMMA MetGrows ==
  ASSUME Next, MetInv, NEW r \in Restores, Working(r)', r \notin met'
  PROVE  /\ r \notin met /\ ~(Others(r)') /\ ~(db # {} /\ db' = {})
         /\ Working(r) => ~Others(r)
BY DEF Next, History, MetInv

LEMMA StepKinds ==
  /\ Over \cap {"checking", "copying", "copied", "clearing", "dropping", "loading", "failing", "placing",
                "migrating", "migrated"} = {}
  /\ {"off", "over", "dead"} = Over /\ "asked" \notin Over
BY DEF Over

LEMMA Older ==
  ASSUME NEW shown \in [kind : KINDS, age : Nat]
  PROVE  [shown EXCEPT !.age = @ + 1] \in [kind : KINDS, age : Nat]
OBVIOUS

\* When a job takes the screen away nobody else is covered who has not met it; when one shows it,
\* it is busy itself.
LEMMA ScreenStep ==
  ASSUME StateOK, Next,
         screen # NONE => Updating \/ \E r \in Restores : Covered(r) \/ pc[r] = "dead"
  PROVE  /\ screen' # NONE => Updating' \/ \E r \in Restores : Covered(r)' \/ pc'[r] = "dead"
         /\ \A r \in Restores : Covered(r)' /\ screen' = NONE =>
              \/ screen = NONE /\ Covered(r)
              \/ Working(r) /\ Others(r)
<1> USE StepKinds DEF StateOK, Covered, Working
<1> USE NoneAssumption
<1>1. ASSUME NEW k \in KINDS, Shows(k) PROVE screen' # NONE
  BY <1>1 DEF Shows
<1>2. ASSUME NEW r \in Restores, Finishes(r) \/ Fails(r)
      PROVE  /\ screen' = NONE /\ Working(r) /\ ~(Covered(r)')
             /\ \A s \in Restores \ {r} : pc'[s] = pc[s]
  BY <1>2 DEF Finishes, Fails, FailsHidden, Goes
<1>3. ASSUME NEW r \in Restores, Finishes(r) \/ Fails(r), NEW s \in Restores, Covered(s)'
      PROVE  Working(s) /\ Others(s)
  BY <1>2, <1>3 DEF Others
<1>4. ASSUME NEW r \in Restores, Checked(r) \/ BeginsMigrating(r) \/ \E held \in {{}, PARTS} : BeginsRestoring(r, held)
      PROVE  screen' # NONE /\ Covered(r)'
  BY <1>1, <1>4 DEF Checked, BeginsMigrating, BeginsRestoring, Goes, KINDS
<1>5. ASSUME NEW r \in Restores, Restore(r) \/ Thread(r) \/ WorkerDies(r),
             ~(Finishes(r) \/ Fails(r)),
             ~(Checked(r) \/ BeginsMigrating(r) \/ \E held \in {{}, PARTS} : BeginsRestoring(r, held))
      PROVE  /\ UNCHANGED <<screen, upd>>
             /\ \A s \in Restores : /\ Covered(s) => Covered(s)' \/ pc'[s] = "dead"
                                    /\ Covered(s)' => Covered(s)
                                    /\ pc[s] = "dead" => pc'[s] = "dead"
  <2>1. CASE CopiesFirst(r) \/ Drops(r) \/ Commits(r) \/ Migrated(r)
    BY <2>1 DEF CopiesFirst, Drops, Commits, Migrated, Goes
  <2>2. CASE LoadsRow(r) \/ PlacesFile(r)
    BY <2>2 DEF LoadsRow, PlacesFile
  <2>3. CASE Terminates(r)
    BY <2>3 DEF Terminates
  <2>4. CASE Restore(r)
    BY <2>4 DEF Restore, Asks, UploadRefused, StartRestore, Goes
  <2>5. CASE WorkerDies(r)
    BY <2>5 DEF WorkerDies, Goes
  <2> QED
    BY <1>5, <2>1, <2>2, <2>3, <2>4, <2>5 DEF Thread
<1>6. ASSUME NEW r \in Restores, Restore(r) \/ Thread(r) \/ WorkerDies(r)
      PROVE  /\ screen' # NONE => Updating' \/ \E s \in Restores : Covered(s)' \/ pc'[s] = "dead"
             /\ \A s \in Restores : Covered(s)' /\ screen' = NONE =>
                  \/ screen = NONE /\ Covered(s)
                  \/ Working(s) /\ Others(s)
  BY <1>2, <1>3, <1>4, <1>5, <1>6 DEF Updating
<1>7. CASE ImportThread \/ ImportDies \/ (\E withPurge \in BOOLEAN : StartImport(withPurge))
           \/ Resets \/ (\E row \in Added : Books(row)) \/ AsksUpdate \/ Uploaded
  <2>1. UNCHANGED <<screen, pc>> /\ (Updating => Updating')
    <3>1. CASE ImportThread \/ ImportDies \/ \E withPurge \in BOOLEAN : StartImport(withPurge)
      BY <3>1 DEF ImportThread, BeginsImport, ImportsRow, CommitsImport, FinishesImport, FailsImport,
                  ImportDies, StartImport, Updating
    <3>2. CASE Resets \/ \E row \in Added : Books(row)
      BY <3>2 DEF Resets, Books, Updating
    <3>3. CASE AsksUpdate \/ Uploaded
      BY <3>3 DEF AsksUpdate, UpdateBusy, Uploaded, Updating
    <3> QED
      BY <1>7, <3>1, <3>2, <3>3
  <2> QED
    BY <2>1
<1>8. CASE PicksBundle \/ Switches
  BY <1>1, <1>8 DEF PicksBundle, Switches, Updating, KINDS
<1>9. CASE RefusesBundle \/ Applied
  <2>1. screen' = NONE /\ pc' = pc /\ Updating
    BY <1>9 DEF RefusesBundle, Applied, Updating
  <2> QED
    BY <2>1 DEF Others
<1>10. CASE StopsAndSaves \/ RollsBack \/ StackRestarts
  <2>1. \A r \in Restores : ~(Covered(r)') /\ (Covered(r) \/ pc[r] = "dead" => pc'[r] = "dead")
    BY <1>10 DEF StopsAndSaves, RollsBack, StackRestarts, WebStops
  <2>2. StopsAndSaves => Updating'
    BY DEF StopsAndSaves, Updating
  <2>3. RollsBack => screen' = NONE
    BY DEF RollsBack
  <2>4. StackRestarts => screen' = screen /\ ~Updating
    BY DEF StackRestarts
  <2> QED
    BY <1>10, <2>1, <2>2, <2>3, <2>4
<1>11. CASE Ages
  <2>1. UNCHANGED <<pc, upd>>
    BY <1>11 DEF Ages
  <2>2. screen' = NONE <=> screen = NONE
    <3>1. CASE screen = NONE
      BY <1>11, <3>1 DEF Ages, Shown
    <3>2. CASE screen \in [kind : KINDS, age : Nat]
      <4>1. [screen EXCEPT !.age = @ + 1] \in [kind : KINDS, age : Nat]
        BY <3>2, Older
      <4>2. screen' \in {screen, [screen EXCEPT !.age = @ + 1]}
        BY <1>11 DEF Ages
      <4> QED
        BY <3>2, <4>1, <4>2
    <3> QED
      BY <3>1, <3>2
  <2> QED
    BY <2>1, <2>2 DEF Updating
<1> QED
  BY <1>6, <1>7, <1>8, <1>9, <1>10, <1>11 DEF Next, Someone, Watcher

LEMMA InitScreen == Init => ScreenInv
BY InitTyped, InitMet DEF Init, ScreenInv, ScreenTrue, Covered, Working, Over

LEMMA ScreenNext == ScreenInv /\ [Next]_vars => ScreenInv'
<1> SUFFICES ASSUME ScreenInv, [Next]_vars PROVE ScreenInv'
  OBVIOUS
<1>1. TypeOK' /\ StateOK /\ MetInv /\ MetInv'
  BY TypedNext, MetNext DEF ScreenInv, TypeOK
<1>2. CASE Next
  <2>1. /\ screen' # NONE => Updating' \/ \E r \in Restores : Covered(r)' \/ pc'[r] = "dead"
        /\ \A r \in Restores : Covered(r)' /\ screen' = NONE =>
             \/ screen = NONE /\ Covered(r)
             \/ Working(r) /\ Others(r)
    BY <1>1, <1>2, ScreenStep DEF ScreenInv, ScreenTrue
  <2>2. ASSUME NEW r \in Restores, Covered(r)', r \notin met' PROVE screen' # NONE
    <3>1. r \notin met /\ (Working(r) => ~Others(r))
      BY <1>1, <1>2, <2>2, MetGrows DEF Covered
    <3> QED
      BY <2>1, <2>2, <3>1 DEF ScreenInv, ScreenTrue
  <2> QED
    BY <1>1, <2>1, <2>2 DEF ScreenInv, ScreenTrue
<1>3. CASE UNCHANGED vars
  BY <1>1, <1>3 DEF vars, ScreenInv, ScreenTrue, Covered, Working, Updating
<1> QED
  BY <1>2, <1>3

\* The kiosk is covered while a restore that nothing ran beside has something to save or to replace, and
\* not after the last one ended, unless it died.
THEOREM Screen == Spec => []ScreenTrue
<1>1. ScreenInv => ScreenTrue
  BY DEF ScreenInv
<1> QED
  BY <1>1, InitScreen, ScreenNext, PTL DEF Spec

(***************************************************************************)
(* Nothing is lost.                                                        *)
(***************************************************************************)
LEMMA CopyingKinds ==
  /\ Copying \cap Over = {} /\ Copying \cap Placing = {} /\ "loading" \in Copying
  /\ Copying \cap {"asked", "checking", "copying", "failing"} = {}
  /\ "asked" \notin Over
BY DEF Copying, Placing, Over

\* Only the restores' own steps touch the copies: each its own, and on the card one makes room.
LEMMA CopiesStep ==
  ASSUME StateOK, Next, NEW r \in Restores, pc'[r] \in Copying
  PROVE  \/ /\ pc[r] = "copying" /\ copies'[r] = db /\ db' = db
         \/ /\ pc[r] \in Copying
            /\ \/ copies'[r] = copies[r]
               \/ ~Stick /\ Others(r)
<1> USE CopyingKinds DEF StateOK, Goes
<1>1. ASSUME NEW s \in Restores, Restore(s) \/ WorkerDies(s) PROVE pc[r] \in Copying /\ copies' = copies
  BY <1>1 DEF Restore, Asks, UploadRefused, StartRestore, WorkerDies, Over
<1>2. ASSUME NEW s \in Restores, CopiesFirst(s)
      PROVE  IF s = r THEN pc[r] = "copying" /\ copies'[r] = db /\ db' = db
                      ELSE pc[r] \in Copying /\ copies'[r] = copies[r]
  BY <1>2 DEF CopiesFirst
<1>3. ASSUME NEW s \in Restores, Checked(s)
      PROVE  pc[r] \in Copying /\ (copies'[r] = copies[r] \/ (~Stick /\ Others(r)))
  <2>1. s # r /\ pc[r] \in Copying
    BY <1>3 DEF Checked
  <2>2. Working(s)
    BY <1>3 DEF Checked, Working, Over
  <2> QED
    BY <1>3, <2>1, <2>2 DEF Checked, Others
<1>4. ASSUME NEW s \in Restores, Thread(s), ~CopiesFirst(s), ~Checked(s)
      PROVE  pc[r] \in Copying /\ copies' = copies
  <2>1. CASE \E held \in {{}, PARTS} : BeginsRestoring(s, held)
    BY <2>1 DEF BeginsRestoring, Copying, Placing
  <2>2. CASE Terminates(s)
    BY <2>2 DEF Terminates, Copying
  <2>3. CASE Drops(s) \/ LoadsRow(s) \/ PlacesFile(s)
    BY <2>3 DEF Drops, LoadsRow, PlacesFile, Copying
  <2>4. CASE Commits(s) \/ BeginsMigrating(s) \/ Migrated(s)
    BY <2>4 DEF Commits, BeginsMigrating, Migrated, Copying
  <2>5. CASE Finishes(s) \/ Fails(s)
    BY <2>5 DEF Finishes, Fails, FailsHidden, Copying, Over
  <2> QED
    BY <1>4, <2>1, <2>2, <2>3, <2>4, <2>5 DEF Thread
<1>5. CASE ImportThread \/ ImportDies \/ (\E withPurge \in BOOLEAN : StartImport(withPurge))
  BY <1>5 DEF ImportThread, BeginsImport, ImportsRow, CommitsImport, FinishesImport, FailsImport, ImportDies,
              StartImport
<1>6. CASE Resets \/ (\E row \in Added : Books(row)) \/ AsksUpdate \/ Uploaded \/ Ages
  BY <1>6 DEF Resets, Books, AsksUpdate, Uploaded, Ages
<1>7. CASE Watcher \/ StackRestarts
  <2>1. CASE PicksBundle \/ RefusesBundle \/ Switches \/ Applied
    BY <2>1 DEF PicksBundle, RefusesBundle, Switches, Applied
  <2>2. CASE StopsAndSaves \/ RollsBack \/ StackRestarts
    <3>1. pc'[r] \in Over
      BY <2>2 DEF StopsAndSaves, RollsBack, StackRestarts, WebStops, Over
    <3> QED
      BY <3>1
  <2> QED
    BY <1>7, <2>1, <2>2 DEF Watcher
<1> QED
  BY <1>1, <1>2, <1>3, <1>4, <1>5, <1>6, <1>7 DEF Next, Someone

LEMMA SavedStep ==
  ASSUME SavedInv, Next, NEW r \in Restores
  PROVE  Saved(r)'
<1> SUFFICES ASSUME pc'[r] \in Copying
             PROVE  \/ copies'[r] # NONE /\ db' \subseteq late'[r] \cup copies'[r]
                    \/ r \in met' /\ ~Stick
  BY DEF Saved
<1>1. StateOK /\ MetInv /\ Saved(r) /\ Working(r)'
  BY CopyingKinds DEF SavedInv, TypeOK, Working
<1>2. db # NONE
  BY <1>1 DEF StateOK
<1>3. CASE pc[r] = "copying" /\ copies'[r] = db /\ db' = db
  BY <1>2, <1>3
<1>4. CASE pc[r] \in Copying
  <2>1. late'[r] = late[r] \cup (db' \ db)
    BY <1>1, <1>4, CopyingKinds DEF Next, History, Copying
  <2>2. Working(r)
    BY <1>4, CopyingKinds DEF Working
  <2>3. r \in met \/ Others(r) => r \in met'
    BY <1>1, <2>2, MetGrows
  <2>4. CASE copies'[r] = copies[r]
    BY <1>1, <1>4, <2>1, <2>3, <2>4 DEF Saved
  <2>5. CASE ~Stick /\ Others(r)
    BY <2>3, <2>5
  <2> QED
    BY <1>1, <1>3, <2>4, <2>5, CopiesStep
<1> QED
  BY <1>1, <1>3, <1>4, CopiesStep

LEMMA InitSaved == Init => SavedInv
BY InitTyped, InitMet, CopyingKinds DEF Init, SavedInv, Saved, Over

LEMMA SavedNext == SavedInv /\ [Next]_vars => SavedInv'
<1> SUFFICES ASSUME SavedInv, [Next]_vars PROVE SavedInv'
  OBVIOUS
<1>1. TypeOK' /\ MetInv'
  BY TypedNext, MetNext DEF SavedInv
<1>2. CASE Next
  BY <1>1, <1>2, SavedStep DEF SavedInv
<1>3. CASE UNCHANGED vars
  BY <1>1, <1>3 DEF vars, SavedInv, Saved
<1> QED
  BY <1>2, <1>3

\* A restore replaces nothing that is not in a safety copy on disk, but for what came in after its own
\* was taken - unless another restore beside it made room on the card (_safety_dir()).
THEOREM Lossless == Spec => NothingLost
<1>1. ASSUME SavedInv, NEW r \in Restores, pc[r] = "loading"
      PROVE  \/ db \subseteq late[r] \cup UNION {copies[s] : s \in {x \in Restores : copies[x] # NONE}}
             \/ r \in met /\ ~Stick
  <2>1. CASE copies[r] # NONE /\ db \subseteq late[r] \cup copies[r]
    <3>1. copies[r] \in {copies[s] : s \in {x \in Restores : copies[x] # NONE}}
      BY <2>1
    <3> QED
      BY <2>1, <3>1
  <2>2. (copies[r] # NONE /\ db \subseteq late[r] \cup copies[r]) \/ (r \in met /\ ~Stick)
    BY <1>1, CopyingKinds DEF SavedInv, Saved
  <2> QED
    BY <2>1, <2>2
<1>2. SavedInv => [\A r \in Restores : pc[r] = "loading" /\ pc'[r] = "placing" =>
       \/ db \subseteq late[r] \cup UNION {copies[s] : s \in {x \in Restores : copies[x] # NONE}}
       \/ r \in met /\ ~Stick]_vars
  BY <1>1
<1> QED
  BY <1>2, InitSaved, SavedNext, PTL DEF Spec, NothingLost

(***************************************************************************)
(* Done means restored.                                                    *)
(***************************************************************************)
LEMMA TwoParts ==
  ASSUME NEW s \in Seq(FILES), NEW t \in Seq(FILES)
  PROVE  Elements(s \o t) = Elements(s) \cup Elements(t)
<1>1. /\ s \o t \in Seq(FILES) /\ Len(s \o t) = Len(s) + Len(t) /\ Len(s) \in Nat /\ Len(t) \in Nat
      /\ \A i \in 1..Len(s) : (s \o t)[i] = s[i]
      /\ \A i \in 1..Len(t) : (s \o t)[i + Len(s)] = t[i]
  OBVIOUS
<1>2. ASSUME NEW i \in 1..Len(s \o t) PROVE (s \o t)[i] \in Elements(s) \cup Elements(t)
  <2>1. CASE i <= Len(s)
    BY <1>1, <2>1 DEF Elements
  <2>2. CASE i > Len(s)
    <3>1. i - Len(s) \in 1..Len(t) /\ (s \o t)[i] = t[i - Len(s)]
      BY <1>1, <2>2
    <3> QED
      BY <3>1 DEF Elements
  <2> QED
    BY <1>1, <2>1, <2>2
<1>3. ASSUME NEW i \in 1..Len(s) PROVE s[i] \in Elements(s \o t)
  <2>1. i \in 1..Len(s \o t) /\ (s \o t)[i] = s[i]
    BY <1>1
  <2> QED
    BY <2>1 DEF Elements
<1>4. ASSUME NEW i \in 1..Len(t) PROVE t[i] \in Elements(s \o t)
  <2>1. i + Len(s) \in 1..Len(s \o t) /\ (s \o t)[i + Len(s)] = t[i]
    BY <1>1
  <2> QED
    BY <2>1 DEF Elements
<1>5. Elements(s \o t) \subseteq Elements(s) \cup Elements(t)
  BY <1>2 DEF Elements
<1>6. Elements(s) \subseteq Elements(s \o t) /\ Elements(t) \subseteq Elements(s \o t)
  BY <1>3, <1>4 DEF Elements
<1> QED
  BY <1>5, <1>6

\* The files to put back are those of the parts asked for, without the database.
LEMMA FilesAre == ASSUME NEW chosen \in SUBSET PARTS
                  PROVE  Elements(FilesOf(chosen)) = chosen \ {"database"}
<1>1. /\ "certificates" \in FILES /\ "identity" \in FILES /\ "settings" \in FILES
  BY DEF FILES, PARTS
<1>2. Elements(<<>>) = {}
  BY DEF Elements
<1>3. ASSUME NEW f \in FILES PROVE Elements(<<f>>) = {f} /\ Elements(<<f, f>>) = {f}
  <2>1. 1..Len(<<f>>) = {1} /\ 1..Len(<<f, f>>) = {1, 2}
    OBVIOUS
  <2> QED
    BY <2>1 DEF Elements
<1> DEFINE one == IF "certificates" \in chosen THEN <<"certificates", "certificates">> ELSE <<>>
           two == IF "identity" \in chosen THEN <<"identity", "identity">> ELSE <<>>
           three == IF "settings" \in chosen THEN <<"settings">> ELSE <<>>
<1>4. /\ one \in Seq(FILES) /\ Elements(one) = chosen \cap {"certificates"}
      /\ two \in Seq(FILES) /\ Elements(two) = chosen \cap {"identity"}
      /\ three \in Seq(FILES) /\ Elements(three) = chosen \cap {"settings"}
  <2>1. one \in Seq(FILES) /\ two \in Seq(FILES) /\ three \in Seq(FILES)
    BY <1>1
  <2>2. Elements(one) = chosen \cap {"certificates"}
    BY <1>1, <1>2, <1>3
  <2>3. Elements(two) = chosen \cap {"identity"}
    BY <1>1, <1>2, <1>3
  <2>4. Elements(three) = chosen \cap {"settings"}
    BY <1>1, <1>2, <1>3
  <2> QED
    BY <2>1, <2>2, <2>3, <2>4
<1> HIDE DEF one, two, three
<1>5. one \o two \in Seq(FILES)
  BY <1>4
<1>6. Elements((one \o two) \o three) = Elements(one) \cup Elements(two) \cup Elements(three)
  BY <1>4, <1>5, TwoParts
<1>7. FilesOf(chosen) = (one \o two) \o three
  BY DEF FilesOf, one, two, three
<1> QED
  BY <1>4, <1>6, <1>7 DEF PARTS

\* Of the first file of a list the rest: all parts are left, or all but its own.
LEMMA FirstFile ==
  ASSUME NEW s \in Seq(FILES), s # <<>>
  PROVE  LET rest == {s[i] : i \in 2..Len(s)}
         IN  /\ Elements(Tail(s)) = rest /\ Elements(s) = {Head(s)} \cup rest
<1>1. /\ Len(s) \in Nat /\ Len(s) >= 1 /\ Tail(s) \in Seq(FILES) /\ Len(Tail(s)) = Len(s) - 1
      /\ Head(s) = s[1] /\ \A i \in 1..Len(Tail(s)) : Tail(s)[i] = s[i + 1]
  OBVIOUS
<1> DEFINE rest == {s[i] : i \in 2..Len(s)}
<1>2. ASSUME NEW i \in 1..Len(Tail(s)) PROVE Tail(s)[i] \in rest
  <2>1. i + 1 \in 2..Len(s) /\ Tail(s)[i] = s[i + 1]
    BY <1>1
  <2> QED
    BY <2>1
<1>3. ASSUME NEW i \in 2..Len(s) PROVE s[i] \in Elements(Tail(s))
  <2>1. i - 1 \in 1..Len(Tail(s)) /\ Tail(s)[i - 1] = s[(i - 1) + 1] /\ (i - 1) + 1 = i
    BY <1>1
  <2> QED
    BY <2>1 DEF Elements
<1>4. Elements(Tail(s)) = rest
  BY <1>2, <1>3 DEF Elements
<1>5. ASSUME NEW i \in 1..Len(s) PROVE s[i] \in {Head(s)} \cup rest
  <2>1. i = 1 \/ i \in 2..Len(s)
    BY <1>1
  <2> QED
    BY <1>1, <2>1
<1>6. 1 \in 1..Len(s) /\ \A i \in 2..Len(s) : i \in 1..Len(s)
  BY <1>1
<1>7. Elements(s) = {Head(s)} \cup rest
  BY <1>1, <1>5, <1>6 DEF Elements
<1> QED
  BY <1>4, <1>7

LEMMA PlacingKinds ==
  /\ Placing = {"placing", "migrating", "migrated"} /\ Over = {"off", "over", "dead"}
  /\ Copying = {"copied", "clearing", "dropping", "loading"}
BY DEF Placing, Over, Copying

Same(r) == pc'[r] = pc[r] /\ parts'[r] = parts[r] /\ todo'[r] = todo[r] /\ did'[r] = did[r]

\* What others can do to a restore: nothing, end its connection, or end its process.
LEMMA FromOutside ==
  ASSUME StateOK, Next, NEW r \in Restores, ~(Restore(r) \/ Thread(r) \/ WorkerDies(r))
  PROVE  \/ Same(r)
         \/ pc[r] = "loading" /\ pc'[r] = "failing" /\ did'[r] = did[r]
         \/ pc'[r] \in Over /\ did'[r] = {}
<1> USE DEF StateOK, Goes, Same
<1>1. ASSUME NEW s \in Restores, s # r, Restore(s) \/ WorkerDies(s) PROVE Same(r)
  BY <1>1 DEF Restore, Asks, UploadRefused, StartRestore, WorkerDies, Forgets
<1>2. ASSUME NEW s \in Restores, s # r, Thread(s), ~Terminates(s) PROVE Same(r)
  <2>1. CASE Checked(s) \/ CopiesFirst(s) \/ (\E held \in {{}, PARTS} : BeginsRestoring(s, held))
    BY <1>2, <2>1 DEF Checked, CopiesFirst, BeginsRestoring
  <2>2. CASE Drops(s) \/ LoadsRow(s) \/ Commits(s)
    BY <1>2, <2>2 DEF Drops, LoadsRow, Commits
  <2>3. CASE PlacesFile(s)
    BY <1>2, <2>3 DEF PlacesFile
  <2>4. CASE BeginsMigrating(s) \/ Migrated(s)
    BY <1>2, <2>4 DEF BeginsMigrating, Migrated
  <2>5. CASE Finishes(s) \/ Fails(s)
    BY <1>2, <2>5 DEF Finishes, Fails, FailsHidden, Forgets
  <2> QED
    BY <1>2, <2>1, <2>2, <2>3, <2>4, <2>5 DEF Thread
<1>3. ASSUME NEW s \in Restores, s # r, Terminates(s)
      PROVE  Same(r) \/ (pc[r] = "loading" /\ pc'[r] = "failing" /\ did'[r] = did[r])
  BY <1>3 DEF Terminates
<1>4. CASE ImportThread \/ ImportDies \/ (\E withPurge \in BOOLEAN : StartImport(withPurge))
  BY <1>4 DEF ImportThread, BeginsImport, ImportsRow, CommitsImport, FinishesImport, FailsImport, ImportDies,
              StartImport
<1>5. CASE Resets \/ (\E row \in Added : Books(row)) \/ AsksUpdate \/ Uploaded \/ Ages
  BY <1>5 DEF Resets, Books, AsksUpdate, Uploaded, Ages
<1>6. CASE PicksBundle \/ RefusesBundle \/ Switches \/ Applied
  BY <1>6 DEF PicksBundle, RefusesBundle, Switches, Applied
<1>7. CASE StopsAndSaves \/ RollsBack \/ StackRestarts
  BY <1>7 DEF StopsAndSaves, RollsBack, StackRestarts, WebStops, Forgets, Over
<1> QED
  BY <1>1, <1>2, <1>3, <1>4, <1>5, <1>6, <1>7 DEF Next, Someone, Watcher

\* A file of a restore is put back: the part it is the last of is among those that are done.
LEMMA PlacedFile ==
  ASSUME StateOK, NEW r \in Restores, PlacesFile(r)
  PROVE  LET part == Head(todo[r])
         IN  /\ part \in FILES /\ Left(r) = {part} \cup Left(r)'
             /\ did'[r] = IF part \in Left(r)' THEN did[r] ELSE did[r] \cup {part}
             /\ place'[part] = IF part \in Left(r)' THEN "half" ELSE "backup"
             /\ \A p \in FILES \ {part} : place'[p] = place[p]
<1> DEFINE part == Head(todo[r])
           rest == {todo[r][i] : i \in 2..Len(todo[r])}
<1>1. todo[r] \in Seq(FILES) /\ todo[r] # <<>> /\ part \in FILES
  BY DEF PlacesFile, StateOK
<1>2. todo'[r] = Tail(todo[r])
  BY DEF PlacesFile, StateOK
<1>3. Left(r)' = rest /\ Left(r) = {part} \cup rest
  BY <1>1, <1>2, FirstFile DEF Left
<1>4. /\ did'[r] = IF part \notin rest THEN did[r] \cup {part} ELSE did[r]
      /\ place' = [place EXCEPT ![part] = IF part \notin rest THEN "backup" ELSE "half"]
  BY DEF PlacesFile, StateOK
<1>5. place \in [FILES -> {"own", "half", "backup"}]
  BY DEF StateOK
<1> HIDE DEF rest
<1>6. place'[part] = (IF part \notin rest THEN "backup" ELSE "half") /\ \A p \in FILES \ {part} : place'[p] = place[p]
  BY <1>1, <1>4, <1>5
<1> QED
  BY <1>1, <1>3, <1>4, <1>6

LEMMA ProgressStep ==
  ASSUME StateOK, Next, NEW r \in Restores, Progress(r)
  PROVE  Progress(r)'
<1> USE PlacingKinds DEF StateOK, Goes
<1>1. CASE ~(Restore(r) \/ Thread(r) \/ WorkerDies(r))
  BY <1>1, FromOutside DEF Same, Progress, Left, Files
<1>2. CASE Restore(r)
  BY <1>2 DEF Restore, Asks, UploadRefused, StartRestore, Forgets, Progress, Left, Files
<1>3. CASE WorkerDies(r)
  BY <1>3 DEF WorkerDies, Forgets, Progress
<1>4. CASE Checked(r) \/ CopiesFirst(r)
  BY <1>4 DEF Checked, CopiesFirst, Progress
<1>5. ASSUME NEW held \in {{}, PARTS}, BeginsRestoring(r, held) PROVE Progress(r)'
  <2>1. did'[r] = {} /\ parts'[r] = parts[r] /\ todo'[r] = FilesOf(parts[r] \cap held)
        /\ pc'[r] \in {"clearing", "placing"}
    BY <1>5 DEF BeginsRestoring, Progress
  <2>2. parts[r] \in SUBSET PARTS
    OBVIOUS
  <2>3. Left(r)' = (parts[r] \cap held) \ {"database"}
    BY <2>1, <2>2, FilesAre DEF Left
  <2>4. (parts[r] \cap held) \in {{}, parts[r]}
    BY <2>2
  <2>5. Files(r)' = {}
    BY <2>1 DEF Files
  <2>6. \/ Files(r)' = {} /\ Left(r)' = {}
        \/ Left(r)' \subseteq parts'[r] /\ Files(r)' = (parts'[r] \ {"database"}) \ Left(r)'
    BY <2>1, <2>3, <2>4, <2>5
  <2> QED
    BY <2>1, <2>6 DEF Progress
<1>6. CASE Terminates(r) \/ Drops(r) \/ LoadsRow(r) \/ Commits(r)
  <2>1. /\ pc[r] \in {"clearing", "dropping", "loading"} /\ pc'[r] \in {"dropping", "loading", "placing"}
        /\ todo'[r] = todo[r] /\ parts'[r] = parts[r] /\ did'[r] \in {did[r], did[r] \cup {"database"}}
    BY <1>6 DEF Terminates, Drops, LoadsRow, Commits
  <2>2. Files(r)' = Files(r) /\ Left(r)' = Left(r)
    BY <2>1 DEF Files, Left
  <2> QED
    BY <2>1, <2>2 DEF Progress
<1>7. CASE PlacesFile(r)
  <2>1. pc[r] = "placing" /\ pc'[r] = "placing" /\ parts'[r] = parts[r]
    BY <1>7 DEF PlacesFile
  <2> DEFINE part == Head(todo[r])
  <2>2. PICK f \in FILES : f = part
    BY <1>7, PlacedFile
  <2>3. /\ Left(r) = {f} \cup Left(r)' /\ f # "database"
        /\ did'[r] = IF f \in Left(r)' THEN did[r] ELSE did[r] \cup {f}
    BY <1>7, <2>2, PlacedFile DEF FILES
  <2>4. Left(r) \subseteq parts[r] /\ Files(r) = (parts[r] \ {"database"}) \ Left(r)
    BY <2>1, <2>3 DEF Progress
  <2>5. Files(r)' = IF f \in Left(r)' THEN Files(r) ELSE Files(r) \cup {f}
    BY <2>3 DEF Files
  <2>6. f \in parts[r] /\ Left(r)' \subseteq Left(r)
    BY <2>3, <2>4
  <2>7. Left(r)' \subseteq parts'[r] /\ Files(r)' = (parts'[r] \ {"database"}) \ Left(r)'
    BY <2>1, <2>3, <2>4, <2>5, <2>6
  <2> QED
    BY <2>1, <2>7 DEF Progress
<1>8. CASE BeginsMigrating(r)
  <2>1. pc[r] = "placing" /\ pc'[r] = "migrating" /\ parts'[r] = parts[r] /\ did'[r] = did[r] /\ todo[r] = <<>>
    BY <1>8 DEF BeginsMigrating
  <2>2. Left(r) = {}
    BY <2>1 DEF Left, Elements
  <2> QED
    BY <2>1, <2>2 DEF Progress, Files
<1>9. CASE Migrated(r)
  BY <1>9 DEF Migrated, Progress, Files
<1>10. CASE Finishes(r) \/ Fails(r)
  BY <1>10 DEF Finishes, Fails, FailsHidden, Forgets, Progress
<1> QED
  BY <1>1, <1>2, <1>3, <1>4, <1>5, <1>6, <1>7, <1>8, <1>9, <1>10 DEF Thread

LEMMA WorkingKinds ==
  /\ \A r \in Restores : Working(r) <=> pc[r] \notin {"off", "over", "dead", "asked"}
  /\ \A r \in Restores : Working(r)' <=> pc'[r] \notin {"off", "over", "dead", "asked"}
BY DEF Working, Over

\* Who begins to work has begun to check the backup.
LEMMA BeginsWork ==
  ASSUME StateOK, Next, NEW r \in Restores, ~Working(r), Working(r)'
  PROVE  pc'[r] = "checking"
<1> USE WorkingKinds DEF StateOK, Goes
<1>1. CASE ~(Restore(r) \/ Thread(r) \/ WorkerDies(r))
  BY <1>1, FromOutside, PlacingKinds DEF Same
<1>2. CASE Restore(r)
  BY <1>2 DEF Restore, Asks, UploadRefused, StartRestore
<1>3. CASE WorkerDies(r)
  BY <1>3 DEF WorkerDies
<1>4. CASE Thread(r)
  BY <1>4 DEF Thread, Checked, CopiesFirst, BeginsRestoring, Terminates, Drops, LoadsRow, Commits, PlacesFile,
              BeginsMigrating, Migrated, Finishes, Fails, Over
<1> QED
  BY <1>1, <1>2, <1>3, <1>4

\* While no other job works, a restore finds what it has brought back - and perhaps a new booking.
LEMMA Undisturbed ==
  ASSUME StateOK, Next, NEW r \in Restores, Working(r), Working(r)', ~Others(r), ~Thread(r),
         ~(db # {} /\ db' = {})
  PROVE  /\ Same(r) /\ place' = place /\ db \subseteq db' /\ schema' = schema
<1> USE WorkingKinds DEF StateOK, Goes
<1>1. ASSUME NEW s \in Restores, s # r PROVE ~Thread(s)
  <2>1. Thread(s) => Working(s)
    BY DEF Thread, Checked, CopiesFirst, BeginsRestoring, Terminates, Drops, LoadsRow, Commits, PlacesFile,
           BeginsMigrating, Migrated, Finishes, Fails
  <2> QED
    BY <1>1, <2>1 DEF Others
<1>2. ~Importing /\ ~Updating
  BY DEF Others
<1>3. ~(Restore(r) \/ WorkerDies(r))
  BY DEF Restore, Asks, UploadRefused, StartRestore, WorkerDies
<1>4. Same(r)
  <2>1. pc[r] = "loading" /\ pc'[r] = "failing" => \E s \in Restores : Terminates(s)
    <3>1. CASE \E s \in Restores : Restore(s) \/ WorkerDies(s)
      BY <1>3, <3>1 DEF Restore, Asks, UploadRefused, StartRestore, WorkerDies
    <3>2. CASE ImportThread \/ ImportDies \/ (\E withPurge \in BOOLEAN : StartImport(withPurge))
      BY <3>2 DEF ImportThread, BeginsImport, ImportsRow, CommitsImport, FinishesImport, FailsImport, ImportDies,
                  StartImport
    <3>3. CASE Resets \/ (\E row \in Added : Books(row)) \/ AsksUpdate \/ Uploaded \/ Ages
      BY <3>3 DEF Resets, Books, AsksUpdate, Uploaded, Ages
    <3>4. CASE Watcher \/ StackRestarts
      BY <3>4 DEF Watcher, PicksBundle, RefusesBundle, Switches, Applied, StopsAndSaves, RollsBack,
                  StackRestarts, WebStops
    <3> QED
      BY <1>1, <3>1, <3>2, <3>3, <3>4 DEF Next, Someone
  <2>2. \A s \in Restores : ~Terminates(s)
    BY <1>1 DEF Thread
  <2> QED
    BY <1>3, <2>1, <2>2, FromOutside, PlacingKinds
<1>5. CASE \E s \in Restores : Restore(s) \/ WorkerDies(s)
  BY <1>4, <1>5 DEF Restore, Asks, UploadRefused, StartRestore, WorkerDies
<1>6. CASE ImportThread \/ ImportDies \/ (\E withPurge \in BOOLEAN : StartImport(withPurge))
  BY <1>2, <1>4, <1>6 DEF ImportThread, BeginsImport, ImportsRow, CommitsImport, FinishesImport, FailsImport,
                          ImportDies, StartImport, Importing
<1>7. CASE Resets \/ (\E row \in Added : Books(row)) \/ AsksUpdate \/ Uploaded \/ Ages
  BY <1>4, <1>7 DEF Resets, Books, AsksUpdate, Uploaded, Ages
<1>8. CASE Watcher \/ StackRestarts
  <2>1. ~(StackRestarts \/ StopsAndSaves \/ RollsBack)
    BY DEF StackRestarts, StopsAndSaves, RollsBack, WebStops, Over
  <2>2. PicksBundle
    BY <1>2, <1>8, <2>1 DEF Watcher, RefusesBundle, Switches, Applied, Updating
  <2> QED
    BY <1>4, <2>2 DEF PicksBundle
<1> QED
  BY <1>1, <1>5, <1>6, <1>7, <1>8 DEF Next, Someone

LEMMA KeptStep ==
  ASSUME StateOK, MetInv, Next, NEW r \in Restores, Progress(r), Progress(r)', Kept(r)
  PROVE  Kept(r)'
<1> SUFFICES ASSUME Working(r)', r \notin met' PROVE Kept(r)'
  BY DEF Kept
<1>1. r \notin met /\ ~(db # {} /\ db' = {}) /\ (Working(r) => ~Others(r))
  BY MetGrows
<1>2. CASE ~Working(r)
  <2>1. pc'[r] = "checking" /\ did'[r] = {}
    BY <1>2, BeginsWork DEF Progress
  <2> QED
    BY <2>1, PlacingKinds DEF Kept, Files
<1>3. CASE Working(r) /\ ~Thread(r)
  <2>1. Same(r) /\ place' = place /\ db \subseteq db' /\ schema' = schema
    BY <1>1, <1>3, Undisturbed
  <2> QED
    BY <1>1, <1>3, <2>1 DEF Same, Kept, Files
<1> USE PlacingKinds DEF StateOK, Goes
<1>4. CASE Checked(r) \/ CopiesFirst(r) \/ Terminates(r) \/ Drops(r) \/ LoadsRow(r)
  <2>1. pc'[r] \notin Placing /\ did'[r] = did[r] /\ place' = place /\ Working(r)
    BY <1>4, WorkingKinds DEF Checked, CopiesFirst, Terminates, Drops, LoadsRow
  <2> QED
    BY <1>1, <2>1 DEF Kept, Files
<1>5. ASSUME NEW held \in {{}, PARTS}, BeginsRestoring(r, held) PROVE Kept(r)'
  <2>1. /\ pc'[r] = IF "database" \in parts[r] THEN "clearing" ELSE "placing"
        /\ parts'[r] = parts[r] /\ did'[r] = did[r] /\ did[r] = {}
    BY <1>5 DEF BeginsRestoring, Progress
  <2> QED
    BY <2>1 DEF Kept, Files
<1>6. CASE Commits(r)
  <2>1. /\ db' = Backup /\ pc'[r] = "placing" /\ place' = place /\ did'[r] = did[r] \cup {"database"} /\ Working(r)
    BY <1>6, WorkingKinds DEF Commits, SourceWhole
  <2>2. Files(r)' = Files(r)
    BY <2>1 DEF Files
  <2> QED
    BY <1>1, <2>1, <2>2 DEF Kept
<1>7. CASE PlacesFile(r)
  <2> DEFINE part == Head(todo[r])
  <2>1. /\ pc[r] = "placing" /\ pc'[r] = "placing" /\ parts'[r] = parts[r] /\ db' = db /\ Working(r)
    BY <1>7, WorkingKinds DEF PlacesFile
  <2>2. PICK f \in FILES : f = part
    BY <1>7, PlacedFile
  <2>3. Left(r) = {f} \cup Left(r)'
    BY <1>7, <2>2, PlacedFile
  <2>4. did'[r] = IF f \in Left(r)' THEN did[r] ELSE did[r] \cup {f}
    BY <1>7, <2>2, PlacedFile
  <2>5. place'[f] = IF f \in Left(r)' THEN "half" ELSE "backup"
    BY <1>7, <2>2, PlacedFile
  <2>6. /\ f \in Left(r)
        /\ did'[r] = IF f \in Left(r)' THEN did[r] ELSE did[r] \cup {f}
        /\ place'[f] = IF f \in Left(r)' THEN "half" ELSE "backup"
        /\ \A p \in FILES \ {f} : place'[p] = place[p]
    BY <1>7, <2>2, <2>3, <2>4, <2>5, PlacedFile
  <2>7. f \notin Files(r) /\ Files(r) \subseteq FILES
    BY <2>1, <2>6 DEF Progress, Files, FILES
  <2>8. \A p \in Files(r) : place[p] = "backup"
    BY <1>1, <2>1 DEF Kept
  <2>9. Files(r)' \subseteq IF f \in Left(r)' THEN Files(r) ELSE Files(r) \cup {f}
    BY <2>6 DEF Files
  <2>10. \A p \in Files(r)' : place'[p] = "backup"
    BY <2>6, <2>7, <2>8, <2>9
  <2> QED
    BY <1>1, <2>1, <2>10 DEF Kept
<1>8. CASE BeginsMigrating(r) \/ Migrated(r)
  <2>1. /\ pc[r] \in Placing /\ Working(r) /\ parts'[r] = parts[r] /\ did'[r] = did[r] /\ place' = place /\ db' = db
        /\ pc'[r] = "migrated" => schema' = "current"
    BY <1>8, WorkingKinds DEF BeginsMigrating, Migrated
  <2> QED
    BY <1>1, <2>1 DEF Kept, Files
<1>9. CASE Finishes(r) \/ Fails(r)
  BY <1>9, WorkingKinds DEF Finishes, Fails, FailsHidden
<1> QED
  BY <1>2, <1>3, <1>4, <1>5, <1>6, <1>7, <1>8, <1>9 DEF Thread

LEMMA InitDone == Init => DoneInv
<1> SUFFICES ASSUME Init PROVE DoneInv
  OBVIOUS
<1>1. TypeOK /\ MetInv
  BY InitTyped, InitMet
<1>2. ASSUME NEW r \in Restores PROVE Progress(r) /\ Kept(r)
  <2>1. pc[r] = "off" /\ did[r] = {}
    BY DEF Init
  <2> QED
    BY <2>1, WorkingKinds, PlacingKinds DEF Progress, Kept
<1> QED
  BY <1>1, <1>2 DEF DoneInv

LEMMA DoneNext == DoneInv /\ [Next]_vars => DoneInv'
<1> SUFFICES ASSUME DoneInv, [Next]_vars PROVE DoneInv'
  OBVIOUS
<1>1. TypeOK' /\ MetInv' /\ StateOK
  BY TypedNext, MetNext DEF DoneInv, TypeOK
<1>2. CASE Next
  <2>1. ASSUME NEW r \in Restores PROVE Progress(r)' /\ Kept(r)'
    <3>1. Progress(r) /\ Kept(r) /\ MetInv
      BY DEF DoneInv
    <3>2. Progress(r)'
      BY <1>1, <1>2, <3>1, ProgressStep
    <3> QED
      BY <1>1, <1>2, <3>1, <3>2, KeptStep
  <2> QED
    BY <1>1, <2>1 DEF DoneInv
<1>3. CASE UNCHANGED vars
  BY <1>1, <1>3 DEF vars, DoneInv, Progress, Kept, Files, Left, Working
<1> QED
  BY <1>2, <1>3

\* "Done" is said of a restore only when what it was to bring back, as far as the backup has it, is in
\* place, whole, and the tables are this version's - unless something else ran beside it.
THEOREM DoneRestored == Spec => DoneMeansRestored
<1> DEFINE Restored(r) ==
             /\ "database" \in parts[r] => Backup \subseteq db
             /\ did[r] \ {"database"} \in {{}, parts[r] \ {"database"}}
             /\ \A p \in did[r] \ {"database"} : place[p] = "backup"
             /\ schema = "current"
<1>1. ASSUME DoneInv, Next, NEW r \in Restores, Ends(r, "done"), r \notin met PROVE Restored(r)
  <2>1. StateOK /\ Progress(r) /\ Kept(r) /\ Working(r) /\ pc'[r] = "over" /\ restoreStatus'.state = "done"
    BY <1>1 DEF DoneInv, TypeOK, Ends
  <2>2. pc[r] = "migrated"
    <3> USE WorkingKinds DEF StateOK, Goes, Says
    <3>1. CASE ~(Restore(r) \/ Thread(r) \/ WorkerDies(r))
      <4>1. CASE \E s \in Restores : Restore(s) \/ WorkerDies(s) \/ Thread(s)
        <5>1. PICK s \in Restores : Restore(s) \/ WorkerDies(s) \/ Thread(s)
          BY <4>1
        <5>2. s # r
          BY <3>1, <5>1
        <5>3. pc'[r] \in {pc[r], "failing"}
          <6>1. CASE Restore(s) \/ WorkerDies(s)
            BY <2>1, <5>2, <6>1 DEF Restore, Asks, UploadRefused, StartRestore, WorkerDies
          <6>2. CASE Terminates(s)
            BY <2>1, <5>2, <6>2 DEF Terminates
          <6>3. CASE Checked(s) \/ CopiesFirst(s) \/ (\E held \in {{}, PARTS} : BeginsRestoring(s, held)) \/ Drops(s)
            BY <2>1, <5>2, <6>3 DEF Checked, CopiesFirst, BeginsRestoring, Drops
          <6>4. CASE LoadsRow(s) \/ Commits(s) \/ PlacesFile(s) \/ BeginsMigrating(s)
            BY <2>1, <5>2, <6>4 DEF LoadsRow, Commits, PlacesFile, BeginsMigrating
          <6>5. CASE Migrated(s) \/ Finishes(s) \/ Fails(s)
            BY <2>1, <5>2, <6>5 DEF Migrated, Finishes, Fails, FailsHidden
          <6> QED
            BY <5>1, <6>1, <6>2, <6>3, <6>4, <6>5 DEF Thread
        <5> QED
          BY <2>1, <5>3
      <4>2. CASE ImportThread \/ ImportDies \/ (\E withPurge \in BOOLEAN : StartImport(withPurge))
        BY <2>1, <4>2 DEF ImportThread, BeginsImport, ImportsRow, CommitsImport, FinishesImport, FailsImport,
                    ImportDies, StartImport
      <4>3. CASE Resets \/ (\E row \in Added : Books(row)) \/ AsksUpdate \/ Uploaded \/ Ages
        BY <2>1, <4>3 DEF Resets, Books, AsksUpdate, Uploaded, Ages
      <4>4. CASE Watcher \/ StackRestarts
        BY <2>1, <4>4 DEF Watcher, PicksBundle, RefusesBundle, Switches, Applied, StopsAndSaves, RollsBack,
                    StackRestarts, WebStops, Over
      <4> QED
        BY <1>1, <3>1, <4>1, <4>2, <4>3, <4>4 DEF Next, Someone
    <3>2. CASE Restore(r) \/ WorkerDies(r)
      BY <2>1, <3>2 DEF Restore, Asks, UploadRefused, StartRestore, WorkerDies
    <3>3. CASE Thread(r)
      <4>1. ~Fails(r)
        BY <2>1 DEF Fails, FailsHidden
      <4>2. Finishes(r)
        BY <2>1, <3>3, <4>1 DEF Thread, Checked, CopiesFirst, BeginsRestoring, Terminates, Drops, LoadsRow,
              Commits, PlacesFile, BeginsMigrating, Migrated
      <4> QED
        BY <4>2 DEF Finishes
    <3> QED
      BY <3>1, <3>2, <3>3
  <2> QED
    BY <1>1, <2>1, <2>2, PlacingKinds DEF Progress, Kept, Files
<1>2. DoneInv /\ [Next]_vars => [\A r \in Restores : Ends(r, "done") /\ r \notin met => Restored(r)]_vars
  BY <1>1
<1>3. DoneMeansRestored <=> [][\A r \in Restores : Ends(r, "done") /\ r \notin met => Restored(r)]_vars
  BY DEF DoneMeansRestored
<1> QED
  BY <1>2, <1>3, InitDone, DoneNext, PTL DEF Spec
=============================================================================
