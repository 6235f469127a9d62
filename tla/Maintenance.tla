----------------------------- MODULE Maintenance -----------------------------
(***************************************************************************)
(* What replaces the data as a whole, and what keeps it apart: a restore   *)
(* (dashboard/restore_jobs.py, coffee/backups.py), the import of an old    *)
(* database (import_jobs.py, import_sqlite.py), the reset and an update.   *)
(* Restore and import are threads of a web worker that leave their         *)
(* progress in a file each; restore and update also put up the kiosk's     *)
(* maintenance screen, data/maintenance/status.json.                       *)
(*                                                                         *)
(* Abstractions.  The database is the set of its rows: the device's own,   *)
(* new bookings, two of the backup, two of the old database.  PostgreSQL's *)
(* transactions are what they do: a commit puts in all of a transaction, a *)
(* dropped schema is locked until then.  Of the files a restore puts back, *)
(* the device's and the backup's are told apart, two for the certificates  *)
(* and two for the identity.  Time is the age of the three status files.   *)
(* The update is UpdateWatcher's, its steps drawn together; the copy taken *)
(* before a restore is Backups', its rotation left out.  The backup is an  *)
(* older version's.                                                        *)
(***************************************************************************)
EXTENDS Integers, Sequences, FiniteSets

CONSTANTS
  NONE,
  Restores,            \* restores somebody asks for, numbered as they start
  Choices,             \* the sets of parts somebody ticks
  Stick,               \* a backup stick is in: a safety copy goes there, not to the one place on the card
  IMPORT_STALE, RESTORE_STALE, SCREEN_STALE,  \* STALE_AFTER_SECONDS of each, and the screen's two hours
  \* bounds of the environment, not of the program:
  Bookings,            \* rows somebody adds meanwhile
  MaxEvents            \* failures, deaths of a worker, units of time a job takes

PARTS == {"database", "certificates", "identity", "settings"}
ASSUME PartsAssumption == Choices \subseteq SUBSET PARTS
ASSUME StaleAssumption ==
  /\ IMPORT_STALE \in Nat \ {0} /\ RESTORE_STALE \in Nat \ {0} /\ SCREEN_STALE \in Nat \ {0}
  /\ Restores \subseteq Nat /\ MaxEvents \in Nat /\ Stick \in BOOLEAN

Own == {<<"own", 0>>}
Added == {"booked"} \X Bookings
Backup == {<<"backup", n>> : n \in 1..2}
Legacy == {<<"legacy", n>> : n \in 1..2}
Rows   == Own \cup Added \cup Backup \cup Legacy

KINDS == {"restore", "update"}
ASSUME NoneAssumption == (\A rows \in SUBSET Rows : rows # NONE) /\ NONE \notin [kind : KINDS, age : Nat]

VARIABLES
  db, schema,    \* the committed rows; "old" until an older backup's tables are migrated
  copies,        \* of each restore: its safety copy, if it is still there
  place,         \* of each part of the configuration: "own", "half" or "backup"
  restoreStatus, importStatus, screen,  \* the three files
  pc, parts, loaded, todo, did,  \* of each restore: where it stands, the parts asked for, the rows in its
                                 \* transaction, the files it has to put back, the parts in its list `done`
  imp, purge, gone,  \* the import, "with purge", the rows its transaction deleted
  filled,        \* the rows in the import's transaction
  upd, dump,     \* the update and its database dump
  events,        \* bound
  late,          \* history, of each restore: the rows that came in after its safety copy
  met            \* history: restores that had another job beside them

files == <<restoreStatus, importStatus, screen>>
data == <<db, schema, copies, place>>
job == <<parts, loaded, todo, did>>
import == <<imp, purge, gone, filled>>
update == <<upd, dump>>
vars  == <<data, files, pc, job, import, update, events, late, met>>

Init ==
  /\ db = Own /\ schema = "current"
  /\ copies = [r \in Restores |-> NONE]
  /\ place = [p \in PARTS \ {"database"} |-> "own"]
  /\ restoreStatus = [state |-> "idle", age |-> 0] /\ importStatus = [state |-> "idle", age |-> 0] /\ screen = NONE
  /\ pc = [r \in Restores |-> "off"] /\ parts = [r \in Restores |-> {}]
  /\ loaded = [r \in Restores |-> {}] /\ todo = [r \in Restores |-> <<>>] /\ did = [r \in Restores |-> {}]
  /\ imp = "off" /\ purge = FALSE /\ gone = {} /\ filled = {}
  /\ upd = "none" /\ dump = NONE
  /\ events = 0 /\ late = [r \in Restores |-> {}] /\ met = {}

-----------------------------------------------------------------------------
(* Who sees whom                                                           *)

Over == {"off", "over", "dead"}
Working(r) == pc[r] \notin Over \cup {"asked"}
Covered(r) == Working(r) /\ pc[r] # "checking"   \* from _maintenance("restore_safety") on
Importing == imp \in {"reading", "writing", "committed"}
Updating == upd \in {"checking", "saved", "switched"}
Locked      == (\E r \in Restores : pc[r] = "loading") \/ (imp = "writing" /\ purge)

Fresh(status, stale) == status.state = "running" /\ status.age < stale
\* Mutant: a job that died long ago still counts.
RestoreRunningForever == restoreStatus.state = "running"

RestoreRunning == Fresh(restoreStatus, RESTORE_STALE)
ImportRunning == Fresh(importStatus, IMPORT_STALE)
Shown(kinds) == IF screen = NONE THEN FALSE ELSE screen.kind \in kinds /\ screen.age < SCREEN_STALE

\* _busy() of views_backup and of views_update; other_maintenance()
RestoreBusy == RestoreRunning \/ ImportRunning \/ Shown(KINDS)
UpdateBusy  == upd # "none" \/ RestoreRunning \/ ImportRunning \/ Shown({"restore"})
OtherMaintenance == Shown({"restore"})

Says(state)  == restoreStatus' = [state |-> state, age |-> 0]
Tells(state) == importStatus' = [state |-> state, age |-> 0]
Shows(kind)  == screen' = [kind |-> kind, age |-> 0]
Happens == events < MaxEvents /\ events' = events + 1
Goes(r, step) == pc' = [pc EXCEPT ![r] = step]
\* What only the thread knew, its transaction with it.
Forgets(ended) ==
  /\ parts' = [r \in Restores |-> IF r \in ended THEN {} ELSE parts[r]]
  /\ loaded' = [r \in Restores |-> IF r \in ended THEN {} ELSE loaded[r]]
  /\ todo' = [r \in Restores |-> IF r \in ended THEN <<>> ELSE todo[r]]
  /\ did' = [r \in Restores |-> IF r \in ended THEN {} ELSE did[r]]

-----------------------------------------------------------------------------
(* A restore                                                               *)

\* The request finds nothing else running - and then an upload may take its time, is opened, and
\* its migrations are compared.
Asks(r, chosen) ==
  /\ pc[r] = "off" /\ ~RestoreBusy /\ \A s \in Restores : s < r => pc[s] # "off"
  /\ Goes(r, "asked") /\ parts' = [parts EXCEPT ![r] = chosen]
  /\ UNCHANGED <<data, files, loaded, todo, did, import, update, events>>

UploadRefused(r) ==
  /\ pc[r] = "asked" /\ Goes(r, "over") /\ Forgets({r})
  /\ UNCHANGED <<data, files, import, update, events>>

StartRestore(r) ==
  /\ pc[r] = "asked" /\ Goes(r, "checking") /\ Says("running")
  /\ \A s \in Restores : s < r => pc[s] # "asked"
  /\ UNCHANGED <<data, importStatus, screen, job, import, update, events>>

\* open_backup(), check_compatible() and check_database() have nothing against it; on the card,
\* _safety_dir() makes room for the new copy.
Checked(r) ==
  /\ pc[r] = "checking" /\ Goes(r, "copying") /\ Says("running") /\ Shows("restore")
  /\ copies' = IF Stick THEN copies ELSE [s \in Restores |-> NONE]
  /\ UNCHANGED <<db, schema, place, importStatus, job, import, update, events>>

\* Mutant: a copy that could not be taken is left out.
CopiesNothing(r) ==
  /\ pc[r] = "copying" /\ Goes(r, "copied")
  /\ UNCHANGED <<data, files, job, import, update, events>>
CopiesFirst(r) ==
  /\ pc[r] = "copying" /\ Goes(r, "copied") /\ copies' = [copies EXCEPT ![r] = db]
  /\ UNCHANGED <<db, schema, place, files, job, import, update, events>>

FilesOf(chosen) ==
  (IF "certificates" \in chosen THEN <<"certificates", "certificates">> ELSE <<>>) \o
  (IF "identity" \in chosen THEN <<"identity", "identity">> ELSE <<>>) \o
  (IF "settings" \in chosen THEN <<"settings">> ELSE <<>>)

\* The kinds of configuration the backup has, `held`; an older dump has none.
BeginsRestoring(r, held) ==
  /\ pc[r] = "copied" /\ Says("running") /\ Shows("restore")
  /\ Goes(r, IF "database" \in parts[r] THEN "clearing" ELSE "placing")
  /\ todo' = [todo EXCEPT ![r] = FilesOf(parts[r] \cap held)]
  /\ UNCHANGED <<data, importStatus, parts, loaded, did, import, update, events>>

\* pg_terminate_backend() for everybody else: an open transaction is rolled back, and whoever had it
\* fails at its next statement.
Terminates(r) ==
  /\ pc[r] = "clearing"
  /\ pc' = [s \in Restores |-> IF s = r THEN "dropping" ELSE IF pc[s] = "loading" THEN "failing" ELSE pc[s]]
  /\ loaded' = [s \in Restores |-> IF pc[s] = "loading" THEN {} ELSE loaded[s]]
  /\ IF imp = "writing" THEN imp' = "failing" /\ gone' = {} /\ filled' = {} ELSE UNCHANGED <<imp, gone, filled>>
  /\ UNCHANGED <<data, files, parts, todo, did, purge, update, events>>

\* BEGIN; DROP SCHEMA waits for every other transaction.
Drops(r) ==
  /\ pc[r] = "dropping" /\ ~Locked /\ imp # "writing" /\ Goes(r, "loading")
  /\ loaded' = [loaded EXCEPT ![r] = {}]
  /\ UNCHANGED <<data, files, parts, todo, did, import, update, events>>

LoadsRow(r) ==
  /\ pc[r] = "loading"
  /\ \E row \in Backup \ loaded[r] : row[2] = Cardinality(loaded[r]) + 1 /\ loaded' = [loaded EXCEPT ![r] = @ \cup {row}]
  /\ UNCHANGED <<data, files, pc, parts, todo, did, import, update, events>>

\* Mutant: COMMIT whatever pg_restore said.
SourceEnded(r) == loaded[r] \subseteq Backup
\* pg_restore came to its end without an error, psql took every line.
SourceWhole(r) == loaded[r] = Backup

Commits(r) ==
  /\ pc[r] = "loading" /\ SourceWhole(r) /\ Goes(r, "placing")
  /\ db' = loaded[r] /\ schema' = "old" /\ did' = [did EXCEPT ![r] = @ \cup {"database"}]
  /\ loaded' = [loaded EXCEPT ![r] = {}]
  /\ UNCHANGED <<copies, place, files, parts, todo, import, update, events>>

\* restore_certificates(), restore_identity(): file by file; the settings are a request to the
\* storage helper.
PlacesFile(r) ==
  /\ pc[r] = "placing" /\ todo[r] # <<>>
  /\ LET part == Head(todo[r])
         last == part \notin {todo[r][i] : i \in 2..Len(todo[r])}
     IN /\ place' = [place EXCEPT ![part] = IF last THEN "backup" ELSE "half"]
        /\ did' = IF last THEN [did EXCEPT ![r] = @ \cup {part}] ELSE did
  /\ todo' = [todo EXCEPT ![r] = Tail(@)]
  /\ UNCHANGED <<db, schema, copies, files, pc, parts, loaded, import, update, events>>

\* Mutant: the tables stay as they were in the backup.
SkipsMigrating(r) ==
  /\ pc[r] = "placing" /\ todo[r] = <<>> /\ Goes(r, "migrated")
  /\ UNCHANGED <<data, files, job, import, update, events>>
BeginsMigrating(r) ==
  /\ pc[r] = "placing" /\ todo[r] = <<>> /\ Says("running") /\ Shows("restore") /\ Goes(r, "migrating")
  /\ UNCHANGED <<data, importStatus, job, import, update, events>>

Migrated(r) ==
  /\ pc[r] = "migrating" /\ ~Locked /\ schema' = "current" /\ Goes(r, "migrated")
  /\ UNCHANGED <<db, copies, place, files, job, import, update, events>>

\* `finally` takes the screen away
Finishes(r) ==
  /\ pc[r] = "migrated" /\ Goes(r, "over") /\ Says("done") /\ screen' = NONE /\ Forgets({r})
  /\ UNCHANGED <<data, importStatus, import, update, events>>
\* Mutant: only a restore that worked ends the screen.
FailsShown(r) == Goes(r, "over") /\ Says("error") /\ UNCHANGED screen
FailsHidden(r) == Goes(r, "over") /\ Says("error") /\ screen' = NONE

\* A step raises: a backup refused, a copy that cannot be written, psql or pg_restore with an
\* error, a file that cannot be copied, a migration that fails - or what Terminates() left.
Fails(r) ==
  /\ \/ pc[r] = "failing" /\ UNCHANGED events
     \/ Working(r) /\ pc[r] \notin {"failing", "migrated"} /\ Happens
  /\ FailsHidden(r) /\ Forgets({r})
  /\ UNCHANGED <<data, importStatus, import, update>>

-----------------------------------------------------------------------------
(* The import, the reset, and everybody else                               *)

\* The status of other imports is all it looks at; there is only one here.
StartImport(withPurge) ==
  /\ imp = "off" /\ ~ImportRunning /\ imp' = "reading" /\ purge' = withPurge /\ Tells("running")
  /\ UNCHANGED <<data, restoreStatus, screen, pc, job, gone, filled, update, events>>

\* atomic(): with purge, everything that is there now is deleted first.
BeginsImport ==
  /\ imp = "reading" /\ ~Locked /\ imp' = "writing" /\ Tells("running")
  /\ gone' = (IF purge THEN db ELSE {}) /\ filled' = {}
  /\ UNCHANGED <<data, restoreStatus, screen, pc, job, purge, update, events>>
ImportsRow ==
  /\ imp = "writing" /\ Tells("running")
  /\ \E row \in Legacy \ filled : row[2] = Cardinality(filled) + 1 /\ filled' = filled \cup {row}
  /\ UNCHANGED <<data, restoreStatus, screen, pc, job, imp, purge, gone, update, events>>
CommitsImport ==
  /\ imp = "writing" /\ filled = Legacy /\ imp' = "committed" /\ db' = (db \ gone) \cup filled
  /\ purge' = FALSE /\ gone' = {} /\ filled' = {}
  /\ UNCHANGED <<schema, copies, place, files, pc, job, update, events>>
FinishesImport ==
  /\ imp = "committed" /\ imp' = "over" /\ Tells("done")
  /\ UNCHANGED <<data, restoreStatus, screen, pc, job, purge, gone, filled, update, events>>
FailsImport ==
  /\ \/ imp = "failing" /\ UNCHANGED events
     \/ imp \in {"reading", "writing"} /\ Happens
  /\ imp' = "over" /\ Tells("error") /\ purge' = FALSE /\ gone' = {} /\ filled' = {}
  /\ UNCHANGED <<data, restoreStatus, screen, pc, job, update>>

\* reset_database(): one transaction
Resets ==
  /\ ~ImportRunning /\ ~Locked /\ imp # "writing" /\ db # {} /\ Happens /\ db' = {}
  /\ UNCHANGED <<schema, copies, place, files, pc, job, import, update>>

\* The kiosk and the members' phones; a schema being dropped, a member being deleted make it wait.
Books(row) ==
  /\ row \notin db /\ ~Locked /\ Happens /\ db' = db \cup {row}
  /\ UNCHANGED <<schema, copies, place, files, pc, job, import, update>>

-----------------------------------------------------------------------------
(* An update                                                               *)

\* Threads do not outlive their container; the status files in its /tmp do.
WebStops ==
  /\ pc' = [r \in Restores |-> IF pc[r] \in Over THEN pc[r] ELSE "dead"]
  /\ Forgets(Restores)
  /\ imp' = (IF imp \in {"off", "over", "dead"} THEN imp ELSE "dead")
  /\ purge' = FALSE /\ gone' = {} /\ filled' = {}

AsksUpdate ==
  /\ ~UpdateBusy /\ Happens /\ upd' = "uploading"
  /\ UNCHANGED <<data, files, pc, job, import, dump>>
Uploaded ==
  /\ upd = "uploading" /\ upd' = "incoming"
  /\ UNCHANGED <<data, files, pc, job, import, dump, events>>
PicksBundle ==
  /\ upd = "incoming" /\ ~OtherMaintenance /\ upd' = "checking" /\ Shows("update")
  /\ UNCHANGED <<data, restoreStatus, importStatus, pc, job, import, dump, events>>
RefusesBundle ==
  /\ upd = "checking" /\ upd' = "none" /\ screen' = NONE
  /\ UNCHANGED <<data, restoreStatus, importStatus, pc, job, import, dump, events>>
\* save(): everything that writes stopped, the database dumped
StopsAndSaves ==
  /\ upd = "checking" /\ upd' = "saved" /\ Shows("update") /\ WebStops /\ dump' = db
  /\ UNCHANGED <<data, restoreStatus, importStatus, events>>
\* The new version's containers; its migrate service has run before web starts.
Switches ==
  /\ upd = "saved" /\ upd' = "switched" /\ Shows("update") /\ schema' = "current"
  /\ UNCHANGED <<db, copies, place, restoreStatus, importStatus, pc, job, import, dump, events>>
Applied ==
  /\ upd = "switched" /\ upd' = "none" /\ screen' = NONE /\ dump' = NONE
  /\ UNCHANGED <<data, restoreStatus, importStatus, pc, job, import, events>>
\* undo(): the app's containers stopped, the dump loaded in one transaction
RollsBack ==
  /\ upd \in {"saved", "switched"} /\ upd' = "none" /\ screen' = NONE /\ WebStops
  /\ db' = dump /\ schema' = "current" /\ dump' = NONE
  /\ UNCHANGED <<copies, place, restoreStatus, importStatus, events>>

-----------------------------------------------------------------------------
(* Deaths and time                                                         *)

\* gunicorn kills the worker a thread runs in
WorkerDies(r) ==
  /\ pc[r] \notin Over /\ Happens /\ Goes(r, "dead") /\ Forgets({r})
  /\ UNCHANGED <<data, files, import, update>>
ImportDies ==
  /\ imp \in {"reading", "writing", "committed", "failing"} /\ Happens
  /\ imp' = "dead" /\ purge' = FALSE /\ gone' = {} /\ filled' = {}
  /\ UNCHANGED <<data, files, pc, job, update>>
\* A power cut, the watchdog: the stack comes up again and its migrate service runs first. (What a
\* power cut does to an update is UpdateWatcher's.)
StackRestarts ==
  /\ ~Updating /\ Happens /\ WebStops /\ schema' = "current"
  /\ UNCHANGED <<db, copies, place, files, update>>

\* The files grow old. While somebody works a unit is a long time, and counted.
Ages ==
  /\ IF (\E r \in Restores : Working(r)) \/ Importing \/ Updating THEN Happens ELSE UNCHANGED events
  /\ LET older(s, cap) == [s EXCEPT !.age = IF s.state = "running" /\ @ < cap THEN @ + 1 ELSE @]
     IN /\ restoreStatus' = older(restoreStatus, RESTORE_STALE)
        /\ importStatus' = older(importStatus, IMPORT_STALE)
        /\ screen' = IF Shown(KINDS) THEN [screen EXCEPT !.age = @ + 1] ELSE screen
  /\ UNCHANGED <<data, pc, job, import, update>>

Restore(r) ==
  \/ \E chosen \in Choices : Asks(r, chosen)
  \/ UploadRefused(r) \/ StartRestore(r)

Thread(r) ==
  \/ Checked(r) \/ CopiesFirst(r)
  \/ \E held \in {{}, PARTS} : BeginsRestoring(r, held)
  \/ Terminates(r) \/ Drops(r) \/ LoadsRow(r)
  \/ Commits(r)
  \/ PlacesFile(r) \/ BeginsMigrating(r) \/ Migrated(r) \/ Finishes(r) \/ Fails(r)

ImportThread == BeginsImport \/ ImportsRow \/ CommitsImport \/ FinishesImport \/ FailsImport
Watcher == PicksBundle \/ RefusesBundle \/ StopsAndSaves \/ Switches \/ Applied \/ RollsBack

Someone ==
  \/ \E r \in Restores : Restore(r) \/ WorkerDies(r)
  \/ \E withPurge \in BOOLEAN : StartImport(withPurge)
  \/ ImportDies \/ Resets
  \/ \E row \in Added : Books(row)
  \/ AsksUpdate \/ Uploaded \/ StackRestarts

\* The history: what a restore's copy lacks, and who worked beside whom.
Others(r) == (\E s \in Restores \ {r} : Working(s)) \/ Importing \/ Updating
History ==
  /\ late' = [r \in Restores |-> IF pc[r] \in {"copied", "clearing", "dropping", "loading"} /\ pc'[r] \notin Over
                                THEN late[r] \cup (db' \ db) ELSE {}]
  /\ met' = {r \in Restores : Working(r)' /\ (r \in met \/ Others(r)' \/ (db # {} /\ db' = {}))}

Next ==
  /\ \/ Someone \/ ImportThread \/ Watcher \/ Ages
     \/ \E r \in Restores : Thread(r)
  /\ History

Spec == Init /\ [][Next]_vars
\* Threads and the watcher run until they die, containers start, time passes.
FairSpec ==
  /\ Spec
  /\ \A r \in Restores : WF_vars(Thread(r) /\ History)
  /\ WF_vars(ImportThread /\ History)
  /\ WF_vars(Watcher /\ History)
  /\ WF_vars(Ages /\ History)

-----------------------------------------------------------------------------
(* Properties                                                              *)

Ends(r, state) == Working(r) /\ pc'[r] = "over" /\ restoreStatus'.state = state

\* Whatever runs beside whatever, fails, is killed or is rolled back: of a backup or an old database
\* all rows are in the database or none is - and so in every copy taken of it.
AllOrNothing ==
  \A rows \in {db, dump} \cup {copies[r] : r \in Restores} :
    rows # NONE => \A source \in {Backup, Legacy} : source \subseteq rows \/ source \cap rows = {}

\* A restore replaces nothing that is not in a safety copy on disk, but for what came in after its
\* own was taken - unless another restore beside it made room on the card.
NothingLost ==
  [][\A r \in Restores : pc[r] = "loading" /\ pc'[r] = "placing" =>
       \/ db \subseteq late[r] \cup UNION {copies[s] : s \in {x \in Restores : copies[x] # NONE}}
       \/ r \in met /\ ~Stick]_vars

\* The kiosk is covered while a restore that nothing ran beside has something to save or to replace,
\* and never after the last one ended, unless it died.
ScreenTrue ==
  /\ \A r \in Restores : Covered(r) /\ r \notin met => screen # NONE
  /\ screen # NONE => Updating \/ \E r \in Restores : Covered(r) \/ pc[r] = "dead"

\* "Done" is said of a restore only when what it was to bring back, as far as the backup has it, is
\* in place, whole, and the tables are this version's - unless something else ran beside it.
DoneMeansRestored ==
  [][\A r \in Restores : Ends(r, "done") /\ r \notin met =>
       /\ "database" \in parts[r] => Backup \subseteq db
       /\ did[r] \ {"database"} \in {{}, parts[r] \ {"database"}}
       /\ \A p \in did[r] \ {"database"} : place[p] = "backup"
       /\ schema = "current"]_vars

\* Whatever died: sooner or later a restore can be started again.
Unblocked == []<>~RestoreBusy

\* docs/MANUAL.en.md:718: "if the restore fails, nothing is changed."
FailedChangesNothing == [][\A r \in Restores : Ends(r, "error") => did[r] = {}]_vars

=============================================================================
