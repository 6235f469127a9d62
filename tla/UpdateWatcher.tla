--------------------------- MODULE UpdateWatcher ---------------------------
(***************************************************************************)
(* install/update_watcher.py: how an app bundle is accepted, applied,      *)
(* committed, rolled back and recovered, one action per durable step, with *)
(* a power cut, a killed watcher or a failing command between any two.     *)
(*                                                                         *)
(* Abstractions.  A bundle is named by the version it carries; versions    *)
(* are ordered like built_at and like the migrations they bring.  A file   *)
(* written with write_file() / replace_dir() changes in one step (both     *)
(* sync and rename).  The database is its schema version and the set of    *)
(* bookings in it.  The maintenance file is written and removed together   *)
(* with state.json (Job.step, Job.finish): status = "running" stands for   *)
(* both.  OS bundles, .env defaults and the audit events are not modelled. *)
(***************************************************************************)
EXTENDS Integers, FiniteSets

CONSTANTS
  Versions,        \* versions a device can run
  InitialVersion,  \* the one it runs at first
  PreReleases,     \* those whose SemVer carries a "-"
  Bundles,         \* the versions somebody uploads a bundle of
  Images,          \* the image names of the compose file
  WebImage,        \* the one every Django container runs, migrate too
  Uploaders,       \* dashboard sessions that may be uploading at a time
  MaxAttempts,     \* MAX_ATTEMPTS
  NONE,            \* no file, no value
  \* bounds of the environment, not of the program:
  MaxCuts,         \* power cuts and killed watchers
  MaxFails,        \* commands that fail, health checks that time out
  MaxBookings,     \* orders and payments
  MaxUploads       \* bundles uploaded

ASSUME VersionAssumption ==
  /\ Versions \subseteq Nat
  /\ InitialVersion \in Versions
  /\ Bundles \subseteq Versions
  /\ PreReleases \subseteq Versions
ASSUME DeviceAssumption == WebImage \in Images
ASSUME BoundAssumption ==
  /\ MaxAttempts \in Nat \ {0}
  /\ MaxCuts \in Nat /\ MaxFails \in Nat /\ MaxBookings \in Nat /\ MaxUploads \in Nat

VARIABLES
  \* data/updates: survives everything
  incoming,     \* bundle -> 0 (not in incoming/) or the attempt its options name
  active,       \* the bundles in active/
  journal,      \* journal.json
  previous,     \* previous.json with the dump it names
  copies,       \* docker-compose.yml.previous and install.previous
  status,       \* state.json's state; "running": the maintenance screen is up
  \* what the device is made of
  installed,    \* installed.json
  tag,          \* image name -> the version it points at
  prevTag,      \* its coffeepy-previous tag
  composeFile,  \* docker-compose.yml
  installDir,   \* install/
  running,      \* image name -> the version its containers run
  writers,      \* web, mqtt-listener and backup are up
  db,           \* the database
  \* processes: lost with the power
  upload,       \* session -> the bundle it is writing into incoming/
  pc, caller,   \* where the watcher stands, and for whom it runs undo()
  cur, queue,   \* the bundle at hand and the rest of this cycle's list
  \* the environment's bounds
  cuts, fails, uploads,
  \* history
  booked,       \* bookings made so far: 1..booked
  trial,        \* those made while the switched update had not been decided
  accepts,      \* bundle -> how often it was accepted since its upload
  base,         \* what was installed when the last update was accepted
  gaps          \* which of the two gaps below this behaviour went through

files   == <<incoming, active, journal, previous, copies, status>>
device  == <<installed, tag, prevTag, composeFile, installDir, running, writers, db>>
process == <<pc, caller, cur, queue>>
bounds  == <<cuts, fails, uploads>>
history == <<booked, trial, accepts, base, gaps>>
vars    == <<files, device, upload, process, bounds, history>>

-----------------------------------------------------------------------------
Phases == {"accepted", "tagged", "loaded", "saved", "switched"}
Journals == [bundle : Bundles \cup {NONE}, attempt : Nat, retry : BOOLEAN, phase : Phases]
Databases == [schema : Versions, rows : SUBSET Nat]
Saved == [installed : Versions, db : Databases]
Copies == [compose : Versions, install : Versions]

ASSUME NoneAssumption ==
  NONE \notin Versions /\ NONE \notin Journals /\ NONE \notin Saved /\ NONE \notin Copies

ApplySteps == {"tag", "load", "stop", "copy", "save", "saved", "switch", "migrate", "compose",
               "install", "up", "verify", "services", "record", "commit", "forget", "done"}
RollbackSteps == {"rb_tags", "rb_compose", "rb_install", "rb_stop", "rb_load", "rb_up",
                  "rb_verify", "rb_installed", "rb_previous"}
UndoSteps == {"undo", "un_tags", "un_previous", "un_up", "un_verify", "undone"} \cup RollbackSteps
RecoverSteps == {"rec_unlink", "rec_finish"}
ProcessSteps == {"check", "accept", "move", "refuse", "except", "finish_rb",
                 "clean_refused", "clean", "clean_done"} \cup ApplySteps
Steps == {"boot", "stack", "start", "idle", "loop"} \cup ProcessSteps \cup UndoSteps \cup RecoverSteps

Step(from, to) == pc = from /\ pc' = to
Journalled == journal # NONE
Switched == Journalled /\ journal.phase = "switched"
Pending == {b \in Bundles : incoming[b] > 0}
AllAt(names, v) == \A i \in Images : names[i] = v

\* back_to_release() within one major version, and built_at's order
Acceptable(b, current) == b >= current \/ (current \in PreReleases /\ b \notin PreReleases)

\* `docker compose up -d`: containers of the images the names point at, migrate before web
ComposeUp ==
  /\ running' = tag
  /\ writers' = TRUE
  /\ db' = [db EXCEPT !.schema = IF tag[WebImage] > @ THEN tag[WebImage] ELSE @]

NoUploads == [u \in Uploaders |-> NONE]

Init ==
  /\ incoming = [b \in Bundles |-> 0] /\ active = {} /\ journal = NONE
  /\ previous = NONE /\ copies = NONE /\ status = "none"
  /\ installed = InitialVersion
  /\ tag = [i \in Images |-> InitialVersion]
  /\ prevTag = [i \in Images |-> NONE]
  /\ composeFile = InitialVersion /\ installDir = InitialVersion
  /\ running = [i \in Images |-> InitialVersion]
  /\ writers = TRUE
  /\ db = [schema |-> InitialVersion, rows |-> {}]
  /\ upload = NoUploads
  /\ pc = "start" /\ caller = "watcher" /\ cur = NONE /\ queue = {}
  /\ cuts = 0 /\ fails = 0 /\ uploads = 0
  /\ booked = 0 /\ trial = {}
  /\ accepts = [b \in Bundles |-> 0]
  /\ base = InitialVersion /\ gaps = {}

-----------------------------------------------------------------------------
(* The dashboard and the members, in the web container.                    *)

\* update_upload() up to the chunks: _busy() is looked at once, before them.
\* (state.json is ignored once it is STALE_SECONDS old, so it guards nothing for good.)
UploadBegins(u, b) ==
  /\ writers /\ uploads < MaxUploads
  /\ upload[u] = NONE
  /\ Pending = {} /\ ~Journalled
  /\ upload' = [upload EXCEPT ![u] = b]
  /\ uploads' = uploads + 1
  /\ UNCHANGED <<files, device, process, cuts, fails, history>>

\* os.replace(tmp, incoming / name)
UploadEnds(u) ==
  /\ upload[u] # NONE
  /\ upload' = [upload EXCEPT ![u] = NONE]
  /\ incoming' = [incoming EXCEPT ![upload[u]] = IF @ = 0 THEN 1 ELSE @]
  /\ accepts' = [accepts EXCEPT ![upload[u]] = 0]
  /\ UNCHANGED <<active, journal, previous, copies, status, device, process, bounds,
                 booked, trial, base, gaps>>

\* A phone or an admin books: an order, a payment (portal.views.pay).
Book ==
  /\ writers /\ booked < MaxBookings
  /\ booked' = booked + 1
  /\ db' = [db EXCEPT !.rows = @ \cup {booked'}]
  /\ trial' = IF Switched /\ previous # NONE THEN trial \cup {booked'} ELSE trial
  /\ UNCHANGED <<files, installed, tag, prevTag, composeFile, installDir, running, writers,
                 upload, process, bounds, accepts, base, gaps>>

-----------------------------------------------------------------------------
(* cycle() and process_bundle() up to accept().                            *)

CycleBegins ==
  /\ Step("idle", "loop")
  /\ ~Journalled
  /\ Pending # {}
  /\ queue' = Pending
  /\ UNCHANGED <<files, device, upload, caller, cur, bounds, history>>

CycleEnds ==
  /\ Step("loop", "idle")
  /\ queue = {}
  /\ UNCHANGED <<files, device, upload, caller, cur, queue, bounds, history>>

\* other_maintenance(): a restore or the installer has the device
WaitForOthers(b) ==
  /\ pc = "loop" /\ b \in queue
  /\ queue' = queue \ {b}
  /\ UNCHANGED <<files, device, upload, pc, caller, cur, bounds, history>>

TakeBundle(b) ==
  /\ Step("loop", "check") /\ b \in queue
  /\ queue' = queue \ {b}
  /\ cur' = b
  /\ caller' = "process"
  /\ status' = "running"
  /\ UNCHANGED <<incoming, active, journal, previous, copies, device, upload, bounds, history>>

\* Mutant: any signed bundle is taken, however old.
CheckPassesAnyAge ==
  /\ Step("check", "accept")
  /\ UNCHANGED <<files, device, upload, caller, cur, queue, bounds, history>>

\* read_manifest(), check_bundle() and unpack() pass
CheckPasses ==
  /\ Step("check", "accept")
  /\ Acceptable(cur, installed)
  /\ UNCHANGED <<files, device, upload, caller, cur, queue, bounds, history>>

\* ... or refuse: an unsigned, damaged, foreign, too big or too old bundle
CheckRefuses ==
  /\ Step("check", "refuse")
  /\ UNCHANGED <<files, device, upload, caller, cur, queue, bounds, history>>

\* A leftover journal is simply replaced (fresh=True): gap "overrun".
AcceptJournal ==
  /\ Step("accept", "move")
  /\ journal' = [bundle |-> cur, attempt |-> incoming[cur], retry |-> TRUE,
                 phase |-> "accepted"]
  /\ accepts' = [accepts EXCEPT ![cur] = @ + 1]
  /\ base' = installed
  /\ gaps' = IF Journalled THEN gaps \cup {"overrun"} ELSE gaps
  /\ UNCHANGED <<incoming, active, previous, copies, status, device, upload, caller, cur, queue,
                 bounds, booked, trial>>

AcceptMove ==
  /\ Step("move", "tag")
  /\ active' = active \cup {cur}
  /\ incoming' = [incoming EXCEPT ![cur] = 0]
  /\ UNCHANGED <<journal, previous, copies, status, device, upload, caller, cur, queue, bounds,
                 history>>

\* accept() raises: `accepted` is still False, so this counts as a refusal
AcceptFails ==
  /\ pc \in {"accept", "move"} /\ pc' = "refuse"
  /\ fails < MaxFails /\ fails' = fails + 1
  /\ UNCHANGED <<files, device, upload, caller, cur, queue, cuts, uploads, history>>

Refuse ==
  /\ Step("refuse", "clean_refused")
  /\ status' = "failed"
  /\ UNCHANGED <<incoming, active, journal, previous, copies, device, upload, caller, cur, queue,
                 bounds, history>>

-----------------------------------------------------------------------------
(* apply(): the bundle is in active/, the journal says how far it got.     *)

\* tag_images(), one `docker tag` after the other
TagImage(i) ==
  /\ pc = "tag" /\ prevTag[i] # tag[i]
  /\ prevTag' = [prevTag EXCEPT ![i] = tag[i]]
  /\ UNCHANGED <<files, installed, tag, composeFile, installDir, running, writers, db, upload,
                 process, bounds, history>>

JournalPhase(phase) ==
  /\ journal' = [journal EXCEPT !.phase = phase]
  /\ UNCHANGED <<incoming, active, previous, copies, status, device, upload, caller, cur, queue,
                 bounds, history>>

JournalTagged   == Step("tag", "load") /\ prevTag = tag /\ JournalPhase("tagged")

\* docker load moves the names to the bundle's images one by one
LoadImage(i) ==
  /\ pc = "load" /\ tag[i] # cur
  /\ tag' = [tag EXCEPT ![i] = cur]
  /\ UNCHANGED <<files, installed, prevTag, composeFile, installDir, running, writers, db, upload,
                 process, bounds, history>>

JournalLoaded   == Step("load", "stop") /\ AllAt(tag, cur) /\ JournalPhase("loaded")

\* Mutant: the dump is taken under a running app.
StopNobody ==
  /\ Step("stop", "copy")
  /\ UNCHANGED <<files, device, upload, caller, cur, queue, bounds, history>>

\* save(): compose("stop", *WRITERS) - an upload in the web container dies with it
StopWriters ==
  /\ Step("stop", "copy")
  /\ writers' = FALSE
  /\ upload' = NoUploads
  /\ UNCHANGED <<files, installed, tag, prevTag, composeFile, installDir, running, db,
                 caller, cur, queue, bounds, history>>

CopyFiles ==
  /\ Step("copy", "save")
  /\ copies' = [compose |-> composeFile, install |-> installDir]
  /\ UNCHANGED <<incoming, active, journal, previous, status, device, upload, caller, cur, queue,
                 bounds, history>>

\* save_database(), then previous.json
SavePrevious ==
  /\ Step("save", "saved")
  /\ previous' = [installed |-> installed, db |-> db]
  /\ UNCHANGED <<incoming, active, journal, copies, status, device, upload, caller, cur, queue,
                 bounds, history>>

JournalSaved    == Step("saved", "switch") /\ JournalPhase("saved")
JournalSwitched == Step("switch", "migrate") /\ JournalPhase("switched")

\* Mutant: migrations the bundle does not know stay.
MigrateNothingBack ==
  /\ Step("migrate", "compose")
  /\ UNCHANGED <<files, device, upload, caller, cur, queue, bounds, history>>

\* Migrations the bundle's code doesn't know are taken back first.
MigrateBack ==
  /\ Step("migrate", "compose")
  /\ db' = [db EXCEPT !.schema = IF @ > tag[WebImage] THEN tag[WebImage] ELSE @]
  /\ UNCHANGED <<files, installed, tag, prevTag, composeFile, installDir, running, writers, upload,
                 caller, cur, queue, bounds, history>>

SwitchCompose ==
  /\ Step("compose", "install")
  /\ composeFile' = cur
  /\ UNCHANGED <<files, installed, tag, prevTag, installDir, running, writers, db, upload,
                 caller, cur, queue, bounds, history>>

SwitchInstall ==
  /\ Step("install", "up")
  /\ installDir' = cur
  /\ UNCHANGED <<files, installed, tag, prevTag, composeFile, running, writers, db, upload,
                 caller, cur, queue, bounds, history>>

StartNew ==
  /\ Step("up", "verify")
  /\ ComposeUp
  /\ UNCHANGED <<files, installed, tag, prevTag, composeFile, installDir, upload,
                 caller, cur, queue, bounds, history>>

\* healthy(), then install.sh --only=hardware,services,kiosk
NewAnswers ==
  /\ Step("verify", "services") \/ Step("services", "record")
  /\ UNCHANGED <<files, device, upload, caller, cur, queue, bounds, history>>

RecordInstalled ==
  /\ Step("record", "commit")
  /\ installed' = cur
  /\ UNCHANGED <<files, tag, prevTag, composeFile, installDir, running, writers, db, upload,
                 caller, cur, queue, bounds, history>>

\* JOURNAL_FILE.unlink(): from here on there is no way back
Commit ==
  /\ Step("commit", "forget")
  /\ journal' = NONE
  /\ UNCHANGED <<incoming, active, previous, copies, status, device, upload, caller, cur, queue,
                 bounds, history>>

\* forget_previous(): the tags previous.json names, the copies, previous.json
ForgetPrevious ==
  /\ prevTag' = IF previous # NONE THEN [i \in Images |-> NONE] ELSE prevTag
  /\ copies' = NONE
  /\ previous' = NONE
  /\ UNCHANGED <<incoming, journal, installed, tag, composeFile, installDir, running,
                 writers, db, upload, cur, queue, bounds, history>>

Forget ==
  /\ Step("forget", "done")
  /\ ForgetPrevious
  /\ UNCHANGED <<active, status, caller>>

FinishDone ==
  /\ Step("done", "clean_done")
  /\ status' = "done"
  /\ UNCHANGED <<incoming, active, journal, previous, copies, device, upload, caller, cur, queue,
                 bounds, history>>

-----------------------------------------------------------------------------
(* process_bundle()'s except and finally.                                  *)

\* A command fails, the new version does not answer, a file cannot be written.
ApplyFails ==
  /\ pc \in ApplySteps /\ pc' = "except"
  /\ fails < MaxFails /\ fails' = fails + 1
  /\ UNCHANGED <<files, device, upload, caller, cur, queue, cuts, uploads, history>>

\* journal(read_json(JOURNAL_FILE, {}).get("phase", "accepted"), retry=False): past the
\* commit there is no journal.json any more, and this writes a new one.
JournalNoRetry ==
  /\ Step("except", "undo")
  /\ journal' = IF Journalled
                THEN [journal EXCEPT !.retry = FALSE]
                ELSE [bundle |-> NONE, attempt |-> 1, retry |-> FALSE, phase |-> "accepted"]
  /\ UNCHANGED <<incoming, active, previous, copies, status, device, upload, caller, cur, queue,
                 bounds, history>>

\* ... and when even that cannot be written, the exception ends the whole cycle.
CycleAborts ==
  /\ Step("except", "idle")
  /\ fails < MaxFails /\ fails' = fails + 1
  /\ active' = IF Journalled THEN active ELSE {}
  /\ cur' = NONE /\ queue' = {}
  /\ UNCHANGED <<incoming, journal, previous, copies, status, device, upload, caller, cuts, uploads,
                 history>>

\* undo() is through: the journal goes, then the outcome is reported
ProcessUndone ==
  /\ caller = "process"
  /\ Step("undone", "finish_rb")
  /\ journal' = NONE
  /\ UNCHANGED <<incoming, active, previous, copies, status, device, upload, caller, cur, queue,
                 bounds, history>>

FinishRolledBack ==
  /\ Step("finish_rb", "clean")
  /\ status' = "rolled_back"
  /\ UNCHANGED <<incoming, active, journal, previous, copies, device, upload, caller, cur, queue,
                 bounds, history>>

\* "Update failed, and so did the rollback": the journal stays for the next start
ProcessUndoFails ==
  /\ caller = "process"
  /\ pc \in UndoSteps \cup {"finish_rb"} /\ pc' = "clean"
  /\ fails < MaxFails /\ fails' = fails + 1
  /\ status' = "failed"
  /\ UNCHANGED <<incoming, active, journal, previous, copies, device, upload, caller, cur, queue,
                 cuts, uploads, history>>

\* Mutant: a refused bundle stays in incoming/.
CleanupKeepsRefused ==
  /\ \/ pc = "clean_refused" /\ pc' = "loop"
     \/ pc = "clean" /\ pc' = "loop"
     \/ pc = "clean_done" /\ pc' \in {"start", "loop"}
  /\ active' = IF Journalled THEN active ELSE {}
  /\ cur' = NONE
  /\ queue' = IF pc' = "start" THEN {} ELSE queue
  /\ UNCHANGED <<incoming, journal, previous, copies, status, device, upload, caller, bounds, history>>

\* finally: the bundle and active/ go unless the journal is still there.  After an update
\* the watcher is restarted (the bundle brought a new one); the loop may get a bit further.
Cleanup ==
  /\ \/ pc = "clean_refused" /\ pc' = "loop"
     \/ pc = "clean" /\ pc' = "loop"
     \/ pc = "clean_done" /\ pc' \in {"start", "loop"}
  /\ active' = IF Journalled THEN active ELSE {}
  /\ incoming' = IF pc = "clean_refused" /\ ~Journalled
                 THEN [incoming EXCEPT ![cur] = 0] ELSE incoming
  /\ cur' = NONE
  /\ queue' = IF pc' = "start" THEN {} ELSE queue
  /\ UNCHANGED <<journal, previous, copies, status, device, upload, caller, bounds, history>>

-----------------------------------------------------------------------------
(* undo() and rollback(), called by process_bundle() or by recover().      *)

UndoBegins ==
  /\ pc = "undo"
  /\ pc' = IF Switched /\ previous # NONE THEN "rb_tags" ELSE "un_tags"
  /\ status' = "running"
  /\ UNCHANGED <<incoming, active, journal, previous, copies, device, upload, caller, cur, queue,
                 bounds, history>>

\* Mutant: undo() puts back images nobody tagged yet.
RetagUntagged(i) ==
  /\ pc \in {"rb_tags", "un_tags"}
  /\ tag[i] # prevTag[i]
  /\ tag' = [tag EXCEPT ![i] = prevTag[i]]
  /\ UNCHANGED <<files, installed, prevTag, composeFile, installDir, running, writers, db, upload,
                 process, bounds, history>>

\* `docker tag previous_tag(image) image`; the journal names no images before "tagged"
RetagImage(i) ==
  /\ \/ pc = "rb_tags"
     \/ pc = "un_tags" /\ journal.phase # "accepted"
  /\ tag[i] # prevTag[i]
  /\ tag' = [tag EXCEPT ![i] = prevTag[i]]
  /\ UNCHANGED <<files, installed, prevTag, composeFile, installDir, running, writers, db, upload,
                 process, bounds, history>>

Retagged ==
  /\ \/ Step("rb_tags", "rb_compose") /\ tag = prevTag
     \/ Step("un_tags", "un_previous") /\ (journal.phase = "accepted" \/ tag = prevTag)
  /\ UNCHANGED <<files, device, upload, caller, cur, queue, bounds, history>>

\* Before "switched" nothing but the names has moved.
DropPrevious ==
  /\ Step("un_previous", "un_up") \/ Step("rb_previous", "undone")
  /\ previous' = NONE
  /\ UNCHANGED <<incoming, active, journal, copies, status, device, upload, caller, cur, queue,
                 bounds, history>>

RestoreCompose ==
  /\ Step("rb_compose", "rb_install")
  /\ composeFile' = copies.compose
  /\ UNCHANGED <<files, installed, tag, prevTag, installDir, running, writers, db, upload,
                 caller, cur, queue, bounds, history>>

RestoreInstall ==
  /\ Step("rb_install", "rb_stop")
  /\ installDir' = copies.install
  /\ UNCHANGED <<files, installed, tag, prevTag, composeFile, running, writers, db, upload,
                 caller, cur, queue, bounds, history>>

StopForRollback ==
  /\ Step("rb_stop", "rb_load")
  /\ writers' = FALSE
  /\ upload' = NoUploads
  /\ UNCHANGED <<files, installed, tag, prevTag, composeFile, installDir, running, db,
                 caller, cur, queue, bounds, history>>

\* compose("stop", *WRITERS, check=False): a failure goes unnoticed
StopUnnoticed ==
  /\ Step("rb_stop", "rb_load")
  /\ fails < MaxFails /\ fails' = fails + 1
  /\ UNCHANGED <<files, device, upload, caller, cur, queue, cuts, uploads, history>>

\* load_database(): one transaction, all or nothing
LoadDatabase ==
  /\ Step("rb_load", "rb_up")
  /\ db' = previous.db
  /\ UNCHANGED <<files, installed, tag, prevTag, composeFile, installDir, running, writers, upload,
                 caller, cur, queue, bounds, history>>

StartOld ==
  /\ Step("rb_up", "rb_verify") \/ Step("un_up", "un_verify")
  /\ ComposeUp
  /\ UNCHANGED <<files, installed, tag, prevTag, composeFile, installDir, upload,
                 caller, cur, queue, bounds, history>>

OldAnswers ==
  /\ Step("rb_verify", "rb_installed") \/ Step("un_verify", "undone")
  /\ UNCHANGED <<files, device, upload, caller, cur, queue, bounds, history>>

RestoreInstalled ==
  /\ Step("rb_installed", "rb_previous")
  /\ installed' = previous.installed
  /\ UNCHANGED <<files, tag, prevTag, composeFile, installDir, running, writers, db, upload,
                 caller, cur, queue, bounds, history>>

-----------------------------------------------------------------------------
(* recover(): at boot by its own unit before the stack, and by main().     *)

AfterRecover == IF caller = "boot" THEN "stack" ELSE "idle"
LeaveRecover == pc' = AfterRecover /\ caller' = "watcher" /\ cur' = NONE

\* No journal: what an update left behind goes.
RecoverNothing ==
  /\ Step("start", "idle")
  /\ ~Journalled
  /\ active' = {}
  /\ ForgetPrevious
  /\ UNCHANGED <<status, caller>>

\* ... unless that fails, which main() only logs
RecoverNothingFails ==
  /\ Step("start", "idle")
  /\ ~Journalled
  /\ fails < MaxFails /\ fails' = fails + 1
  /\ active' = {}
  /\ UNCHANGED <<incoming, journal, previous, copies, status, device, upload, caller, cur, queue,
                 cuts, uploads, history>>

RecoverBegins ==
  /\ pc \in {"start", "boot"} /\ Journalled
  /\ pc' = "undo"
  /\ caller' = IF pc = "boot" THEN "boot" ELSE "watcher"
  /\ cur' = journal.bundle
  /\ status' = "running"
  /\ UNCHANGED <<incoming, active, journal, previous, copies, device, upload, queue, bounds, history>>

\* "could not be undone - it is tried again when the device restarts"
RecoverUndoFails ==
  /\ caller # "process" /\ pc \in UndoSteps \ {"undone"}
  /\ fails < MaxFails /\ fails' = fails + 1
  /\ status' = "failed"
  /\ LeaveRecover
  /\ UNCHANGED <<incoming, active, journal, previous, copies, device, upload, queue,
                 cuts, uploads, history>>

RequeueUpTo(last) ==
  /\ caller # "process"
  /\ Step("undone", "rec_unlink")
  /\ LET b == journal.bundle
         found == b \in active \/ (b \in Bundles /\ incoming[b] > 0)
         again == found /\ journal.retry /\ journal.attempt < last
     IN /\ incoming' = [x \in Bundles |->
                         IF x = b /\ again THEN journal.attempt + 1
                         ELSE IF x = b /\ b \notin active THEN 0 ELSE incoming[x]]
        /\ active' = active \ {b}
  /\ UNCHANGED <<journal, previous, copies, status, device, upload, caller, cur, queue, bounds,
                 history>>

\* Mutants: one attempt too many, one too few.
RequeueOnceMore == RequeueUpTo(MaxAttempts + 1)
RequeueOnceLess == RequeueUpTo(MaxAttempts - 1)

\* Back into incoming/ as the next attempt, or gone for good.
Requeue == RequeueUpTo(MaxAttempts)

\* Anything raised after undo() leaves recover(); main() logs it and goes on.
RecoverAborts ==
  /\ caller # "process" /\ pc \in {"undone"} \cup RecoverSteps
  /\ fails < MaxFails /\ fails' = fails + 1
  /\ LeaveRecover
  /\ UNCHANGED <<files, device, upload, queue, cuts, uploads, history>>

\* Mutant: the journal of an undone update stays.
RecoverKeepsJournal ==
  /\ Step("rec_unlink", "rec_finish")
  /\ active' = {}
  /\ UNCHANGED <<incoming, journal, previous, copies, status, device, upload, caller, cur, queue,
                 bounds, history>>

RecoverUnlink ==
  /\ Step("rec_unlink", "rec_finish")
  /\ journal' = NONE
  /\ active' = {}
  /\ UNCHANGED <<incoming, previous, copies, status, device, upload, caller, cur, queue, bounds,
                 history>>

RecoverFinish ==
  /\ pc = "rec_finish"
  /\ status' = "rolled_back"
  /\ LeaveRecover
  /\ UNCHANGED <<incoming, active, journal, previous, copies, device, upload, queue, bounds, history>>

-----------------------------------------------------------------------------
(* systemd: power cuts, the units' order at boot, the watchdog.            *)

\* Docker starts the containers it finds again (restart: unless-stopped): the same images, and
\* the stopped writers stay stopped.
PowerCut ==
  /\ cuts < MaxCuts /\ cuts' = cuts + 1
  /\ pc' = "boot" /\ caller' = "watcher" /\ cur' = NONE /\ queue' = {}
  /\ upload' = NoUploads
  /\ UNCHANGED <<files, device, fails, uploads, history>>

\* The watcher dies without a reboot (Restart=on-failure), or the recovery unit runs into
\* its TimeoutStartSec; the stack is After= it, but does not require it.
Kill ==
  /\ cuts < MaxCuts /\ cuts' = cuts + 1
  /\ pc \notin {"boot", "stack", "start"}
  /\ pc' = IF caller = "boot" THEN "stack" ELSE "start"
  /\ caller' = "watcher" /\ cur' = NONE /\ queue' = {}
  /\ UNCHANGED <<files, device, upload, fails, uploads, history>>

\* coffeepy-update-recover.service has its ConditionPathExists
BootWithoutJournal ==
  /\ Step("boot", "stack")
  /\ ~Journalled
  /\ UNCHANGED <<files, device, upload, caller, cur, queue, bounds, history>>

\* `docker compose up -d` of coffeepy.service takes whatever the names point at.  Gap "early":
\* an update's images start although its journal has not reached "switched".
StackUp ==
  /\ ComposeUp
  /\ gaps' = IF Journalled /\ ~Switched /\ tag[WebImage] # installed THEN gaps \cup {"early"} ELSE gaps
  /\ UNCHANGED <<files, installed, tag, prevTag, composeFile, installDir, booked, trial,
                 accepts, base>>

StackStarts ==
  /\ Step("stack", "start")
  /\ StackUp
  /\ UNCHANGED <<upload, caller, cur, queue, bounds>>

StackFails ==
  /\ Step("stack", "start")
  /\ fails < MaxFails /\ fails' = fails + 1
  /\ UNCHANGED <<files, device, upload, caller, cur, queue, cuts, uploads, history>>

\* kiosk_watchdog.sh: the app does not answer and nobody has the device in maintenance
WatchdogRestarts ==
  /\ pc \notin {"boot", "stack"}
  /\ status # "running"
  /\ fails < MaxFails /\ fails' = fails + 1
  /\ upload' = NoUploads
  /\ StackUp
  /\ UNCHANGED <<process, cuts, uploads>>

-----------------------------------------------------------------------------
Dashboard ==
  \/ \E u \in Uploaders, b \in Bundles : UploadBegins(u, b)
  \/ \E u \in Uploaders : UploadEnds(u)
  \/ Book

Cycle ==
  \/ CycleBegins \/ CycleEnds \/ CheckPasses \/ CheckRefuses \/ AcceptJournal \/ AcceptMove
  \/ Refuse \/ Cleanup

Apply ==
  \/ \E i \in Images : TagImage(i) \/ LoadImage(i)
  \/ JournalTagged \/ JournalLoaded \/ StopWriters \/ CopyFiles \/ SavePrevious
  \/ JournalSaved \/ JournalSwitched \/ MigrateBack \/ SwitchCompose \/ SwitchInstall
  \/ StartNew \/ NewAnswers \/ RecordInstalled \/ Commit \/ Forget \/ FinishDone

Undo ==
  \/ \E i \in Images : RetagImage(i)
  \/ JournalNoRetry \/ UndoBegins \/ Retagged \/ DropPrevious \/ RestoreCompose \/ RestoreInstall
  \/ StopForRollback \/ LoadDatabase \/ StartOld \/ OldAnswers \/ RestoreInstalled
  \/ ProcessUndone \/ FinishRolledBack

Recover ==
  \/ RecoverNothing \/ RecoverBegins \/ Requeue \/ RecoverUnlink \/ RecoverFinish
  \/ BootWithoutJournal \/ StackStarts

Take == \E b \in Bundles : TakeBundle(b)
Wait == \E b \in Bundles : WaitForOthers(b)

Faults ==
  \/ AcceptFails \/ ApplyFails \/ StopUnnoticed \/ CycleAborts \/ ProcessUndoFails \/ RecoverNothingFails
  \/ RecoverUndoFails \/ RecoverAborts \/ PowerCut \/ Kill \/ StackFails \/ WatchdogRestarts

Next == Dashboard \/ Cycle \/ Apply \/ Undo \/ Recover \/ Take \/ Wait \/ Faults

Spec == Init /\ [][Next]_vars

\* The watcher and systemd keep going; other maintenance ends at some point.
FairSpec == Spec /\ WF_vars(Cycle \/ Apply \/ Undo \/ Recover \/ Wait) /\ SF_vars(Take)

-----------------------------------------------------------------------------
(* Properties.                                                             *)

TypeOK ==
  /\ incoming \in [Bundles -> Nat]
  /\ active \subseteq Bundles
  /\ journal \in Journals \cup {NONE}
  /\ previous \in Saved \cup {NONE}
  /\ copies \in Copies \cup {NONE}
  /\ status \in {"none", "running", "done", "rolled_back", "failed"}
  /\ installed \in Versions
  /\ tag \in [Images -> Versions]
  /\ prevTag \in [Images -> Versions \cup {NONE}]
  /\ composeFile \in Versions /\ installDir \in Versions
  /\ running \in [Images -> Versions]
  /\ writers \in BOOLEAN
  /\ db \in Databases
  /\ upload \in [Uploaders -> Bundles \cup {NONE}]
  /\ pc \in Steps /\ caller \in {"process", "watcher", "boot"}
  /\ cur \in Bundles \cup {NONE} /\ queue \subseteq Bundles
  /\ cuts \in Nat /\ fails \in Nat /\ uploads \in Nat
  /\ booked \in Nat /\ trial \subseteq Nat
  /\ accepts \in [Bundles -> Nat]
  /\ base \in Versions
  /\ gaps \subseteq {"overrun", "early"}

\* With no update under way the device is one version throughout: image names, compose file,
\* install/, database schema, containers and installed.json - whatever was cut short or failed
\* before.  (A behaviour through one of the two gaps is excluded here and shown on its own.)
OneVersion ==
  ~Journalled /\ gaps = {} =>
    /\ AllAt(tag, installed) /\ AllAt(running, installed) /\ writers
    /\ composeFile = installed /\ installDir = installed
    /\ db.schema = installed

\* A booking is only ever at risk between "switched" and the end of the update: whatever was
\* booked outside of that is in the database, also right after a rollback loaded its dump.
KeptBookings == (1..booked) \ trial \subseteq db.rows

\* An interrupted update is never forgotten: while the journal says it may run again, its
\* bundle is on the card.
BundleKept ==
  Journalled /\ journal.retry /\ journal.attempt < MaxAttempts /\ gaps = {} =>
    journal.bundle \in active \/ incoming[journal.bundle] > 0

\* A power cut makes an update run again - but not forever, and starting over is only for a
\* bundle that is uploaded again.  (Not through the gap "overrun": a bundle whose journal was
\* replaced keeps the attempt it had.)
AttemptsBounded == "overrun" \notin gaps => \A b \in Bundles : accepts[b] <= MaxAttempts

\* Once the faults are over, a start of the watcher ends with no update half done.
Quiet == cuts = MaxCuts /\ fails = MaxFails
Recovers == (pc = "start" /\ Quiet) ~> (pc = "idle" /\ ~Journalled)

\* ... and every bundle in incoming/ is dealt with, unless a failed rollback waits for a restart.
BundlesSettle == \A b \in Bundles :
  incoming[b] > 0 ~> (incoming[b] = 0 \/ (pc = "idle" /\ Journalled))
-----------------------------------------------------------------------------
(* What the device promises.                                               *)

\* Until the journal goes, the version before the update is the one the device stands for,
\* and the dump holds its bookings.
OnTrial == Switched /\ previous # NONE
StandsFor == IF OnTrial THEN previous.installed ELSE installed
Ledger == IF OnTrial THEN previous.db.rows ELSE db.rows

Promise == INSTANCE AtomicUpdate
  WITH version <- StandsFor, ledger <- Ledger, Accepts <- Acceptable

\* All the steps, power cuts and rollbacks of the watcher are, to the device's users, either
\* the new version or nothing: the commit is the removal of journal.json, and neither a
\* rollback nor a crash takes a booking back that was made outside of the trial.
PromiseKept == Promise!Spec

=============================================================================
