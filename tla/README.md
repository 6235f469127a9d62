# CoffeePy: a verification project

CoffeePy is a coffee tally on a Raspberry Pi: people hold a card to a reader, a browser on a
touch screen (the *kiosk*) shows what the card opens, orders and payments go into PostgreSQL,
admins work in a dashboard, members in a portal on their phone.  Around the Django application
stand scripts that update it, roll it back, keep it alive and back it up while somebody may pull
the plug at any moment.

This directory holds TLA+ modules of that system, TLC configurations that check them on small
instances, and proofs that TLAPS checks.  `PROJECT.json` maps every definition to the source
lines it models and lists the runs, the mutants that show each property can fail, the findings,
the hazards and the theorems.

    tlc -workers 2 -config UpdateWatcher.cfg MCUpdateWatcher.tla    # any run of PROJECT.json
    tlapm UpdateWatcherProofs.tla                                   # any *Proofs.tla

## 1. Inventory

Five containers run the application (`docker-compose.yml`): `db` (PostgreSQL), `mosquitto`,
`mqtt-listener`, `web` (gunicorn, several workers) and `backup`; Caddy stands before `web`.  On
the Pi itself run the update watcher, the watchdog, the card reader's bridge, the storage helper,
the RTC script and the kiosk's browser, as systemd units.  The two worlds meet in files under
`data/` (requests, status files, `events.jsonl`), in the database, in MQTT topics and in Docker's
image names.

| Component | State it keeps | Operations | Talks to | What is hard |
|---|---|---|---|---|
| App update watcher (`install/update_watcher.py`, `dashboard/views_update.py`, three units) | `incoming/`, `active/`, `journal.json`, `previous.json`, `installed.json`, `state.json`; image tags, compose file, `install/` | upload, check, accept, tag, load, save, switch, commit, undo, recover | Docker, `db`, watchdog, kiosk (status), storage | power cut or failure between any two steps; rollback interrupted; retry |
| OS updates (same file) | `os-pending.json`, `releases.json` | apply_os, recover_os | slot switch at reboot | the commit is a reboot |
| Kiosk session (`kiosk/views.py`) | one Django session: mode, uid, deadline, `last_scan_id`, auto-booking | load, poll twice a second, nav, order, confirm, cancel, settings, pay | scans, members, captures, orders | requests on several workers overlap and each writes the whole session back |
| Members, cards, bookings (`coffee/models.py`, `dashboard/views.py`, `coffee/services.py`) | Member, MemberCard, AltUidCapture, Order, Payment | add, edit, depart, reactivate, delete, merge, arm a capture, name rules | kiosk, portal | an admin changes a member whose screen is open; merge against bookings |
| Card reader pipeline (`nfc-cardreader/bridge.py`, `mqtt_listener.py`) | retained status, last will; NfcScan, ReaderStatus row | card event, status, retry, check | MQTT, database | the order the two connections come back in; a database that is away or replaced |
| Storage helper (`install/storage_helper.py`) | stick roles, mounts, ejected sticks, request and result files | look, format, adopt, eject, reconcile, mount | backups, dashboard | a stick swapped between the click and the step |
| Backups (`coffee/backups.py`, `backup_db.py`) | archives and checksums, `backup-status.json` | dump, rename, verify, rotate, report | stick, database | several runs in one directory; a stick pulled; clock jumps |
| Restore, import, reset (`restore_jobs.py`, `import_jobs.py`, `import_sqlite.py`) | progress files, safety copy | copy first, replace the database, place files, migrate | database, stick, kiosk | failure in the middle; a killed thread |
| Maintenance exclusion (`maintenance.sh`, `restore_jobs.py`, `import_jobs.py`, update watcher) | `data/maintenance/status.json` | set, clear, look | all long jobs | check-then-act across processes |
| Clock, RTC (`coffee/clock.py`, `coffee/rtc.py`, `rtc_sync.sh`, `system_clock.py`) | system clock, RTC, `rtc.json`, `clock.json` | check, set, sync | everything that compares times; the audit log | two clocks, one of them wrong |
| Night (`dashboard/night.py`, `kiosk_night.py`) | the schedule | is_night, browser off and on | kiosk | midnight, the weekend's edges |
| Dashboard accounts (`dashboard/security.py`, `dashboard/views.py`) | users, flags, policy, sessions | log in, lock, edit, delete, change a password | audit log | requests that write back whole rows |
| Audit log (`dashboard/audit.py`) | AuditLogEntry, `events.jsonl` | log, collect, prune | scripts on the Pi, clock, lock | dates from a wrong clock; partial failure |
| TLS (`dashboard/tls.py`) | CA, key pairs, live copies, Caddyfile, a lock file | ensure, issue, upload, revert, restore | Caddy, browsers, phones | killed between two files that belong together |
| Watchdog (`install/kiosk_watchdog.sh`) | counters, grace period | probe, restart browser or stack | maintenance file, Docker | restarting what somebody else is taking down |
| Member portal (`portal/views.py`) | one-time links, devices, rolling sessions | open link, pay, add a card, log out | kiosk, captures | two phones with one link |
| Installer (`install/*.sh`, `scripts/`) | the system | run by a person | | |
| Statistics, forms, templates | none | read-only | | |

What makes each of them correct, in one line:

- *update watcher*: to its users the device runs one version, the old or the new, and a booking
  made outside of the update's trial is never lost; an interrupted update ends by itself;
- *kiosk session*: one login is at most one coffee, the one that was asked for; what was tapped at
  a dark screen is never booked; nobody stays logged in; the screen returns to Order;
- *members*: cards belong to one account; a merge loses nothing; deleting is safe at any moment;
- *reader*: what the kiosk says of the reader comes true again after any outage;
- *storage*: what gets formatted is what the admin pointed at; an ejected stick stays ejected; the
  device's own stick is found again;
- *backups*: what the page calls a good backup is one; thinning out keeps what it says;
- *restore and import*: all of a source or nothing of it; nothing is replaced that was not copied;
- *maintenance*: the screen covers the work and is uncovered at the end, whatever died;
- *clock*: a wrong clock is noticed, and put right by no more than it can know;
- *accounts*: an admin always remains; a lock holds and lifts; a weak password is replaced first;
- *TLS*: Caddy can always load what it is pointed at, and ends up serving the right certificates;
- *watchdog*: it never restarts a stack that is under maintenance, nor in a loop;
- *portal*: one link opens one session; a removed device is out.

## 2. Plan

What can ruin data first, then what people meet every day, then the rest.

| # | Module | Models | Status |
|---|---|---|---|
| 1 | `UpdateWatcher` | app updates with cuts, kills and failures | checked, proved |
| 2 | `AtomicUpdate` | the promise: one version, bookings only grow | implemented by 1 (TLC and TLAPS) |
| 3 | `KioskSession` | the session, workers, cards, members, night | checked, proved |
| 4 | `ReaderStatus` | bridge, broker, listener, database away or replaced | checked, proved |
| 5 | `StorageHelper` | sticks, roles, mounts, requests | checked, proved |
| 6 | `Backups` | three runs on one stick, `rotate()` against a reference | checked, proved but for the reference |
| 7 | `Maintenance` | restore, import, reset and update around one database and one screen | checked, proved |
| 8 | `Clock` | two clocks, the check, the log, the RTC script | checked, proved |
| 9 | `Night` | `is_night()` as a pure function against the nights that are meant | checked, proved |
| 10 | `DashboardUsers` | logins, the lock, pages that change accounts | checked, proved |
| 11 | `Tls` | certificates and the Caddyfile, file by file | checked, proved |
| 12 | `Watchdog` | probes, grace, hourly limit, against 7 | planned |
| 13 | `Portal` | one-time links, devices, sessions | planned |
| 14 | OS bundles, beside `UpdateWatcher` | | planned |

"Proved" means: each safety property of the module's runs is a theorem, for every value of the
constants; liveness stays with TLC.  One safety property has no theorem: `GenerationsKept` of
`Backups`, where what `rotate()`'s loop computes is a fold over a sequence, and its proof an induction
over data, which the provers cannot be given.  Left for the plan: refinements of the storage helper
and of the restore (an abstract stick, an abstract "replace"), the modules 12 to 14 with theorems
of their own.

| Proofs | About | Theorems |
|---|---|---|
| `UpdateWatcherProofs` | `UpdateWatcher`, `AtomicUpdate` | `TypeCorrect`, `BookingsKept`, `Implements`, `Bounded`, `NeverForgotten`, `SameThroughout` |
| `KioskSessionProofs` | `KioskSession` | `Typed`, `NightTaps`, `NamedFirst`, `BooksAsAsked` |
| `ReaderStatusProofs` | `ReaderStatus` | `ReaderTypeCorrect`, `ReaderSettled` |
| `StorageProofs` | `StorageHelper`; `Backups` | `Typed`, `EjectedStaysOut`, `ErasesAsAsked`, `RolesTrue`; `BackupsTyped`, `ReportedIsThere`, `BackedUpFirst` |
| `MaintenanceProofs` | `Maintenance` | `Typed`, `NothingHalf`, `Screen`, `Lossless`, `DoneRestored` |
| `ClockProofs` | `Clock`, `Night` | `Typed`, `NeverAhead`, `SettingSurvives`, `NightRight` |
| `DashboardUsersProofs` | `DashboardUsers` | `Typed`, `AdminRemains`, `Lock`, `WeakReplaced` |
| `TlsProofs` | `Tls` | `Typed`, `CaKept`, `AlwaysLoadable` |

Each proof has the same shape: an invariant that is inductive, `Init => Inv`, one lemma per action (or
group of actions that touch the same part of it) for `Inv /\ [Next]_vars => Inv'`, and a theorem that
adds the temporal step.  Modules with proofs have no RECURSIVE operator, named assumptions and one
action per step.

How the modules meet: `Maintenance` has of an update only the steps that touch the database and the
screen (the rest is `UpdateWatcher`'s), and of the copy before a restore only that it is taken (how
is `Backups`'); `Backups` knows of a stick only whether it is mounted (`StorageHelper` has the rest);
`Clock` has the audit log that `DashboardUsers` counts failed logins in.  `Clock` extends
`Night`, whose nights are decided by its clock.

A *gap*, in all of them, is a variable that remembers that a behaviour went through something the
code does not protect against.  Properties name the gaps they leave out, so that they say of the
rest what is true of it; section 12 lists what goes wrong in them.

## 3. `UpdateWatcher`: one action per durable step

State corresponds to files and Docker: `incoming`, `active`, `journal`, `previous`, `copies`,
`status` are `data/updates/`; `tag`, `prevTag`, `running` the image names, the
`coffeepy-previous` tags and the containers; `installed`, `composeFile`, `installDir`, `db` what
their names say.  `pc` is where the watcher stands: its values follow `process_bundle()`
(`check`, `accept`, `move`), `apply()` (`tag` ... `verify`), the commit (`record`, `commit`,
`forget`, `done`), `undo()`/`rollback()` (`undo`, `un_*`, `rb_*`) and `recover()` (`rec_*`).
`caller` says for whom `undo()` runs.  Power cuts (`PowerCut`), a killed watcher (`Kill`), failing
commands (`*Fails`), the stack's own start after a reboot (`StackStarts`) and the watchdog's restart
(`WatchdogRestarts`) can come between any two steps.

Bundles are named by the version they carry; versions are numbers in the order of `built_at` and of
their migrations.  The migration order is what makes `migrate_back()` and the entrypoint's
`migrate` visible: the database has a schema version.

*History variables* say what the properties compare with: which bookings fell into a trial
(`trial`), how often a bundle was accepted (`accepts`), what was installed when it was (`base`), and
whether the behaviour went through one of two gaps (`gaps`): *overrun*, a journal replaced by a
second bundle, and *early*, images of an update started before its journal says "switched".

| Run | Shows | Bounds |
|---|---|---|
| `update_watcher` | `TypeOK`, `OneVersion`, `KeptBookings`, `BundleKept`, `AttemptsBounded`; `PromiseKept`: the watcher implements `AtomicUpdate` | versions 1-3, one older and one newer bundle, two images, two uploads at a time, two cuts, two failures, one booking |
| `update_liveness` | `Recovers`, `BundlesSettle` | two cuts, one failure |

Why the bounds are enough: an update goes wrong by a cut in the update and a second one in its
recovery, or by a command that fails and a second one in its undo; two of each contain both, and
their mixes.  Two images show names that point at different versions; an older and a newer bundle
show both directions of the migrations.  `MaxAttempts` is 2 instead of 3, so that two cuts exhaust
it.  `CHECK_DEADLOCK FALSE`: with the budgets spent and nothing in `incoming/` the watcher waits.

Fairness (`FairSpec`): the watcher and systemd keep taking steps that are possible
(`Restart=on-failure`, units started at boot), and other maintenance ends at some point, so that a
bundle that keeps waiting is taken (strong fairness of `Take`, since waiting and being able to
take alternate).  Uploads, bookings, cuts and failures are never owed.

### Proofs (`UpdateWatcherProofs`)

For every set of versions, images, bundles and uploaders and every bound:

| Theorem | Statement |
|---|---|
| `TypeCorrect` | `Spec => []TypeOK` |
| `BookingsKept` | `Spec => []KeptBookings` |
| `Implements` | `Spec => PromiseKept`, that is `Spec => Promise!Spec` |
| `Bounded` | `Spec => []AttemptsBounded` |
| `NeverForgotten` | `Spec => []BundleKept` |
| `SameThroughout` | `Spec => []OneVersion` |

None of these invariants is inductive by itself.  `TInv == TypeOK /\ Control` adds what the place
in the program says of the files (in `apply()` there is a journal and its bundle is the one at
hand; a trial has a `previous.json` and the copies it restores from), without which a step could
read a journal that is not there.  `KInv` adds that the dump holds every booking made outside of
the trial, from the moment the writers are stopped until the journal goes.  `PInv` adds that the
version on trial was accepted over the one before it, which the refinement needs at the commit and
when a later update meets the journal of a rollback that failed.  `AInv` counts a bundle's
acceptances against the attempt its options and the journal name.  `ThereInv` adds to `BundleKept`
that a journal that promises another try names a bundle.  `WInv`, without a gap, says for every phase of
the journal and every place of `apply()`, `undo()` and `rollback()` which of tag, previous tag, containers,
compose file, `install/`, schema and `installed.json` are the old version's and which the new one's
(`ByPhase`, `Forward`, `Back`): only with all of it does a recovery that starts anywhere end in one
version.  Each is shown by one lemma per
group of actions and, under it, one step per action.  The refinement maps the device to the version
it *stands for*: `previous.installed` while an update is on trial, `installed` otherwise; the
ledger likewise, so that loading the dump is a stutter.

Assumptions: those named in `UpdateWatcher` (versions are naturals, the web image is an image, the
bounds are naturals, NONE is none of the values); TLC evaluates them in every run.

Only model-checked: `Recovers` and `BundlesSettle`, since fairness and ENABLED are out of the
prover's reach.

## 4. `KioskSession`: requests that overlap

A request reads the session row when it starts and writes its whole copy back when it ends, if it
changed it and does not end in a 500 (Django's SessionMiddleware, modelled from how the views rely
on it).  `req[w]` is what worker `w` has in hand: `s`, its copy of the session; `step`, the
statement it has reached; `modified`.  Each statement of the views that is its own transaction is an
action: `Panel`, `Nav`, `OrderSelect`, `OrderConfirm`, ... start a request, `CardLogsIn`,
`CaptureLinks`, `IdleReturn`, `Tick` are what `_render_panel()` does, `PlaceOrder` is the insert,
`SaveSession` the write.  The browser polls one at a time, and a press may overlap a poll
(`hx-sync` in `index.html`: navigation aborts the poll, for the browser only).

The admin's actions are those of `dashboard/views.py` that a kiosk session depends on; a merge is
two actions, because its UPDATE and its DELETE are two statements and READ COMMITTED lets an order
in between.  Time is a tick that lowers all deadlines, so states do not grow.

| Run | Shows | Bounds |
|---|---|---|
| `kiosk_session` | `NightTapsNotBooked`, `NamedBeforeOrder` | two workers, two cards, two taps, a night, a power cut, one press |
| `kiosk_one_worker` | `TypeOK`, `BookedAsAsked`, `SessionEnds`, `IdleReturns` | one worker, two cards, two taps, one press, two admin edits |

Why the bounds are enough: a race needs two requests, hence two workers; a card linked to another
member's needs two cards; the night needs a tap before and one during it.  Deadlines of one tick
are enough to have every order of "expires" and "is used"; the capture lives for two, so that it
can outlive a session and the other way round.  In the run of one worker the second card is an
extra card of the first, and two edits are a member changed and then deleted, merged or taken back.

Fairness: workers answer what they have begun, the page polls (`hx-trigger="every 500ms"`), the
morning comes, transactions end, time passes.  No press, card or cut is owed.

What the properties leave out on purpose:

- `NightTapsNotBooked` counts a tap as dark once the last request of the evening is answered; a
  poll still running when the browser is ended may take one more.
- `BookedAsAsked` is for one worker without power cuts, and leaves out logins one of whose requests
  ended in a 500: between the order's insert and the session's save a cut, or an error of the rest
  of the answer (an extra card that is linked already, tapped while a card is being added), books
  the same login again.
- A tap during somebody's session stays unseen until the logout and then opens its holder's; no
  document judges that, so no property does.
- A name that is blocked or merged away while the order screen is open does not close it:
  `NamedBeforeOrder` is about having had a proper name.

Not in the module: the thank-you screen, sort pages, ranking tabs and language, which only the
picture depends on; an order always finds a coffee sort.

### Proofs (`KioskSessionProofs`)

For any set of cards, members and workers and every length of the deadlines:

| Theorem | Statement |
|---|---|
| `Typed` | `Spec => []TypeOK` |
| `NightTaps` | `Spec => []NightTapsNotBooked` |
| `NamedFirst` | `Spec => []NamedBeforeOrder` |
| `BooksAsAsked` | one worker and `MaxCuts = 0` imply `Spec => []BookedAsAsked` |

What is claimed of bookings must first hold of everything a booking is made from.  `KioskInv` says it
of the ledger, of the row in `django_session` and of *every copy* of it that a request has in hand:
the tap that logged in was not dark, a session on the order screen belongs to somebody who has had a
proper name or is gone, and after an evening every copy that can still be written back is past the dark taps
(`PastDark`); a merge's rows, which have left their account and not yet reached the other, count
as bookings.  For one worker `OneInv` adds what ties the copy in hand to the stored one:
a tap is booked by no row while its login may still book (`Free`), or the request in hand ends the
session when it is saved (`Quits`); a login whose deadline or Cancel has decided is on the order
screen with its booking switched off.  With two workers that is false - the second one's copy is older -
and with a power cut too, which is why both are hypotheses: `kiosk_one_worker` has the same.
Assumptions: NONE is no card and no request, cards and deadlines as declared.
Only model-checked: `SessionEnds`, `IdleReturns`.

## 5. `ReaderStatus`: what the kiosk says of the reader

The kiosk shows "card reader not available" from one database row.  The status comes there from
`bridge.py` over a retained MQTT message and `mqtt_listener.py`, and every hop can die and come back
on its own.

State corresponds to: `bridge`, where `main()` stands, and `lastStatus`, `MqttPublisher._last_status`;
`callback` and `seen`, how far `_on_connect` is in paho's own thread; `outgoing`, what paho keeps
until the broker has it (QoS 1); `retained` and `will`, the broker's message of
`<MQTT_TOPIC>/status` and a last will that is due; `listener`, `pending`, `known`, the listener's
loop and its class `ReaderStatus`; `row`, the `NfcReaderStatus` row; `dbUp`, whether PostgreSQL
answers.  Storing a status and publishing it are two actions in both threads of the bridge, since
`publish_status()` does them one after the other without a lock; `set()`, `flush()` and `_check()` of
the listener run in one loop and are one action each.

| Run | Shows | Bounds |
|---|---|---|
| `reader_status` | `TypeOK`, `Settled`, `ReaderShown` | the reader is moved twice, two faults of any kind |

Why the bounds are enough: the status is one bit, so out and in again shows every stale value; a
wrong row needs one fault that loses a message and one that hides the repair (the database away while
the broker restarts, the bridge dead while the listener reconnects).  `CHECK_DEADLOCK FALSE`: when
everything is said and written the model rests; the real loops go round without changing anything.

Fairness (`FairSpec`): Docker restarts what died (`restart: unless-stopped`), paho and the listener
keep reconnecting, the loops go round, a stopped database comes back, and `flush()`, which each round
of the listener's loop calls, is not starved by messages.  Pulling the reader and faults are never
owed.

History variables: `overtaken`, `main()` stored a status between the callback's reading of the old
one and its publishing of it; `Settled` and `ReaderShown` leave those behaviours out.  `replaced`,
another database was put under the row since the listener last wrote or checked it; `Settled` waits
for the check, `ReaderShown` says that it comes.

### Proofs (`ReaderStatusProofs`)

For any number of faults and of times the reader is moved:

| Theorem | Statement |
|---|---|
| `ReaderTypeCorrect` | `Spec => []TypeOK` |
| `ReaderSettled` | `Spec => []Settled` |

`Settled` speaks of the moment when nothing is under way, so the proof carries each hop's promise
through the time when something is: `Agreed`, the status stored, and the one the callback has read,
are what the place of `main()` stands for; `Spoken`, over an idle connection the last message under
way says the same, or with none under way the retained one does; `Heard`, the last message in the
listener's inbox, or with an empty one `known`, is the retained one; `Stored`, the row is `known`
unless a write is pending or the database was replaced.  Together they are inductive, and at rest they chain from
the reader to the row.  Only model-checked: `ReaderShown`, a liveness property.

## 6. `StorageHelper`: sticks under somebody's hands

State corresponds to the kernel's and to files: `port`, which stick is plugged in where; `content`,
a stick's file system and its `.coffeepy-backup.json`; `mounted`, for each of the two mount points
what is mounted on it, the top first, for one stick can come to lie over another; `deviceId`,
`configured`, `requests`, `status`, the files of `data/storage/`.  Of `storage_helper.py`: `seen` and
`table` are the lists `disks` and `mount_table` that `cycle()` reads once and passes on, `ejected`
the uuids in memory, `batch` and `job` the requests of this cycle, `pc` where it stands.  The cycle
is `Look`, `Take` and the request (`Format*`, `Adopt*`, `Eject*`, `ApplySettings`, `StickJson`),
`HandledRequests`, `Reconcile`, `MountStick`, `WriteStatus`; a stick may be plugged in or pulled out
between any two.  `OpenPage` and `Confirm` are the dashboard's set-up page, which looks the stick up
again from its path alone.

| Run | Shows | Bounds |
|---|---|---|
| `storage_helper` | `ErasedAsAsked`, `RolesReported`, `StaysEjected`, `OwnStickMounted` | two sticks, two paths, three events (a stick moved, a request, a kill or power cut, a restored identity, files read from the other stick) |

Why the bounds are enough: a swap is two moves and a request beside them; roles need this device's
stick and another's.  Fairness: the service's loop goes round and a backup ends.  `disturbed`
remembers that something was moved, restored or mounted over another stick since the helper last
looked; the two properties of a step are claimed without it, since the lists in the helper's hand
are then older than the sticks.  `out`, the sticks this helper has ejected and that have been in their
place ever since; `taken`, those that were pulled out after that and that the helper has not looked for yet.

### Proofs (`StorageProofs`)

For any number of sticks, paths, requests, pulls, deaths and power cuts:

| Theorem | Statement |
|---|---|
| `Typed` | `Spec => []TypeOK` |
| `EjectedStaysOut` | `Spec => []StaysEjected` |
| `ErasesAsAsked` | `Spec => ErasedAsAsked` |
| `RolesTrue` | `Spec => RolesReported` |

`EjectInv`: no stick is in two paths, what is in `out` is plugged in, the helper remembers its uuid or
is about to write it down (`Remembered`), and it is not mounted.  The helper remembers *uuids*, of
which a stick loses its own when it is formatted: so the invariant also says whose uuid is whose.
`CalmInv`, while nothing disturbs the cycle: the list in the helper's hand is the sticks' state
(`AsSeen`, `TableTrue`), the disk at the path of a request at work is the stick it asked for
(`RightDisk`), and the one that is to be mounted has the role it is mounted for (`RightRole`).

The proof of `StaysEjected` showed its first form to be true only within the bounds of its run: a
stick that is pulled out and put back is forgotten by the helper's design, and with enough events one
could do so unnoticed.  `out` and `taken` now say which sticks are meant.
Assumptions: NONE is neither stick nor path, this device's id is not the other's.
Only model-checked: `OwnStickMounted`.

## 7. `Backups`: three runs, one directory

`stick`, `card` and `safety` are the files in the stick's `backups/`, in the same path when no stick
is mounted there, and in the card's `before-restore/`; `backupStatus` is `backup-status.json`, `present`
whether the stick is mounted, `stage` where a run stands.  A run
(`service`, `now`, `restore`) goes through `FindsStick`, `MakesName`, `Dumps`, `Renames`,
`WritesChecksum`, `ReadsBack`, `Rotates`, `Reports`, as `create_backup()`, `new_backup()`, `rotate()`
and `handle()` do; `RunFails`, `Refuses`, `PullsStick`, `SetsClock` and `Dies` come between.

| Run | Shows | Bounds |
|---|---|---|
| `backups` | `GenerationsKept`, `HonestStatus`, `SafetyKept` | three days, weeks of two, one recent backup, two of each period, two events, a clock four days ahead or two days back |

`GenerationsKept` is `rotate()` against a reference: thinning out after each backup keeps what one
look at all backups ever written would keep (`Wanted`).  Why the bounds are enough: with two kept
of each period a third period, or a second backup of one, is one to go; two runs beside each other
and one failure are every pair of steps.  The model has the clock set back, the stick pulled between
`own_backup_dir()` and `mkdir()` (`Card`), two runs in one second (`Collision`) and a counted file
that is refused (`Unchecked`) as gaps.  No fairness: no liveness is claimed.

### Proofs (`StorageProofs`, second part)

For every interval, every `keep_*`, any number of failures, pulled sticks, kills and settings of the clock:

| Theorem | Statement |
|---|---|
| `BackupsTyped` | `BackupSpec => []BackupTypeOK` |
| `ReportedIsThere` | `BackupSpec => HonestStatus` |
| `BackedUpFirst` | `BackupSpec => []SafetyKept` |

Type correctness is where `new_backup()`'s loop ends: of one name more than there are files one is
free (`NameIsFree`, by the pigeonhole fact of the library).  `HonestInv`: every run is in the stick's
directory (`Placed`), no two have one name (`NamesDiffer`), and what a run has read back has its own
checksum (`Whole`), which another's rename or checksum cannot touch as it has another name.
`SafetyInv`: no copy is dated after the device's clock or after the copy being taken (`Past`), so that
`rotate()` - whoever's - counts nothing newer and keeps it (`NewestKept`), and nothing else removes
it, for no other run's file has its prefix (`CopyThere`).  Assumptions: at least one copy before a restore
is kept (`KEEP_BEFORE_RESTORE` is 3 in the code), NULL is no number and no file.
Only model-checked: `GenerationsKept` (see the plan).

## 8. `Maintenance`: everything that replaces data

`db` is the set of committed rows, told apart by where they come from; `schema` whether the tables
are this version's; `place` the configuration files; `copies` each restore's safety copy;
`restoreStatus`, `importStatus`, `screen` the three files, with their age.  `pc[r]` is the thread of
`restore_jobs._run()`: checking, copying, clearing (`pg_terminate_backend`), dropping, loading,
placing, migrating.  The import is one transaction with its rows; the update has the steps that
concern the others.  PostgreSQL's locks decide who waits for whom.

| Run | Shows | Bounds |
|---|---|---|
| `maintenance` | `AllOrNothing`, `NothingLost`, `ScreenTrue`, `DoneMeansRestored`, `Unblocked` | two restores of database and certificates, no stick, one import, one update, one booking, one event |
| `failed_changes_nothing` | a violation (section 12) | the same |

Why the bounds are enough: each check is passed by one other job at a time, and two restores with
an import, a reset and an update are every pair; `Stick = FALSE` is the harder case, with one place for the safety copy; an age of
one unit makes every status both fresh and stale.  Fairness: threads and the watcher run until they
die, containers start, time passes.  The history `met` marks restores that had another job beside
them: what two of them do to each other is in the model, and `AllOrNothing` and `Unblocked` are
claimed of it.

### Proofs (`MaintenanceProofs`)

For any number of restores, bookings and faults, any parts asked for, every age at which a status is
stale, with and without a stick:

| Theorem | Statement |
|---|---|
| `Typed` | `Spec => []TypeOK` |
| `NothingHalf` | `Spec => []AllOrNothing` |
| `Screen` | `Spec => []ScreenTrue` |
| `Lossless` | `Spec => NothingLost` |
| `DoneRestored` | `Spec => DoneMeansRestored` |

`WholeInv` adds to `AllOrNothing` that an import's transaction has the tables to itself (`Alone`): the
rows it deletes are all there were, and no `psql` of a restore is between its rows.  `MetInv` says
that the history `met` misses nothing.  `SavedInv`: from the copy to the load, every row is in the
copy or came after it.  `DoneInv`: what a restore has written is in place (`Kept`), and the files
done and the files left make up what was asked for (`Progress`).  Assumptions: NONE is no set of rows
and no file.  Only model-checked: `Unblocked`.  `FailedChangesNothing` is the sentence of the manual that
is false (section 12).

## 9. `Clock` and `Night`

`real` is the true time, which only properties see; `wall` the system clock; `rtc`, `rtcOff` the
RTC; `status` is `rtc.json`, `seen` and `corrected` are `clock.json`.  The log keeps, of every stretch
between two settings of the clock, the newest entry, which is all `_newest_entry()` and `prune()`
depend on.  `CheckReads` and `CheckWrites` are `clock.check()`; `AdminSets`, `AdminConfirms`,
`AdminLogs` the page's three statements, all of which the check can fall between; `SyncReadable`,
`SyncStopped`, `SyncAway` are `rtc_sync.sh`.

| Run | Shows | Bounds |
|---|---|---|
| `clock` | `NeverFarAhead`, `SetSurvives`, `CatchesUp`; `NightAsPlanned` | true time 3 to 4, three events, an admin right or three units ahead, NTP; days of three minutes for the nights |

Why the bounds are enough: a wrong correction needs the clock wrong, an entry dated by it, and a
second jump or reboot; one unit is `AHEAD_OF_ENTRY`, the thresholds are one or two.  Fairness: the
service's minutely round, the host's timer, requests end, time passes.

`NeverFarAhead` bounds how far the clock may run ahead by `AHEAD` for every time that it was put *back*
(`jumps`), by a reboot, NTP or an admin; `SetSurvives` is claimed while nothing has touched clock or
RTC since the last sync (`unsynced`).

`Night` is `is_night()` of both files and, beside it, what its docstring means by a night.
With three minutes a day has every order of off, on and now.

### Proofs (`ClockProofs`)

For all thresholds, any number of jumps, checks, reboots, settings, RTC faults and pruned logs:

| Theorem | Statement |
|---|---|
| `Typed` | `Spec => []TypeOK` |
| `NeverAhead` | `Spec => []NeverFarAhead` |
| `SettingSurvives` | `Spec => SetSurvives` |
| `NightRight` | `Spec => []NightAsPlanned` |

What bounds the clock has to bound everything a check may set it to.  `ClockInv`, as long as nobody
set the clock ahead: clock and RTC run at most `AHEAD * jumps` before the true time (`WallOK`); every
date in the log and of the host's uncollected events is in the past of the clock, or was left over by
a jump back and is bounded with `AHEAD` to spare (`LogOK`), because a correction adds `AHEAD` to it;
the same of the pair remembered in `clock.json` (`SeenOK`) and of a check that has read and not yet
written (`CheckOK`).  It rests on lemmas about the log: what its newest entry is, and what appending,
pruning and a collected event do to it; that a finite log *has* a newest entry is shown by well-founded
induction over its subsets.  `RtcInv` is the distance of the two clocks.

The proofs showed two properties to be true only within the bounds of their run.  `NeverFarAhead` did
not count the times that NTP, an admin or the RTC puts the clock back, each of which can be worth
another correction; `SetSurvives` was false with one event more, in which the RTC fails after the sync.
`jumps` and `unsynced` now count what matters.

`NightRight`: for every length of the day, every schedule and whatever integer the clock shows.  A night
that began today and one that began yesterday are each brought into the form `is_night()` tests
(`LastsToday`, `LastsYesterday`), and `NightAtMinute` compares them by the two days' rules.
Assumptions: NONE is no integer, thresholds are naturals, `AHEAD` at least one, a day has at least one
minute.  Only model-checked: `CatchesUp`.

## 10. `DashboardUsers`: requests that write back rows

`account` is `auth_user`, `must` `must_change_password`, `strict` whether today's rules are those that
weak passwords fall short of, `failures` the ages of an account's failed logins since the last
successful one (what `lock_until()` counts), `session` each browser's.  A login is `LoginChecks`,
then `LoginFails`, or `LoginPasses` and `LoginEnters`; a page that changes an account is `*Post` (the
row read and the checks), `Saves` (the row written) and `Flags`.

| Run | Shows | Bounds |
|---|---|---|
| `dashboard_users` | `AnAdminRemains`, `LockHolds`, `ReplacedFirst`, `LockLifts` | two admins, two browsers, wrong passwords for one, a lock after two failures, two changes |

Why the bounds are enough: whoever takes the last admin away is another admin, or oneself; two
browsers are two requests at once; one more failure than the lock takes is possible with two.
Fairness: time passes.  Gaps: `crossed`, a page wrote over a row that had changed since it was read;
`overtaken`, a login raised the flag that a page under way then lowers.  The password of
`DJANGO_SUPERUSER_PASSWORD` is taken to meet the rules.  The idle logout may come at any time.  Not in the
model: renaming an account, after which the log's failures under the old name no longer count.

### Proofs (`DashboardUsersProofs`)

For every set of accounts and browsers, every limit and lock period:

| Theorem | Statement |
|---|---|
| `Typed` | `Spec => []TypeOK` |
| `AdminRemains` | `Spec => []AnAdminRemains` |
| `Lock` | `Spec => []LockHolds` |
| `WeakReplaced` | `Spec => []ReplacedFirst` |

`AdminInv`: whoever asked for a change was a good admin when the row was read, and if the change is to
himself it leaves him one (`Asked`).  `LockInv` counts: an account's recent failures and the logins that
have passed the check and not yet failed are together fewer than the limit and the browsers, since
each browser has one request.  `WeakInv`: a password is an event of its own, never used before (`Fresh`,
`Bounded`), so that a page that lowers the flag has made every session and login of the old one void
(`Flagged`).  Assumptions: NONE is neither account nor page, the first account is one, there are
finitely many browsers, limit and period are at least one.  Only model-checked: `LockLifts`.

## 11. `Tls`: files that belong together

`ca`, `pair`, `live`, `caddyfile` are the files of `TLS_DIR` and the Caddyfile; `lock` is `.lock`;
`proc` what the hourly job and each worker are at.  Each file written is an action (`CaKey`,
`IssueKey`, `IssueCrt`, `CopyKey`, `CopyCrt`, `WriteCaddyfile`, `Cleanup`, `CustomKey`, ...), a process
may be killed between any two, and the lock goes with it.  Caddy reloads what loads, the kiosk's
browser takes the CA at its start, a phone installs the CA once.

| Run | Shows | Bounds |
|---|---|---|
| `tls` | `Loadable`, `CaStays`, `Settles` | the job and two workers, one unit of time, after which a certificate is due; two of: an upload, a revert, a restore, a kill, other names, a restart of Caddy |

Why the bounds are enough: a torn state needs one writer killed and one that comes after it; a third
process shows the lock.  Fairness: each process goes on or is killed, the hourly job comes again,
Caddy watches its file, the kiosk's session starts again (the watchdog sees to it when the page does
not load).  Gaps: `halved`, killed between a new key and its certificate, which the next `ensure()`
repairs; `torn`, the same where nothing does; `mixed`, a restore copied while another wrote.  After
`torn` and `mixed` the behaviour is not followed any further.

### Proofs (`TlsProofs`)

For any number of workers, every age at which a certificate is renewed, and any number of faults:

| Theorem | Statement |
|---|---|
| `Typed` | `Spec => []TypeOK` |
| `CaKept` | `Spec => []CaStays` |
| `AlwaysLoadable` | `Spec => []Loadable` |

`BaseInv`: whoever works has the lock, and past the server's and the kiosk's pair those pairs are
there (`Stocked`).  `LoadInv`, outside of the gaps: each pair's certificate is its key's, or its writer
is between the two files (`Matched`); a live certificate has its key (`Backed`); the files a run has
copied so far and will name are live and fit (`Named`), and a restore that has copied some of the
live files has not yet pointed Caddy at the others (`CopiedSoFar`).  `CaInv`: there is one CA, and
everything in hand, live or served is signed by it or by nobody of the device's (`OneCa`).  Assumptions:
NONE and EMPTY are neither numbers nor certificates, the job is no worker.
Only model-checked: `Settles`.

## 12. Findings

One run shows the code disagreeing with what its documents say:

| Run | The code | What is said |
|---|---|---|
| `failed_changes_nothing` | the database is committed before certificates, identity, settings and the migration; if one of those fails, so has the restore, and the data is replaced | `docs/MANUAL.en.md:718`: "if the restore fails, nothing is changed" |

Other disagreements met while modelling.  The models have these behaviours unless it says otherwise;
no run is spent on them.

- Update: a failure after the commit is reported as "rolled_back" while the new version stays
  (`update_watcher.py:764`).  After a failed rollback the device runs and books; the next start loads
  the dump from before over it (`:503`, against `:449`).
- Kiosk: a poll that read the session before a pick or Cancel books at the deadline all the same
  (`kiosk/views.py:660`, `MANUAL.en.md:323`).  An open Settings screen creates a member again that was
  merged away meanwhile: one card, two accounts (`:249`, `MANUAL.en.md:565`).
- Members: an order inserted between the merge's UPDATE and its DELETE is deleted
  (`dashboard/views.py:426`, `MANUAL.en.md:564`).
- Reader: the callback of a reconnect can publish the status it read before the main loop set a new
  one, and that stays retained (`bridge.py:247`, against `:222`).
- Storage: the set-up page shows a stick, its form posts only the path: with another stick there by
  then, that one is erased (`views_backup.py:100`, against `storage_helper.py:23`).  A umount that
  fails is ignored and the next stick mounted over it (`:398`).  What was ejected is forgotten at a
  restart, and a request is unlinked before it is worked on (`:430`).
- Backups: after a backup made with the clock ahead, none is due and the page says "ok" until time has
  caught up (`backup_db.py:34`, `backups.py:266`).  On the card the copy before a restore is erased
  before the new one exists (`restore_jobs.py:116`).  A run that finds no stick clears the error.
- Restore: two restores can pass each other's check (`restore_jobs.py:124`, against `:75`); the second
  erases the first's copy and ends its screen.
- Clock: an entry of the host, collected after the clock was set back, pulls it forward again
  (`clock.py:69`).  `prune()` can delete the row of a setting while entries from before it, dated in
  the future, stay.  A check that falls between the statements of the "System time" page works on
  half of them.
- Accounts: two admins who demote or delete each other at the same moment leave none
  (`dashboard/views.py:773-777`); a page that saves after a deletion creates the account again.
- TLS: a CA whose creation was cut leaves an empty `ca.crt`, and every `ensure()` fails from then on
  (`tls.py:114`); of a custom certificate replaced and cut in between, nothing notices that key and
  certificate differ.

## 13. What is not modelled

- *OS bundles*: their commit is a reboot into another slot or release, with the boot loader and the
  packages of the system as actors that are not in the repository.
- *Watchdog*: its restart of the stack is an action of `UpdateWatcher` and of `Maintenance`; its
  counters, grace period and hourly limit are left for a module of their own.  (Read, not checked:
  while `/health/` answers and the kiosk's pages do not, the browser's own relaunches keep the
  counter from reaching the stack's restart; a clock set back leaves its last action in the future.)
- *Portal*: links, devices and rolling sessions.  (Read, not checked: two phones that open a link
  at once both get a session, `portal/views.py:65`.)
- *Audit collectors*: the collection is one step in `Clock`; a collector that fails between two rows
  loses the rest.
- *Retention of departed members*, editing sorts and payments, single backups deleted or downloaded,
  SSH's one-hour switch, what the settings request writes into `.env`.
- For good: the installer (run by a person, step by step), cryptography, statistics, forms and
  templates (read-only or validation), fsync and what a stick loses in its own cache.

`PROJECT.json` lists the hazards no property covers, each with the reason.
