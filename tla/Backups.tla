------------------------------- MODULE Backups -------------------------------
(***************************************************************************)
(* Making backups (coffee/backups.py, backup_db.py): the backup service's  *)
(* minutely round, "Back up now" and the copy a restore takes first, step  *)
(* by step on the same stick, thinned out by rotate().                     *)
(*                                                                         *)
(* Abstractions.  A backup is its name - prefix, stamp, number - and       *)
(* whether its checksum is its own, another file's or missing.  What is in *)
(* it, its encryption and config files are left out.  Time is counted in   *)
(* units; a day, a week, a month are PERIODS of so many of them.  Of the   *)
(* stick only whether it is mounted counts (StorageHelper has the rest);   *)
(* its mount point on the SD card is `card`.  A renamed file is taken to   *)
(* be on the stick: nothing calls fsync(), and what a stick pulled within  *)
(* seconds of it loses is left out.                                        *)
(***************************************************************************)
EXTENDS Integers, SequencesExt, FiniteSetsExt

CONSTANTS
  NULL,
  INTERVAL,            \* interval_minutes
  STALE,               \* health(): max(3 * interval, 3 hours)
  RECENT,              \* keep_recent
  PERIODS,             \* <<[long, keep], ...>>: keep_daily, keep_weekly, keep_monthly
  KEEP_BEFORE_RESTORE,
  \* bounds of the environment, not of the program:
  Start, End,          \* the true time runs from Start to End
  MaxTroubles,         \* clicks, sticks moved, failures, kills, settings of the clock
  ClockErrors          \* how far somebody may set the clock ahead or back

ASSUME NullAssumption ==
  /\ NULL \notin Int
  /\ NULL \notin [pre : {"coffeepy", "before-restore"}, stamp : Nat, num : Nat, mtime : [at : Nat, real : Nat] \cup {NULL}]
ASSUME ConstantAssumption ==
  /\ INTERVAL \in Nat \ {0} /\ STALE \in Nat /\ RECENT \in Nat \ {0} /\ KEEP_BEFORE_RESTORE \in Nat \ {0}
  /\ \A i \in DOMAIN PERIODS : PERIODS[i].long \in Nat \ {0} /\ PERIODS[i].keep \in Nat
  /\ Start \in Nat /\ End \in Nat /\ MaxTroubles \in Nat /\ ClockErrors \subseteq Int

VARIABLES
  real, wall,   \* the true time and the device's
  present,      \* the device's backup stick is mounted at own_root()
  stick, card, safety,  \* the files in its backups/, in that directory on the card, in before-restore/
  backupStatus, \* backup-status.json
  stage, dir, file,  \* of each run: where it stands, the directory it writes to, its target
  troubles,     \* bound
  written,      \* history: every automatic backup that came onto the stick
  counted,      \* history: runs whose file another one's rotate() saw before it was read back
  gap           \* history: which of the gaps below was met

backupVars == <<real, wall, present, stick, card, safety, backupStatus, stage, dir, file, troubles, written, counted, gap>>

Procs     == {"service", "now", "restore"}
Automatic == "coffeepy"
Before    == "before-restore"
Prefix(p) == IF p = "restore" THEN Before ELSE Automatic

\* Gaps, in which a property below does not hold: the stick is pulled between own_backup_dir() and
\* mkdir(); two runs start in one second and both find the name free; the clock goes back; rotate()
\* counts another run's file, which then is refused.
Card == "card"
Collision == "collision"
ClockBack == "clock back"
Unchecked == "unchecked"

BackupInit ==
  /\ real = Start /\ wall = Start /\ present = TRUE
  /\ stick = {} /\ card = {} /\ safety = {}
  /\ backupStatus = [attempted |-> 0, lastOk |-> NULL, lastFile |-> NULL, error |-> FALSE]
  /\ stage = [p \in Procs |-> "idle"] /\ dir = [p \in Procs |-> NULL] /\ file = [p \in Procs |-> NULL]
  /\ troubles = 0 /\ written = {} /\ counted = {} /\ gap = {}

Occurs == troubles < MaxTroubles /\ troubles' = troubles + 1
Goes(p, step) == stage' = [stage EXCEPT ![p] = step]
Ends(p) == Goes(p, "idle") /\ file' = [file EXCEPT ![p] = NULL] /\ dir' = [dir EXCEPT ![p] = NULL]

NameOf(f) == [pre |-> f.pre, stamp |-> f.stamp, num |-> f.num]
Names(files) == {NameOf(f) : f \in files}

\* own_root() is the stick, or the directory it would be mounted at.
Files(d) == IF d = "safety" THEN safety ELSE IF d = "stick" THEN stick ELSE card
Path(d)  == IF d = "safety" THEN "safety" ELSE IF present THEN "stick" ELSE "card"
Reaches(p) == Path(dir[p]) = dir[p]
Put(d, files) ==
  /\ stick' = IF d = "stick" THEN files ELSE stick
  /\ card' = IF d = "card" THEN files ELSE card
  /\ safety' = IF d = "safety" THEN files ELSE safety

-----------------------------------------------------------------------------
(* rotate()                                                                *)

\* _dated(): sorted(..., reverse=True) by stamp, then by path: "-" sorts before "."
Newer(f, g) ==
  \/ f.stamp > g.stamp
  \/ f.stamp = g.stamp /\ (IF g.num = 1 THEN FALSE ELSE f.num = 1 \/ f.num > g.num)
Dated(files, pre) == SetToSortSeq({f \in files : f.pre = pre}, Newer)

\* Mutant: counted after it is taken.
NewestOfFewer(period, sorted) ==
  LET visit(acc, f) ==
        LET of == f.stamp \div period.long
        IN IF of \notin acc.seen /\ Cardinality(acc.seen \cup {of}) < period.keep
           THEN [seen |-> acc.seen \cup {of}, kept |-> acc.kept \cup {f}] ELSE acc
  IN FoldLeft(visit, [seen |-> {}, kept |-> {}], sorted).kept

\* The newest of each of the last `keep` periods, newest first.
NewestOfEach(period, sorted) ==
  LET visit(acc, f) ==
        LET of == f.stamp \div period.long
        IN IF of \notin acc.seen /\ Cardinality(acc.seen) < period.keep
           THEN [seen |-> acc.seen \cup {of}, kept |-> acc.kept \cup {f}] ELSE acc
  IN FoldLeft(visit, [seen |-> {}, kept |-> {}], sorted).kept

\* _dated()[:n]
Newest(n, files, pre) == {f \in files : f.pre = pre /\ Cardinality({g \in files : g.pre = pre /\ Newer(g, f)}) < n}

KeptAutomatic(files) ==
  LET sorted == Dated(files, Automatic)
  IN Newest(RECENT, files, Automatic) \cup UNION {NewestOfEach(PERIODS[i], sorted) : i \in DOMAIN PERIODS}

\* Mutant: the oldest copies are kept.
KeptOldestBefore(files) ==
  {f \in files : f.pre = Before /\ Cardinality({g \in files : g.pre = Before /\ Newer(f, g)}) < KEEP_BEFORE_RESTORE}

KeptBefore(files) == Newest(KEEP_BEFORE_RESTORE, files, Before)

\* _NO_AUTOMATIC: after the copy before a restore, only those are thinned out.
Rotated(p, files) ==
  {f \in files : IF f.pre = Before THEN f \in KeptBefore(files) ELSE p = "restore" \/ f \in KeptAutomatic(files)}

-----------------------------------------------------------------------------
(* The status.                                                             *)

Due == wall - backupStatus.attempted >= INTERVAL

\* health(), with the helper running and a stick set up
Health ==
  IF ~present THEN "missing"
  ELSE IF backupStatus.error THEN "failing"
  ELSE IF backupStatus.lastOk # NULL /\ wall - backupStatus.lastOk.at > STALE THEN "stale"
  ELSE "ok"

\* write_backup_status(error=...); the service and "Back up now" report, a restore does not
Failed(p) ==
  /\ backupStatus' = IF p = "restore" THEN backupStatus ELSE [backupStatus EXCEPT !.error = TRUE, !.attempted = wall]
  /\ Ends(p)

-----------------------------------------------------------------------------
(* A run: handle() of backup_db.py, new_backup() and create_backup().      *)

Starts(p) == stage[p] = "idle" /\ IF p = "service" THEN Due /\ UNCHANGED troubles ELSE Occurs

\* own_backup_dir(), or for a restore _safety_dir()
FindsStick(p) ==
  /\ Starts(p) /\ present
  /\ Goes(p, "name") /\ dir' = [dir EXCEPT ![p] = "stick"]
  /\ UNCHANGED <<real, wall, present, stick, card, safety, backupStatus, file, written, counted, gap>>

\* nothing backed up - which ends an error, too
NoStick(p) ==
  /\ Starts(p) /\ ~present /\ p # "restore"
  /\ backupStatus' = [backupStatus EXCEPT !.error = FALSE, !.attempted = wall]
  /\ UNCHANGED <<real, wall, present, stick, card, safety, stage, dir, file, written, counted, gap>>

FindsCard ==
  /\ Starts("restore") /\ ~present
  /\ safety' = {}
  /\ Goes("restore", "name") /\ dir' = [dir EXCEPT !["restore"] = "safety"]
  /\ UNCHANGED <<real, wall, present, stick, card, backupStatus, file, written, counted, gap>>

\* mkdir(), a name that is free, .work-*
MakesName(p) ==
  /\ stage[p] = "name" /\ Goes(p, "dump")
  /\ LET to      == Path(dir[p])
         name(n) == [pre |-> Prefix(p), stamp |-> wall, num |-> n]
         free    == {n \in 1..Cardinality(Files(to)) + 1 : name(n) \notin Names(Files(to))}
         num     == CHOOSE n \in free : \A m \in free : n <= m
     IN /\ dir' = [dir EXCEPT ![p] = to]
        /\ counted' = counted \ {p}
        /\ file' = [file EXCEPT ![p] = [pre |-> Prefix(p), stamp |-> wall, num |-> num, mtime |-> NULL]]
        /\ gap' = gap \cup (IF to # dir[p] THEN {Card} ELSE {})
                      \cup (IF \E q \in Procs \ {p} : file[q] # NULL /\ NameOf(file[q]) = name(num)
                            THEN {Collision} ELSE {})
  /\ UNCHANGED <<real, wall, present, stick, card, safety, backupStatus, troubles, written>>

\* dump(), the tar, encrypt(): into .work-*
Dumps(p) ==
  /\ stage[p] = "dump" /\ Goes(p, "rename")
  /\ file' = [file EXCEPT ![p].mtime = [at |-> wall, real |-> real]]
  /\ UNCHANGED <<real, wall, present, stick, card, safety, backupStatus, dir, troubles, written, counted, gap>>

\* os.replace() onto the target, whatever is there by now; its checksum is still the old one's
Renames(p) ==
  /\ stage[p] = "rename" /\ Reaches(p) /\ Goes(p, "checksum")
  /\ LET same == {f \in Files(dir[p]) : NameOf(f) = NameOf(file[p])}
         new  == [pre |-> file[p].pre, stamp |-> file[p].stamp, num |-> file[p].num,
                  sum |-> IF \A f \in same : f.sum = "none" THEN "none" ELSE "other"]
     IN /\ Put(dir[p], (Files(dir[p]) \ same) \cup {new})
        /\ written' = IF dir[p] = "stick" /\ p # "restore" THEN written \cup {NameOf(new)} ELSE written
  /\ UNCHANGED <<real, wall, present, backupStatus, dir, file, troubles, counted, gap>>

Target(p) == {f \in Files(dir[p]) : NameOf(f) = NameOf(file[p])}

WritesChecksum(p) ==
  /\ stage[p] = "checksum" /\ Reaches(p) /\ Target(p) # {} /\ Goes(p, "verify")
  /\ Put(dir[p], {IF f \in Target(p) THEN [f EXCEPT !.sum = "own"] ELSE f : f \in Files(dir[p])})
  /\ UNCHANGED <<real, wall, present, backupStatus, dir, file, troubles, written, counted, gap>>

ReadsBack(p) ==
  /\ stage[p] = "verify" /\ Reaches(p) /\ Target(p) # {} /\ Goes(p, "rotate")
  /\ UNCHANGED <<real, wall, present, stick, card, safety, backupStatus, dir, file, troubles, written, counted, gap>>

\* check_database() fails: it isn't a backup
Refuses(p) ==
  /\ Occurs /\ stage[p] = "verify" /\ Reaches(p) /\ Target(p) # {}
  /\ Put(dir[p], Files(dir[p]) \ Target(p)) /\ written' = written \ Names(Target(p))
  /\ Failed(p)
  /\ gap' = gap \cup (IF p \in counted THEN {Unchecked} ELSE {})
  /\ UNCHANGED <<real, wall, present, counted>>

\* whatever is at the directory's path by now; glob() of one that is gone finds nothing
Rotates(p) ==
  /\ stage[p] = "rotate" /\ Goes(p, "report")
  /\ LET at == Path(dir[p]) IN Put(at, Rotated(p, Files(at)))
  /\ counted' = counted \cup {q \in Procs \ {p} : stage[q] \in {"checksum", "verify"}}
  /\ UNCHANGED <<real, wall, present, backupStatus, dir, file, troubles, written, gap>>

\* Mutant: the backup is reported before it is read back.
ReportsEarly(p) ==
  /\ stage[p] \in {"checksum", "verify", "rotate", "report"} /\ p # "restore"
  /\ backupStatus' = [attempted |-> wall, lastOk |-> file[p].mtime, lastFile |-> NameOf(file[p]), error |-> FALSE]
  /\ Ends(p)
  /\ UNCHANGED <<real, wall, present, stick, card, safety, troubles, written, counted, gap>>

\* last_ok = target.stat().st_mtime - outside the try: without the file the command ends here
Reports(p) ==
  /\ stage[p] = "report" /\ p # "restore"
  /\ backupStatus' =
       IF ~Reaches(p) \/ Target(p) = {} THEN backupStatus
       ELSE [attempted |-> wall, lastOk |-> file[p].mtime, lastFile |-> NameOf(file[p]), error |-> FALSE]
  /\ Ends(p)
  /\ UNCHANGED <<real, wall, present, stick, card, safety, troubles, written, counted, gap>>

\* restore_jobs._run() goes on to replace the database
Restores ==
  /\ stage["restore"] = "report" /\ Ends("restore")
  /\ UNCHANGED <<real, wall, present, stick, card, safety, backupStatus, troubles, written, counted, gap>>

\* pg_dump, openssl, the stick: any step of create_backup() and rotate() may fail, and does when the
\* directory is not where it was
RunFails(p) ==
  /\ \/ stage[p] \in {"dump", "rename", "checksum", "verify", "rotate"} /\ Occurs
     \/ stage[p] = "broken" /\ UNCHANGED troubles
     \/ stage[p] \in {"rename", "checksum", "verify"} /\ ~Reaches(p) /\ UNCHANGED troubles
     \/ stage[p] \in {"checksum", "verify"} /\ Target(p) = {} /\ UNCHANGED troubles
  /\ Failed(p)
  /\ UNCHANGED <<real, wall, present, stick, card, safety, written, counted, gap>>

Run(p) ==
  \/ FindsStick(p) \/ NoStick(p) \/ MakesName(p) \/ Dumps(p) \/ Renames(p) \/ WritesChecksum(p) \/ ReadsBack(p)
  \/ Rotates(p) \/ Reports(p) \/ RunFails(p) \/ Refuses(p)

-----------------------------------------------------------------------------
(* The stick, the clock and the power.                                     *)

\* A run that is writing into .work-* fails with it.
PullsStick ==
  /\ Occurs /\ present /\ present' = FALSE
  /\ stage' = [p \in Procs |-> IF stage[p] = "dump" /\ dir[p] = "stick" THEN "broken" ELSE stage[p]]
  /\ UNCHANGED <<real, wall, stick, card, safety, backupStatus, dir, file, written, counted, gap>>
PlugsStick ==
  /\ ~present /\ present' = TRUE
  /\ UNCHANGED <<real, wall, stick, card, safety, backupStatus, stage, dir, file, troubles, written, counted, gap>>

\* The service looks every minute: time does not pass while a backup is due.
Tick ==
  /\ real < End /\ ~(Due /\ stage["service"] = "idle")
  /\ real' = real + 1 /\ wall' = wall + 1
  /\ UNCHANGED <<present, stick, card, safety, backupStatus, stage, dir, file, troubles, written, counted, gap>>

\* An admin, NTP or the clock check sets the clock: ahead, back, or right.
SetsClock ==
  /\ Occurs /\ wall' \in ({wall + d : d \in ClockErrors} \cup {real}) \cap Nat
  /\ wall' # wall /\ gap' = IF wall' < wall THEN gap \cup {ClockBack} ELSE gap
  /\ UNCHANGED <<real, present, stick, card, safety, backupStatus, stage, dir, file, written, counted>>

\* The stack restarts, or the power is cut: .work-* stays behind, the target does not exist yet or is whole.
Dies ==
  /\ Occurs /\ \E p \in Procs : stage[p] # "idle"
  /\ stage' = [p \in Procs |-> "idle"] /\ dir' = [p \in Procs |-> NULL] /\ file' = [p \in Procs |-> NULL]
  /\ UNCHANGED <<real, wall, present, stick, card, safety, backupStatus, written, counted, gap>>

World == PullsStick \/ PlugsStick \/ Tick \/ SetsClock \/ Dies

BackupNext == (\E p \in Procs : Run(p)) \/ FindsCard \/ Restores \/ World
BackupSpec == BackupInit /\ [][BackupNext]_backupVars

-----------------------------------------------------------------------------
(* Properties.                                                             *)

\* Which backups a stick should hold of those ever written: one with fewer than `keep_recent` newer
\* ones, or the newest of its period with fewer than `keep` later periods.
Wanted(names) ==
  {f \in names :
     LET newer == {g \in names : Newer(g, f)}
     IN \/ Cardinality(newer) < RECENT
        \/ \E i \in DOMAIN PERIODS :
             LET of(g) == g.stamp \div PERIODS[i].long
             IN of(f) \notin {of(g) : g \in newer} /\ Cardinality({of(g) : g \in newer}) < PERIODS[i].keep}

\* Thinned out after every backup, by several runs at once, with backups missed, failed and refused
\* in between, the stick holds what a single look at all the backups ever written would keep - as
\* long as the clock never went back, no two had the same name, and none was refused that another run
\* had counted already.
GenerationsKept ==
  [][gap \subseteq {Card} /\ (\E p \in {"service", "now"} : Rotates(p) /\ dir[p] = "stick" /\ present)
     => {f \in Names(stick') : f.pre = Automatic} = Wanted(written)]_backupVars

\* A backup reported as made is on the stick then, whole, read back and with the checksum of what it
\* holds - unless it went to the card, or under another run's name.
HonestStatus ==
  [][gap \cap {Card, Collision} = {} /\ backupStatus'.lastFile # backupStatus.lastFile
     => \E f \in stick : NameOf(f) = backupStatus'.lastFile /\ f.sum = "own" /\ present]_backupVars

\* "the device is backed up first" (restore_jobs.py:5): when a restore goes on to replace the
\* database, the copy it took exists - as long as the clock never went back
\* and no other copy was taken in its second.
SafetyKept == stage["restore"] = "report" /\ file["restore"].num = 1 /\ gap \cap {ClockBack, Card} = {} => Target("restore") # {}

=============================================================================
