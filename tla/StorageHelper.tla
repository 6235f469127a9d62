---------------------------- MODULE StorageHelper ----------------------------
(***************************************************************************)
(* The backup stick's device side: install/storage_helper.py (the host     *)
(* service), its files in data/storage/ and the dashboard's requests       *)
(* (dashboard/views_backup.py), while people plug sticks in and out, the   *)
(* helper dies, the power is cut and a backup keeps a stick busy.          *)
(*                                                                         *)
(* Abstractions.  A stick has one volume, named like its disk; `uuid` 0    *)
(* is a stick without a COFFEEBAK file system, and a stick's name stands   *)
(* for its serial number.  The kernel gives a stick a free path, and keeps *)
(* the path of a stick that was pulled out as long as it is mounted.  Only *)
(* the top of /proc/mounts counts for a mount point; umount uncovers what  *)
(* is under it.  The contents of .env, the SSH units and the event log are *)
(* left out, as is the free space.                                         *)
(***************************************************************************)
EXTENDS Naturals, Sequences

CONSTANTS
  Sticks, Paths,
  NONE,
  Ours, Other,    \* device ids: this device's, and another device's
  \* bound of the environment, not of the program:
  MaxEvents       \* sticks plugged in and pulled out, requests of the dashboard, helper deaths,
                  \* power cuts and restored identities, all together

ASSUME NoneAssumption == NONE \notin Sticks \cup Paths
ASSUME DeviceAssumption == Ours # Other

OWN == "own"
FOREIGN == "foreign"
Targets == {OWN, FOREIGN}

VARIABLES
  port,        \* path -> the stick plugged in there
  content,     \* stick -> its file system and .coffeepy-backup.json
  mounted,     \* mount point -> the paths mounted on it, the top first
  inUse,       \* paths a backup or a restore has files open on
  \* data/storage/
  deviceId, configured, requests, status,
  \* the helper
  pc,          \* where cycle() stands
  ejected,     \* uuids
  seen,        \* `disks`: path -> the stick and the uuid lsblk found
  table,       \* `mount_table`: mount point -> path
  batch,       \* the requests of this cycle still to do
  job,         \* the request at work
  last,        \* `last["state"]`
  \* the dashboard
  page,        \* the path that the open confirmation page names
  \* bound and history
  events,      \* how many of MaxEvents have happened
  fresh,       \* file system and stick ids given out
  disturbed,   \* since the helper last looked, a stick was moved or mounted over another one, or
               \* the identity was restored
  out,         \* sticks ejected by this helper, in their place ever since
  taken        \* sticks ejected by this helper and pulled out since, which it has not seen

files     == <<deviceId, configured, requests, status>>
snapshot  == <<seen, table>>
memory    == <<pc, ejected, seen, table, batch, job, last>>
world     == <<port, content, mounted, inUse>>
history   == <<fresh, disturbed, out, taken>>
vars      == <<world, files, memory, page, events, history>>

-----------------------------------------------------------------------------
Blank == [uuid |-> 0, device |-> NONE, stick |-> 0]
None  == [stick |-> NONE, uuid |-> 0]

Top(t) == IF mounted[t] = <<>> THEN NONE ELSE Head(mounted[t])

\* lsblk() and usb_disks()
Devices == [p \in Paths |-> IF port[p] = NONE THEN None
                            ELSE [stick |-> port[p], uuid |-> content[port[p]].uuid]]

\* is_own(): the stick stick.json names, of this device
IsOwn(s) ==
  /\ s # NONE /\ content[s].device = deviceId
  /\ configured # 0 /\ content[s].stick = configured

\* is_own(read_meta(target)): nothing to read on a stick that is gone
IsOwnAt(t) == Top(t) # NONE /\ IsOwn(port[Top(t)])

OneStickEach == \A p, q \in Paths : port[p] = port[q] /\ port[p] # NONE => p = q

Idle == "idle"

Init ==
  /\ port \in [Paths -> Sticks \cup {NONE}] /\ OneStickEach
  /\ \E own \in Sticks, rest \in [Sticks -> {Blank, [uuid |-> 2, device |-> Other, stick |-> 2]}] :
       content = [rest EXCEPT ![own] = [uuid |-> 1, device |-> Ours, stick |-> 1]]
  /\ mounted = [t \in Targets |-> <<>>] /\ inUse = {}
  /\ deviceId = Ours /\ configured = 1 /\ requests = {}
  /\ status = [own |-> NONE, foreign |-> NONE, available |-> [p \in Paths |-> NONE]]
  /\ pc = Idle /\ ejected = {} /\ seen = [p \in Paths |-> None] /\ table = [t \in Targets |-> NONE]
  /\ batch = {} /\ job = NONE /\ last = "none"
  /\ page = NONE
  /\ events = 0
  /\ fresh = 2 /\ disturbed = FALSE /\ out = {} /\ taken = {}

-----------------------------------------------------------------------------
(* cycle()                                                                 *)

UuidsOf(d) == {d[p].uuid : p \in Paths} \ {0}

Plugged == {port[p] : p \in Paths} \ {NONE}

\* unmount_gone()
Detached == [t \in Targets |-> IF Top(t) # NONE /\ port[Top(t)] = NONE THEN Tail(mounted[t]) ELSE mounted[t]]

Looks ==
  /\ pc = Idle /\ pc' = "requests"
  /\ seen' = Devices
  /\ mounted' = Detached
  /\ table' = [t \in Targets |-> IF Detached[t] = <<>> THEN NONE ELSE Head(Detached[t])]
  /\ batch' = requests
  /\ disturbed' = \E t \in Targets : Len(Detached[t]) > 1
  /\ taken' = taken \cap Plugged
  /\ UNCHANGED <<port, content, inUse, files, job, last, page, events, fresh, out>>

\* Mutant: ejected.intersection_update() is missing.
LookRemembers == Looks /\ ejected' = ejected

\* lsblk(), mounts(), unmount_gone(), the list of requests
Look == Looks /\ ejected' = ejected \cap UuidsOf(Devices)

\* handle_requests(): unlinked, announced as running, then worked on
Take(r) ==
  /\ pc = "requests" /\ r \in batch
  /\ batch' = batch \ {r} /\ requests' = requests \ {r}
  /\ job' = r /\ last' = "running" /\ pc' = r.action
  /\ UNCHANGED <<world, deviceId, configured, status, ejected, snapshot, page, events, history>>

\* The request is answered and the mounts are read again.
Answered(outcome, m) ==
  /\ last' = outcome /\ job' = NONE /\ pc' = "requests"
  /\ table' = [t \in Targets |-> IF m[t] = <<>> THEN NONE ELSE Head(m[t])]

Fails ==
  /\ Answered("error", mounted)
  /\ UNCHANGED <<world, files, ejected, seen, batch, page, events, history>>

\* run("umount", ...): fails on a mount that is in use, and where nothing is mounted
CanUmount(t) == Top(t) # NONE /\ Top(t) \notin inUse
Umounted(m, t) == [m EXCEPT ![t] = Tail(@)]
\* subprocess.run(("umount", ...)): its failure is ignored
UmountedIfFree(m, t) == IF m[t] # <<>> /\ Head(m[t]) \notin inUse THEN Umounted(m, t) ELSE m

\* Mutant: the path alone names the disk.
FindDiskByPath == seen[job.path].stick # NONE

\* find_disk()
FindDisk == seen[job.path].stick = job.stick /\ job.stick # NONE

\* do_format() up to the umounts
FormatFinds ==
  /\ pc = "format" /\ FindDisk
  /\ LET there == {t \in Targets : table[t] = job.path} IN
       /\ \A t \in there : CanUmount(t)
       /\ mounted' = [t \in Targets |-> IF t \in there THEN Tail(mounted[t]) ELSE mounted[t]]
  /\ pc' = "erase"
  /\ UNCHANGED <<port, content, inUse, files, ejected, snapshot, batch, job, last, page, events, history>>

FormatRefused ==
  /\ pc = "format"
  /\ ~FindDisk \/ \E t \in Targets : table[t] = job.path /\ ~CanUmount(t)
  /\ Fails

\* erased or taken over: no longer the stick that was ejected
ReadyAgain(s) == out' = out \ {s} /\ taken' = taken \ {s}

\* wipefs, sfdisk, mkfs.ext4: whatever is at the path now
FormatErases ==
  /\ pc = "erase" /\ port[job.path] # NONE
  /\ content' = [content EXCEPT ![port[job.path]] = [Blank EXCEPT !.uuid = fresh + 1]]
  /\ fresh' = fresh + 1
  /\ ReadyAgain(port[job.path])
  /\ pc' = "mount"
  /\ UNCHANGED <<port, mounted, inUse, files, ejected, snapshot, batch, job, last, page, events,
                 disturbed>>

\* Mounts `p` as the own stick, over or instead of the one so far, and write_meta() on it
Marks(p, m) ==
  /\ mounted' = [UmountedIfFree(m, OWN) EXCEPT ![OWN] = <<p>> \o @]
  /\ content' = [content EXCEPT ![port[p]].device = deviceId, ![port[p]].stick = fresh + 1]
  /\ fresh' = fresh + 1
  /\ ReadyAgain(port[p])
  /\ disturbed' = (disturbed \/ UmountedIfFree(m, OWN)[OWN] # <<>>)
  /\ pc' = "mark"
  /\ UNCHANGED <<port, inUse, files, ejected, snapshot, batch, last, page, events>>

FormatMounts ==
  /\ pc = "mount" /\ port[job.path] # NONE /\ content[port[job.path]].uuid # 0
  /\ Marks(job.path, mounted) /\ UNCHANGED job

\* do_adopt(): of the foreign stick that is mounted when the helper comes to it
AdoptMounts ==
  /\ pc = "adopt" /\ table[FOREIGN] # NONE /\ CanUmount(FOREIGN) /\ port[table[FOREIGN]] # NONE
  /\ content[port[table[FOREIGN]]].uuid # 0
  /\ Marks(table[FOREIGN], Umounted(mounted, FOREIGN))
  /\ job' = [job EXCEPT !.path = table[FOREIGN]]

\* the second half of write_meta(): stick.json
StickJson ==
  /\ pc = "mark"
  /\ configured' = fresh
  /\ Answered("done", mounted)
  /\ UNCHANGED <<world, deviceId, requests, status, ejected, seen, batch, page, events, history>>

\* A command fails: the stick is gone, or nothing is mounted
WorkFails ==
  /\ \/ pc \in {"erase", "mount"} /\ port[job.path] = NONE
     \/ pc = "mount" /\ port[job.path] # NONE /\ content[port[job.path]].uuid = 0
     \/ pc = "adopt" /\ (table[FOREIGN] = NONE \/ ~CanUmount(FOREIGN))
     \/ pc = "eject" /\ table = [t \in Targets |-> NONE]
     \/ pc = "eject" /\ table[OWN] # NONE /\ ~CanUmount(OWN)
     \/ pc = "eject" /\ table[OWN] = NONE /\ table[FOREIGN] # NONE /\ ~CanUmount(FOREIGN)
  /\ Fails

\* do_adopt() on a stick pulled out in the meantime: umounted, and no mount of it
AdoptLosesStick ==
  /\ pc = "adopt" /\ table[FOREIGN] # NONE /\ CanUmount(FOREIGN) /\ port[table[FOREIGN]] = NONE
  /\ mounted' = UmountedIfFree(Umounted(mounted, FOREIGN), OWN)
  /\ Answered("error", mounted')
  /\ UNCHANGED <<port, content, inUse, files, ejected, seen, batch, page, events, history>>

StillMounted == UNION {{mounted'[t][i] : i \in DOMAIN mounted'[t]} : t \in Targets}
\* The sticks lsblk found at `paths` that still have the file system it found
Known(paths) == {s \in {seen[p].stick : p \in paths} \ {NONE} :
                   \E p \in paths : seen[p] = [stick |-> s, uuid |-> content[s].uuid]}
\* ... and are where it found them
InPlace(paths) == {s \in Sticks : \E p \in paths : port[p] = s /\ seen[p] = [stick |-> s, uuid |-> content[s].uuid]}
Ejected(paths) ==
  /\ out' = out \cup InPlace(paths \ StillMounted)
  /\ taken' = taken \cup (Known(paths \ StillMounted) \ out')

\* Mutant: umounted, not remembered.
EjectForgets ==
  LET there == {t \in Targets : table[t] # NONE} IN
  /\ pc = "eject" /\ there # {} /\ \A t \in there : CanUmount(t)
  /\ mounted' = [t \in Targets |-> IF t \in there THEN Tail(mounted[t]) ELSE mounted[t]]
  /\ ejected' = ejected
  /\ Ejected({table[t] : t \in there})
  /\ Answered("done", mounted')
  /\ UNCHANGED <<port, content, inUse, files, seen, batch, page, events, fresh, disturbed>>

\* do_eject(): remembered by the uuid the cycle's lsblk found
Eject ==
  LET there == {t \in Targets : table[t] # NONE} IN
  /\ pc = "eject" /\ there # {} /\ \A t \in there : CanUmount(t)
  /\ mounted' = [t \in Targets |-> IF t \in there THEN Tail(mounted[t]) ELSE mounted[t]]
  /\ ejected' = ejected \cup {seen[table[t]].uuid : t \in there}
  /\ Ejected({table[t] : t \in there})
  /\ Answered("done", mounted')
  /\ UNCHANGED <<port, content, inUse, files, seen, batch, page, events, fresh, disturbed>>

\* ... the own stick is out, the other one is not
EjectHalf ==
  /\ pc = "eject" /\ table[OWN] # NONE /\ CanUmount(OWN) /\ table[FOREIGN] # NONE /\ ~CanUmount(FOREIGN)
  /\ mounted' = Umounted(mounted, OWN)
  /\ ejected' = ejected \cup {seen[table[OWN]].uuid}
  /\ Ejected({table[OWN]})
  /\ Answered("error", mounted')
  /\ UNCHANGED <<port, content, inUse, files, seen, batch, page, events, fresh, disturbed>>

\* do_apply_settings(): .env, and "docker compose up -d" that may take minutes
ApplySettings ==
  /\ pc = "settings"
  /\ Answered("done", mounted)
  /\ UNCHANGED <<world, files, ejected, seen, batch, page, events, history>>

\* After a request that succeeded - this one's or an earlier cycle's - lsblk() once more
HandledRequests ==
  /\ pc = "requests" /\ batch = {}
  /\ seen' = IF last = "done" THEN Devices ELSE seen
  /\ pc' = "reconcile"
  /\ UNCHANGED <<world, files, ejected, table, batch, job, last, page, events, history>>

\* Mutant: a stick that changed its role stays where it is.
ReconcileNothing ==
  /\ pc = "reconcile" /\ pc' = "mounting"
  /\ UNCHANGED <<world, files, ejected, snapshot, batch, job, last, page, events, history>>

\* reconcile(): a stick mounted in the wrong role is unmounted
Wrong(t) == table[t] # NONE /\ IsOwnAt(t) # (t = OWN)
Reconcile ==
  /\ pc = "reconcile"
  /\ \A t \in Targets : Wrong(t) => CanUmount(t)
  /\ mounted' = [t \in Targets |-> IF Wrong(t) THEN Tail(mounted[t]) ELSE mounted[t]]
  /\ table' = [t \in Targets |-> IF Wrong(t) THEN NONE ELSE table[t]]
  /\ pc' = "mounting"
  /\ UNCHANGED <<port, content, inUse, files, ejected, seen, batch, job, last, page, events, history>>

\* umount fails: the cycle is over, without a status
ReconcileFails ==
  /\ pc = "reconcile" /\ pc' = Idle
  /\ \E t \in Targets : Wrong(t) /\ ~CanUmount(t)
  /\ \E done \in SUBSET {t \in Targets : Wrong(t) /\ CanUmount(t)} :
       mounted' = [t \in Targets |-> IF t \in done THEN Tail(mounted[t]) ELSE mounted[t]]
  /\ UNCHANGED <<port, content, inUse, files, ejected, snapshot, batch, job, last, page, events, history>>

\* mount_sticks(): the volumes of the last lsblk() that are no one's yet
Mountable(p) ==
  LET t == IF IsOwn(port[p]) THEN OWN ELSE FOREIGN IN
  /\ seen[p].uuid # 0 /\ seen[p].uuid \notin ejected
  /\ p \notin {table[u] : u \in Targets}
  /\ port[p] # NONE /\ content[port[p]].stick # 0
  /\ table[t] = NONE
MountStick(p) ==
  LET t == IF IsOwn(port[p]) THEN OWN ELSE FOREIGN IN
  /\ pc = "mounting" /\ Mountable(p)
  /\ mounted' = [mounted EXCEPT ![t] = <<p>> \o @]
  /\ table' = [table EXCEPT ![t] = p]
  /\ UNCHANGED <<port, content, inUse, files, pc, ejected, seen, batch, job, last, page, events, history>>

\* mounted_info()
MountedInfo(t) == Top(t)

\* write_status()
WriteStatus ==
  /\ pc = "mounting" /\ ~\E p \in Paths : Mountable(p)
  /\ status' = [own |-> MountedInfo(OWN), foreign |-> MountedInfo(FOREIGN),
                available |-> [p \in Paths |-> IF p \in {MountedInfo(t) : t \in Targets} THEN NONE ELSE seen[p].stick]]
  /\ pc' = Idle
  /\ UNCHANGED <<world, deviceId, configured, requests, ejected, snapshot, batch, job, last, page, events, history>>

-----------------------------------------------------------------------------
(* The dashboard (views_backup.py).                                        *)

Happens == events < MaxEvents /\ events' = events + 1

Ask(r) ==
  /\ Happens
  /\ requests' = requests \cup {[r EXCEPT !.id = events + 1]}
Request(action, p, s) == [id |-> 0, action |-> action, path |-> p, stick |-> s]

\* usb_setup(), GET: the page names the stick, its form only the path
OpenPage(p) ==
  /\ status.available[p] # NONE
  /\ page' = p
  /\ UNCHANGED <<world, files, memory, events, history>>

\* usb_setup(), POST: the form carries the path; the disk is looked up in the status again
Confirm ==
  /\ page # NONE /\ status.available[page] # NONE
  /\ Ask(Request("format", page, status.available[page]))
  /\ page' = NONE
  /\ UNCHANGED <<world, deviceId, configured, status, memory, history>>

\* "That stick is no longer there."
PageGone ==
  /\ page # NONE /\ status.available[page] = NONE
  /\ page' = NONE
  /\ UNCHANGED <<world, files, memory, events, history>>

\* usb_action(); restore_jobs._run() asks for the settings
UsbAction(action) ==
  /\ Ask(Request(action, NONE, NONE))
  /\ UNCHANGED <<world, deviceId, configured, status, memory, page, history>>

-----------------------------------------------------------------------------
(* People, the backup service, a restore, the power.                       *)

Move == Happens /\ disturbed' = TRUE

Plug(s, p) ==
  /\ Move /\ port[p] = NONE /\ \A q \in Paths : port[q] # s
  /\ \A t \in Targets : p \notin {mounted[t][i] : i \in DOMAIN mounted[t]}
  /\ port' = [port EXCEPT ![p] = s]
  /\ UNCHANGED <<content, mounted, inUse, files, memory, page, fresh, out, taken>>

Pull(p) ==
  /\ Move /\ port[p] # NONE
  /\ port' = [port EXCEPT ![p] = NONE]
  /\ inUse' = inUse \ {p}
  /\ out' = out \ {port[p]} /\ taken' = taken \cup (out \cap {port[p]})
  /\ UNCHANGED <<content, mounted, files, memory, page, fresh>>

\* own_backup_dir() and create_backup(): files open on the stick
BackupStarts ==
  /\ IsOwnAt(OWN) /\ Top(OWN) \notin inUse
  /\ inUse' = inUse \cup {Top(OWN)}
  /\ UNCHANGED <<port, content, mounted, files, memory, page, events, history>>

\* open_backup(): a restore or a download from the other stick
RestoreReads ==
  /\ Happens /\ Top(FOREIGN) # NONE /\ port[Top(FOREIGN)] # NONE
  /\ inUse' = inUse \cup {Top(FOREIGN)}
  /\ UNCHANGED <<port, content, mounted, files, memory, page, history>>

BackupEnds ==
  /\ inUse # {} /\ inUse' = {}
  /\ UNCHANGED <<port, content, mounted, files, memory, page, events, history>>

\* restore_identity(): the device becomes the one that made the backup on the foreign stick
RestoreIdentity ==
  /\ Happens /\ Top(FOREIGN) # NONE /\ port[Top(FOREIGN)] # NONE
  /\ deviceId' = content[port[Top(FOREIGN)]].device /\ configured' = content[port[Top(FOREIGN)]].stick
  /\ disturbed' = TRUE
  /\ UNCHANGED <<world, requests, status, memory, page, fresh, out, taken>>

\* The helper dies and systemd starts it again; a power cut takes the mounts along.
HelperDies(m) ==
  /\ Happens /\ out' = {} /\ taken' = {} /\ m \in {mounted, [t \in Targets |-> <<>>]}
  /\ mounted' = m /\ inUse' = IF m = mounted THEN inUse ELSE {}
  /\ pc' = Idle /\ ejected' = {} /\ last' = "none" /\ batch' = {} /\ job' = NONE
  /\ seen' = [p \in Paths |-> None] /\ table' = [t \in Targets |-> NONE]
  /\ UNCHANGED <<port, content, files, page, fresh, disturbed>>

Format    == FormatFinds \/ FormatRefused \/ FormatErases \/ FormatMounts
Cycle     == Look \/ (\E r \in batch : Take(r)) \/ Format \/ AdoptMounts \/ AdoptLosesStick \/ StickJson
             \/ WorkFails \/ Eject \/ EjectHalf \/ ApplySettings \/ HandledRequests \/ Reconcile \/ ReconcileFails
             \/ (\E p \in Paths : MountStick(p)) \/ WriteStatus
Dashboard == (\E p \in Paths : OpenPage(p)) \/ Confirm \/ PageGone
             \/ (\E a \in {"adopt", "eject", "settings"} : UsbAction(a))
People    == (\E s \in Sticks, p \in Paths : Plug(s, p)) \/ (\E p \in Paths : Pull(p))
Backups   == BackupStarts \/ RestoreReads \/ BackupEnds
Faults    == RestoreIdentity \/ (\E m \in {mounted, [t \in Targets |-> <<>>]} : HelperDies(m))

Next == Cycle \/ Dashboard \/ People \/ Backups \/ Faults
Spec == Init /\ [][Next]_vars

\* The helper's loop goes round, and a backup ends.
FairSpec == Spec /\ WF_vars(Cycle) /\ WF_vars(BackupEnds)

-----------------------------------------------------------------------------
(* Properties.                                                             *)

\* A stick is erased only on a request for exactly that path and serial number, and never while the
\* helper itself has it mounted - unless somebody swapped sticks since the helper last looked, or one
\* stick lies over another on a mount point (find_disk(), do_format()).
Erased(s) == content'[s].uuid # content[s].uuid
ErasedAsAsked ==
  [][\A s \in Sticks : Erased(s) /\ ~disturbed =>
       /\ job.stick = s
       /\ \A t \in Targets : Top(t) = NONE \/ port[Top(t)] # s]_vars

\* What the helper reports as this device's stick is the one stick.json names, and what it mounts
\* read-only is not - whatever was set up, adopted, ejected, swapped or restored in between, as long
\* as nothing disturbed while it worked.
RolesReported ==
  [][status' # status /\ ~disturbed =>
       /\ status'.own # NONE => IsOwn(port[status'.own])
       /\ status'.foreign # NONE => ~IsOwn(port[status'.foreign])]_vars

\* A stick that is ejected stays unmounted until it is pulled out, erased or taken over, or the
\* helper was restarted (not one formatted in the same cycle: its new uuid is not known yet). One that
\* is pulled out may be mounted again before the helper knows, in the place of another stick.
StaysEjected ==
  \A s \in out, t \in Targets : Top(t) = NONE \/ port[Top(t)] # s

\* Pulled out and plugged in again, replaced and set up, the helper killed at any point: this
\* device's stick ends up mounted as such, unless it was ejected.
OwnStickMounted ==
  <>[](\A p \in Paths : IsOwn(port[p]) /\ port[p] \notin out \cup taken => Top(OWN) = p)

=============================================================================
