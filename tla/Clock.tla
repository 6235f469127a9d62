-------------------------------- MODULE Clock --------------------------------
(***************************************************************************)
(* The device's clock: the minutely check (coffee/clock.py), the admin's   *)
(* "System time" page, the RTC and the host's rtc_sync.sh, the audit log   *)
(* they go by and the host events collected into it (dashboard/audit.py).  *)
(*                                                                         *)
(* Abstractions.  One unit is as long as AHEAD_OF_ENTRY; `real` is the     *)
(* true time, which only the properties see, and CLOCK_BOOTTIME runs with  *)
(* it.  Time 0 is any time before PLAUSIBLE_EPOCH.  The steps of a check   *)
(* and of a request take no time.  Drift, time zones and the wording of    *)
(* entries are left out.  Of the log's entries between two settings of the *)
(* clock, only the newest counts: a stretch is the time of the setting it  *)
(* starts with and the time of its newest entry; of the host's events not  *)
(* collected yet, too, only the newest counts.                             *)
(***************************************************************************)
EXTENDS Night, SequencesExt

CONSTANTS
  NONE,
  JUMP, BEHIND, AHEAD,   \* JUMP_SECONDS, BEHIND_SECONDS, AHEAD_OF_ENTRY
  STALE,                 \* rtc.STALE_SECONDS
  THRESHOLD,             \* rtc_sync.sh: THRESHOLD_SECONDS
  RETENTION,             \* AUDIT_RETENTION_DAYS
  \* bounds of the environment, not of the program:
  Start, End,            \* the true time runs from Start to End
  MaxEvents,             \* bookings, host events, settings of the clock, jumps, reboots, RTC faults
  Typos,                 \* how far ahead of the true time an admin may set the clock
  Networks               \* whether there may be a network with NTP

ASSUME NoneAssumption == NONE \notin Int
ASSUME ConstantAssumption ==
  /\ JUMP \in Nat /\ BEHIND \in Nat /\ STALE \in Nat /\ THRESHOLD \in Nat /\ RETENTION \in Nat \ {0}
  /\ AHEAD \in Nat \ {0} /\ Start \in Nat \ {0} /\ End \in Nat /\ MaxEvents \in Nat
  /\ Typos \subseteq Nat /\ Networks \in BOOLEAN

VARIABLES
  real,        \* (and Night's wall)
  boot,        \* boot_id
  \* the RTC and data/storage/rtc.json
  rtc,         \* "runs", "reset" (lost the time), "stopped" (oscillator), "dead" (or absent)
  rtcOff,      \* its time, less the true time
  status,      \* rtc.json
  ntp,         \* NTP set the clock
  \* clock.json
  seen, corrected,
  \* the audit log and data/storage/events.jsonl
  log, hostEvents,
  \* where the check and the admin's request stand
  check, admin,
  \* bound and history
  events,
  jumps,       \* times the clock was put back: by itself, at boot, by an admin, by NTP
  ahead,       \* an admin set the clock ahead of the true time
  unsynced     \* the clock was set, or the RTC changed, since rtc_sync.sh last ran

clocks   == <<real, wall, boot>>
rtcVars  == <<rtc, rtcOff, status, ntp>>
clockJson == <<seen, corrected>>
audit    == <<log, hostEvents>>
history  == <<jumps, ahead, unsynced>>
vars     == <<clocks, rtcVars, clockJson, audit, check, admin, events, history>>

-----------------------------------------------------------------------------
NoStatus == [state |-> "unknown", checked |-> 0, lostBoot |-> NONE, ntp |-> FALSE]
Nothing  == [target |-> NONE, wall |-> 0, corrected |-> FALSE]

Init ==
  /\ real = Start /\ wall = Start /\ boot = 0
  /\ rtc = "runs" /\ rtcOff = 0 /\ status = NoStatus /\ ntp = FALSE
  /\ seen = NONE /\ corrected = FALSE
  /\ log = <<[set |-> NONE, newest |-> NONE]>> /\ hostEvents = NONE
  /\ check = NONE /\ admin = "idle"
  /\ events = 0 /\ jumps = 0 /\ ahead = FALSE /\ unsynced = FALSE

Latest(times) == IF times = {} THEN NONE ELSE Max(times)

\* AuditLogEntry.objects.create() of entries dated `times`
Logged(entries, times) ==
  [entries EXCEPT ![Len(entries)].newest = Latest((times \cup {@}) \ {NONE})]
Log(at) == log' = Logged(log, {at})

\* rtc.health()
Health == IF wall - status.checked > STALE THEN "unknown" ELSE status.state

\* _newest_entry(): the newest entry since the clock was last set
Newest == Last(log).newest

Remembered(w) == [boot |-> boot, wall |-> w, real |-> real]

-----------------------------------------------------------------------------
(* clock.check(), in the backup service.                                   *)

Expected == seen.wall + (real - seen.real)
WentBack == seen # NONE /\ seen.boot = boot /\ wall < Expected - JUMP
BehindLog == Newest # NONE /\ wall < Newest - BEHIND /\ (WentBack => Newest + AHEAD > Expected)

\* Mutant: the log is not looked at.
TargetBlind == IF WentBack THEN Expected ELSE NONE

\* Mutant: a clock that went back is put AHEAD_OF_ENTRY after the time expected, too.
TargetPadded == IF BehindLog THEN Newest + AHEAD ELSE IF WentBack THEN Expected + 2 * AHEAD ELSE NONE

Target == IF BehindLog THEN Newest + AHEAD ELSE IF WentBack THEN Expected ELSE NONE

CheckReads ==
  /\ check = NONE /\ Health # "unknown"
  /\ check' = [target |-> IF status.ntp THEN NONE ELSE Target, wall |-> wall, corrected |-> corrected]
  /\ UNCHANGED <<clocks, rtcVars, clockJson, audit, admin, events, history>>

CheckWrites ==
  /\ check # NONE /\ check' = NONE
  /\ \/ /\ check.target # NONE
        /\ wall' = check.target /\ corrected' = TRUE /\ unsynced' = TRUE
        /\ Log(check.target)
        /\ seen' = Remembered(check.target)
     \/ /\ check.target = NONE
        /\ corrected' = check.corrected
        /\ seen' = Remembered(check.wall)
        /\ UNCHANGED <<wall, log, unsynced>>
  /\ UNCHANGED <<real, boot, rtcVars, hostEvents, admin, events, jumps, ahead>>

-----------------------------------------------------------------------------
(* The dashboard's system_time().                                          *)

Happens == events < MaxEvents /\ events' = events + 1

\* counts a clock that is put back
CountsBack == jumps' = IF wall' < wall THEN jumps + 1 ELSE jumps

\* set_system_datetime() ...
AdminSets(t) ==
  /\ Happens /\ admin = "idle" /\ admin' = "set"
  /\ wall' = t /\ CountsBack /\ ahead' = (ahead \/ t > real) /\ unsynced' = TRUE
  /\ UNCHANGED <<real, boot, rtcVars, clockJson, audit, check>>

\* ... clock.confirmed() ...
AdminConfirms ==
  /\ admin = "set" /\ admin' = "log"
  /\ corrected' = FALSE /\ seen' = Remembered(wall)
  /\ UNCHANGED <<clocks, rtcVars, audit, check, events, history>>

\* ... audit.log()
AdminLogs ==
  /\ admin = "log" /\ admin' = "idle"
  /\ log' = Append(log, [set |-> wall, newest |-> NONE])
  /\ UNCHANGED <<clocks, rtcVars, clockJson, hostEvents, check, events, history>>

\* "it is right as it is"
AdminAgrees ==
  /\ Happens /\ admin = "idle" /\ corrected
  /\ corrected' = FALSE /\ seen' = Remembered(wall)
  /\ Log(wall)
  /\ UNCHANGED <<clocks, rtcVars, hostEvents, check, admin, history>>

-----------------------------------------------------------------------------
(* rtc_sync.sh, every ten minutes.                                         *)

RtcTime == IF rtc = "reset" THEN 0 ELSE real + rtcOff
Differ  == wall - RtcTime > THRESHOLD \/ RtcTime - wall > THRESHOLD

\* report()
Report(state) ==
  LET keeps == state = "ok" /\ status.lostBoot = boot
      shown == IF keeps THEN "lost" ELSE state
  IN /\ status' = [state |-> shown, checked |-> wall, ntp |-> ntp,
                   lostBoot |-> IF shown = "lost" THEN boot ELSE IF shown = "ok" THEN NONE ELSE status.lostBoot]
     /\ hostEvents' = IF shown = status.state THEN hostEvents ELSE Latest({hostEvents, wall} \ {NONE})

\* hwclock --systohc
SysToHc == rtc' = "runs" /\ rtcOff' = wall - real

\* Mutant: the RTC's time wins.
SyncKeepsRtc ==
  /\ rtc \in {"runs", "reset"}
  /\ UNCHANGED <<rtc, rtcOff>>
  /\ IF RtcTime = 0 THEN Report("lost") ELSE Report("ok")

SyncReadable ==
  /\ rtc \in {"runs", "reset"}
  /\ IF Differ THEN SysToHc ELSE UNCHANGED <<rtc, rtcOff>>
  /\ IF RtcTime = 0 THEN Report("lost") ELSE Report("ok")

SyncStopped ==
  /\ rtc = "stopped"
  /\ IF wall > 0 THEN SysToHc /\ Report("lost")
     ELSE Report("unreadable") /\ UNCHANGED <<rtc, rtcOff>>

SyncAway ==
  /\ rtc = "dead"
  /\ Report("unreadable")
  /\ UNCHANGED <<rtc, rtcOff>>

RtcSync ==
  /\ SyncReadable \/ SyncStopped \/ SyncAway
  /\ unsynced' = FALSE
  /\ UNCHANGED <<clocks, ntp, clockJson, log, check, admin, events, jumps, ahead>>

-----------------------------------------------------------------------------
(* The audit log.                                                          *)

\* an order, a login: audit.log()
Booking ==
  /\ Happens /\ Log(wall)
  /\ UNCHANGED <<clocks, rtcVars, clockJson, hostEvents, check, admin, history>>

\* storage_helper.py event(), update_watcher.py
HostEvent ==
  /\ Happens /\ hostEvents' = Latest({hostEvents, wall} \ {NONE})
  /\ UNCHANGED <<clocks, rtcVars, clockJson, log, check, admin, history>>

\* ingest_host_events(): when it happened, not when it was collected
IngestHostEvents ==
  /\ hostEvents # NONE /\ hostEvents' = NONE
  /\ log' = Logged(log, {hostEvents})
  /\ UNCHANGED <<clocks, rtcVars, clockJson, check, admin, events, history>>

\* Entries dated before the retention period are deleted; without the entry of a setting, two
\* stretches are one.
Old(at) == at # NONE /\ at < wall - RETENTION
Pruned ==
  LET starts == {i \in DOMAIN log : i = 1 \/ ~Old(log[i].set)}
      joins(n) == {j \in DOMAIN log : Cardinality({i \in starts : i <= j}) = n}
  IN [n \in 1..Cardinality(starts) |->
        [set |-> log[Min(joins(n))].set,
         newest |-> Latest({log[j].newest : j \in joins(n)} \ ({NONE} \cup {t \in 0..wall : Old(t)}))]]

\* prune(), and its own entry
Prune ==
  /\ \E i \in DOMAIN log : Old(log[i].set) \/ Old(log[i].newest)
  /\ log' = Logged(Pruned, {wall})
  /\ UNCHANGED <<clocks, rtcVars, clockJson, hostEvents, check, admin, events, history>>

-----------------------------------------------------------------------------
(* Time, power, the hardware and the network.                              *)

Tick ==
  /\ real < End /\ check = NONE /\ admin = "idle"
  /\ real' = real + 1 /\ wall' = wall + 1
  /\ UNCHANGED <<boot, rtcVars, clockJson, audit, check, admin, events, history>>

\* how far back a clock goes
Earlier == {wall - BEHIND - 1} \cap Nat

\* a clock that goes back within one boot
Jump ==
  /\ Happens
  /\ wall' \in Earlier /\ CountsBack /\ unsynced' = TRUE
  /\ UNCHANGED <<real, boot, rtcVars, clockJson, audit, check, admin, ahead>>

\* hctosys: the clock starts with the RTC's time, without one at some time before
Reboot ==
  /\ Happens /\ boot' = boot + 1
  /\ wall' \in IF rtc \in {"runs", "reset"} THEN {RtcTime} ELSE Earlier \cup {wall}
  /\ CountsBack
  /\ check' = NONE /\ admin' = "idle"
  /\ UNCHANGED <<real, rtcVars, clockJson, audit, ahead, unsynced>>

RtcChanges ==
  /\ Happens
  /\ rtc' \in {"runs", "reset", "stopped", "dead"} \ {rtc}
  /\ unsynced' = TRUE
  /\ UNCHANGED <<clocks, rtcOff, status, ntp, clockJson, audit, check, admin, jumps, ahead>>

\* a network for once: NTP sets the clock; and it is gone again
NtpComes ==
  /\ Happens /\ Networks /\ ~ntp /\ ntp' = TRUE
  /\ wall' = real /\ CountsBack /\ unsynced' = TRUE
  /\ UNCHANGED <<real, boot, rtc, rtcOff, status, clockJson, audit, check, admin, ahead>>
NtpGoes ==
  /\ ntp /\ ntp' = FALSE
  /\ UNCHANGED <<clocks, rtc, rtcOff, status, clockJson, audit, check, admin, events, history>>

Check   == CheckReads \/ CheckWrites
Admin   == (\E t \in {real + d : d \in Typos \cup {0}} : AdminSets(t)) \/ AdminAgrees
Request == AdminConfirms \/ AdminLogs
Entries == Booking \/ HostEvent
World   == Tick \/ Jump \/ Reboot \/ RtcChanges \/ NtpComes \/ NtpGoes

Next == Check \/ Admin \/ Request \/ RtcSync \/ Entries \/ IngestHostEvents \/ Prune \/ World
Spec == Init /\ [][Next]_vars

\* The backup service's minutely round and the host's timer; a request that runs ends.
FairSpec == Spec /\ WF_vars(CheckReads) /\ WF_vars(CheckWrites) /\ WF_vars(RtcSync) /\ WF_vars(Request) /\ WF_vars(Tick)

-----------------------------------------------------------------------------
(* Properties.                                                             *)

\* As long as nobody set it ahead, the clock check never makes the clock run ahead of the true time
\* by more than it was put back for: AHEAD_OF_ENTRY each time, however the checks, the entries they
\* write themselves, reboots, the RTC, NTP and an admin who sets it right follow each other.
NeverFarAhead == ~ahead => wall <= real + AHEAD * jumps

\* An admin's correction survives a power cut once rtc_sync.sh has run and the RTC runs since.
SetSurvives ==
  [][boot' # boot /\ ~unsynced /\ rtc = "runs" => wall' <= wall + THRESHOLD /\ wall <= wall' + THRESHOLD]_vars

\* Without NTP and as long as the host checks run, a clock behind its own log does not stay there.
CatchesUp == <>[](ntp \/ status.ntp \/ Health = "unknown" \/ Newest = NONE \/ wall >= Newest - BEHIND)

=============================================================================
