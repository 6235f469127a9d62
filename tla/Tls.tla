--------------------------------- MODULE Tls ---------------------------------
(***************************************************************************)
(* The certificates and the Caddyfile (dashboard/tls.py), who writes them  *)
(* - the migrate container and the backup container's hourly run, here     *)
(* JOB, the workers of the dashboard, a restore -, Caddy, which reads      *)
(* them, and the kiosk's browser.  Every file is written by a step of its  *)
(* own, and a process can be killed between any two.                       *)
(*                                                                         *)
(* Abstractions.  A key is a number; a certificate has the key it belongs  *)
(* to, the CA that signed it, its names and the time it was issued.  A     *)
(* live file is named after its contents, so the name stands for them.     *)
(* The maintenance page, warnings, chains and permissions are left out; an *)
(* upload is one that install_custom() finds nothing wrong with.           *)
(***************************************************************************)
EXTENDS Integers, FiniteSets

CONSTANTS NONE, EMPTY, JOB, Workers,
          DUE,             \* the age at which a certificate is renewed
          End, MaxEvents   \* bounds: the time, and what admins and faults do

ASSUME TlsAssumption == /\ JOB \notin Workers /\ NONE \notin Workers \cup {JOB}
                        /\ DUE \in Nat \ {0} /\ End \in Nat /\ MaxEvents \in Nat

Marks == Int \cup {NONE, EMPTY}
Crts  == [key : Marks, ca : Marks, names : {0, 1, "localhost", "own"}, born : Int]
ASSUME NoneAssumption == NONE # EMPTY /\ NONE \notin Int /\ EMPTY \notin Int /\ NONE \notin Crts

VARIABLES
  ca,         \* ca.key and ca.crt: NONE, EMPTY, or which CA it is
  pair,       \* server, kiosk and custom: .key and .crt
  live,       \* the live-* files
  caddyfile,  \* the live files it names
  lock,       \* who holds .lock
  proc,       \* what each process is at
  served,     \* the live files that Caddy runs with
  nss, phone, \* the CA that the kiosk's browser, and a phone, have installed
  names,      \* TLS_HOSTNAMES
  now, made, events,
  torn,       \* gap: killed between two files that belong together, and nothing repairs it
  halved,     \* gap: killed between a new key and its certificate: until the next ensure()
  mixed,      \* gap: a restore copied files, which takes no lock, while others were written
  restored    \* certificates have been restored

files == <<ca, pair, live, caddyfile>>
world == <<served, nss, phone, names, now, events>>
gaps  == <<torn, halved, mixed, restored>>
vars  == <<files, world, gaps, lock, proc, made>>

Processes == {JOB} \cup Workers
NoPair    == [key |-> NONE, crt |-> NONE]
Idle      == [at |-> "idle", named |-> {}]

Init ==
  /\ ca = NoPair /\ pair = [n \in {"server", "kiosk", "custom"} |-> NoPair]
  /\ live = {} /\ caddyfile = {} /\ served = {} /\ nss = NONE /\ phone = NONE
  /\ lock = NONE /\ proc = [p \in Processes |-> Idle]
  /\ names = 0 /\ now = 0 /\ made = 0 /\ events = 0
  /\ torn = FALSE /\ halved = FALSE /\ mixed = FALSE /\ restored = FALSE

At(p, at)   == proc[p].at = at
Goes(p, at) == proc' = [proc EXCEPT ![p] = [at |-> at, named |-> {}]]

Copying(p) == At(p, "restore") /\ proc[p].left # {}

\* Mutant: no lock.
TakesAnyway(p, at) == lock' = p /\ Goes(p, at) /\ UNCHANGED mixed
\* _locked(), taken on the way to `at`.
Takes(p, at) ==
  /\ lock = NONE /\ lock' = p /\ Goes(p, at)
  /\ mixed' = (mixed \/ \E other \in Processes : Copying(other))
Leaves(p) == lock' = NONE /\ proc' = [proc EXCEPT ![p] = Idle]

(***************************************************************************)
(* ensure(): the CA, the two certificates, then the Caddyfile.             *)
(***************************************************************************)
\* Mutant: a new CA along with a new server certificate.
NeedsFreshCa == ca.key = NONE \/ ca.crt = NONE \/ (pair["server"].crt # NONE /\ pair["server"].crt.names # names)
NeedsCa == ca.key = NONE \/ ca.crt = NONE

\* _create_ca(): openssl writes the key, opens the certificate's file and writes it.
CaKey(p) ==
  /\ At(p, "ca")
  /\ IF NeedsCa THEN ca' = [ca EXCEPT !.key = made] /\ made' = made + 1 /\ Goes(p, "ca_opened")
                ELSE Goes(p, "server") /\ UNCHANGED <<ca, made>>
  /\ UNCHANGED <<pair, live, caddyfile, world, gaps, lock>>
CaOpened(p) ==
  /\ At(p, "ca_opened") /\ ca' = [ca EXCEPT !.crt = EMPTY] /\ Goes(p, "ca_written")
  /\ UNCHANGED <<pair, live, caddyfile, world, gaps, lock, made>>
CaWritten(p) ==
  /\ At(p, "ca_written") /\ ca' = [ca EXCEPT !.crt = ca.key] /\ Goes(p, "server")
  /\ UNCHANGED <<pair, live, caddyfile, world, gaps, lock, made>>

Wanted(n) == IF n = "server" THEN names ELSE "localhost"

\* Mutant: issued once, for good.
NeverRenewed(n) == pair[n].crt = NONE \/ pair[n].key = NONE \/ pair[n].crt.ca # ca.crt \/ pair[n].crt.names # Wanted(n)
\* _needs_issue(): nothing compares the certificate with the key.
NeedsIssue(n) ==
  LET crt == pair[n].crt
  IN \/ crt = NONE \/ pair[n].key = NONE
     \/ now - crt.born >= DUE
     \/ crt.ca # ca.crt
     \/ crt.names # Wanted(n)

Following(n) == IF n = "server" THEN "kiosk" ELSE "net"

\* _issue(): it takes the CA's own key; without it ensure() fails, and leaves what there is.
IssueKey(p, n) ==
  /\ At(p, n)
  /\ IF ~NeedsIssue(n) THEN Goes(p, Following(n)) /\ UNCHANGED <<pair, lock, made>>
     ELSE IF ca.key # ca.crt THEN Leaves(p) /\ UNCHANGED <<pair, made>>
     ELSE /\ pair' = [pair EXCEPT ![n].key = made] /\ made' = made + 1
          /\ proc' = [proc EXCEPT ![p] = [at |-> "issued", for |-> n,
                        crt |-> [key |-> made, ca |-> ca.crt, names |-> Wanted(n), born |-> now]]]
          /\ UNCHANGED lock
  /\ UNCHANGED <<ca, live, caddyfile, world, gaps>>
IssueCrt(p) ==
  /\ At(p, "issued")
  /\ pair' = [pair EXCEPT ![proc[p].for].crt = proc[p].crt] /\ Goes(p, Following(proc[p].for))
  /\ UNCHANGED <<ca, live, caddyfile, world, gaps, lock, made>>

HasCustom == pair["custom"].crt # NONE /\ pair["custom"].key # NONE

Stem(port, n) == [port |-> port, key |-> pair[n].key, crt |-> pair[n].crt]
Network       == Stem("net", IF HasCustom THEN "custom" ELSE "server")
Kiosk         == Stem("kiosk", "kiosk")

After(stem) == IF stem.port = "net" THEN "kiosk_copy" ELSE "caddyfile"

\* _live_copy(): the key first, so a certificate that is there has its key.
CopyKey(p, at, stem) ==
  LET there == <<stem, "crt">> \in live
      named == proc[p].named \cup {stem}
  IN /\ At(p, at)
     /\ live' = IF there THEN live ELSE live \cup {<<stem, "key">>}
     /\ proc' = [proc EXCEPT ![p] = IF there THEN [at |-> After(stem), named |-> named]
                                             ELSE [at |-> "copied", named |-> named, stem |-> stem]]
     /\ UNCHANGED <<ca, pair, caddyfile, world, gaps, lock, made>>
CopyCrt(p) ==
  /\ At(p, "copied")
  /\ live' = live \cup {<<proc[p].stem, "crt">>}
  /\ proc' = [proc EXCEPT ![p] = [at |-> After(@.stem), named |-> @.named]]
  /\ UNCHANGED <<ca, pair, caddyfile, world, gaps, lock, made>>

\* _write_caddyfile(): the old live files go once nothing names them any more.
WriteCaddyfile(p) ==
  /\ At(p, "caddyfile")
  /\ IF caddyfile = proc[p].named THEN Leaves(p) /\ UNCHANGED caddyfile
     ELSE /\ caddyfile' = proc[p].named
          /\ proc' = [proc EXCEPT ![p].at = "cleanup"] /\ UNCHANGED lock
  /\ UNCHANGED <<ca, pair, live, world, gaps, made>>
Cleanup(p) ==
  /\ At(p, "cleanup")
  /\ live' = {file \in live : file[1] \in proc[p].named} /\ Leaves(p)
  /\ UNCHANGED <<ca, pair, caddyfile, world, gaps, made>>

\* The migrate container and the hourly run; a restore ends with one, too.
Ensures(p) ==
  /\ IF p = JOB THEN At(p, "idle") ELSE At(p, "restore") /\ ~Copying(p)
  /\ Takes(p, "ca")
  /\ UNCHANGED <<files, world, torn, halved, restored, made>>

(***************************************************************************)
(* The dashboard: an admin's own certificate, and a restore.               *)
(***************************************************************************)
Happens == events < MaxEvents /\ events' = events + 1
Calm    == UNCHANGED <<served, nss, phone, names, now>>

\* The stack starts no worker before the first ensure() is through.
Asked(p) == p \in Workers /\ At(p, "idle") /\ caddyfile # {} /\ Happens /\ Calm

\* install_custom(), past its checks.
Upload(p) == Asked(p) /\ Takes(p, "custom") /\ UNCHANGED <<files, torn, halved, restored, made>>
CustomKey(p) ==
  /\ At(p, "custom") /\ Goes(p, "custom_crt")
  /\ pair' = [pair EXCEPT !["custom"].key = made] /\ made' = made + 1
  /\ UNCHANGED <<ca, live, caddyfile, world, gaps, lock>>
CustomCrt(p) ==
  /\ At(p, "custom_crt") /\ Goes(p, "net")
  /\ pair' = [pair EXCEPT !["custom"].crt = [key |-> pair["custom"].key, ca |-> NONE, names |-> "own", born |-> now]]
  /\ UNCHANGED <<ca, live, caddyfile, world, gaps, lock, made>>

\* remove_custom()
Revert(p) == Asked(p) /\ Takes(p, "revert") /\ UNCHANGED <<files, torn, halved, restored, made>>
DropCrt(p) ==
  /\ At(p, "revert") /\ pair' = [pair EXCEPT !["custom"].crt = NONE] /\ Goes(p, "drop_key")
  /\ UNCHANGED <<ca, live, caddyfile, world, gaps, lock, made>>
DropKey(p) ==
  /\ At(p, "drop_key") /\ pair' = [pair EXCEPT !["custom"].key = NONE] /\ Goes(p, "net")
  /\ UNCHANGED <<ca, live, caddyfile, world, gaps, lock, made>>

\* A backup of another device, without a certificate of its admin's own.
Old     == [key |-> -1, crt |-> -1]
OldPair == [n \in {"server", "kiosk"} |->
              LET key == IF n = "server" THEN -2 ELSE -3
              IN [key |-> key, crt |-> [key |-> key, ca |-> -1, names |-> IF n = "server" THEN 0 ELSE "localhost",
                                        born |-> 0]]]
OldLive == {[port |-> "net",   key |-> OldPair["server"].key, crt |-> OldPair["server"].crt],
            [port |-> "kiosk", key |-> OldPair["kiosk"].key,  crt |-> OldPair["kiosk"].crt]}
Copied  == {"ca", "server", "kiosk", "live", "Caddyfile"}

\* restore_certificates(): file by file, in any order.  A key and its certificate are one step here, and
\* so are the live files: what falls between those is one of the gaps.
Restore(p) ==
  /\ Asked(p) /\ ~restored /\ restored' = TRUE
  /\ proc' = [proc EXCEPT ![p] = [at |-> "restore", named |-> {}, left |-> Copied]]
  /\ UNCHANGED <<files, torn, halved, mixed, lock, made>>
Copies(p, file) ==
  /\ Copying(p) /\ file \in proc[p].left
  /\ proc' = [proc EXCEPT ![p].left = @ \ {file}]
  /\ ca'   = IF file = "ca" THEN Old ELSE ca
  /\ pair' = IF file \in DOMAIN OldPair THEN [pair EXCEPT ![file] = OldPair[file]] ELSE pair
  /\ live' = IF file = "live" THEN live \cup OldLive \X {"key", "crt"} ELSE live
  /\ caddyfile' = IF file = "Caddyfile" THEN OldLive ELSE caddyfile
  /\ mixed' = (mixed \/ lock # NONE)
  /\ UNCHANGED <<world, torn, halved, restored, lock, made>>

(***************************************************************************)
(* Caddy, browsers, and the world.                                         *)
(***************************************************************************)
Fits(stem)    == stem.key = stem.crt.key
Loads(config) == config # {} /\ \A stem \in config : {<<stem, "key">>, <<stem, "crt">>} \subseteq live /\ Fits(stem)

\* download(): the phone installs the device's CA as soon as it can - a later one has seen less change.
Download == phone' = IF phone = NONE /\ ~HasCustom THEN ca.crt ELSE phone

\* --watch: a Caddyfile that does not load leaves Caddy as it is.
CaddyReloads ==
  /\ served # caddyfile /\ Loads(caddyfile) /\ served' = caddyfile /\ Download
  /\ UNCHANGED <<files, nss, names, now, events, gaps, lock, proc, made>>
CaddyRestarts ==
  /\ Happens /\ served' = IF Loads(caddyfile) THEN caddyfile ELSE {}
  /\ UNCHANGED <<files, nss, phone, names, now, gaps, lock, proc, made>>

\* openbox-autostart, at every start of the kiosk's session; the watchdog starts it again when the kiosk
\* cannot load its page.
KioskStarts ==
  /\ ca.crt \notin {NONE, EMPTY} /\ nss' = ca.crt
  /\ UNCHANGED <<files, served, phone, names, now, events, gaps, lock, proc, made>>

Broken(n) == pair[n].crt # NONE /\ pair[n].key # NONE /\ pair[n].crt.key # pair[n].key

\* A process is killed: what it was between can stay for good.
Killed(p) ==
  /\ ~At(p, "idle") /\ Happens /\ proc' = [proc EXCEPT ![p] = Idle]
  /\ lock' = IF lock = p THEN NONE ELSE lock
  /\ torn' = (torn \/ At(p, "ca_written") \/ (At(p, "custom_crt") /\ pair["custom"].crt # NONE) \/ Copying(p))
  /\ halved' = (halved \/ At(p, "issued"))
  /\ UNCHANGED <<files, served, nss, phone, names, now, mixed, restored, made>>

\* .env gets another address, or the old one again, with which half a replaced pair counts as good.
NamesChange ==
  /\ Happens /\ names' = 1 - names
  /\ torn' = (torn \/ Broken("server"))
  /\ UNCHANGED <<files, served, nss, phone, now, lock, proc, made, halved, mixed, restored>>

Age ==
  /\ now < End /\ now' = now + 1
  /\ UNCHANGED <<files, served, nss, phone, names, events, gaps, lock, proc, made>>

Works(p) ==
  \/ Ensures(p)
  \/ CaKey(p) \/ CaOpened(p) \/ CaWritten(p)
  \/ \E n \in {"server", "kiosk"} : IssueKey(p, n)
  \/ IssueCrt(p)
  \/ CopyKey(p, "net", Network) \/ CopyKey(p, "kiosk_copy", Kiosk) \/ CopyCrt(p)
  \/ WriteCaddyfile(p) \/ Cleanup(p)
  \/ CustomKey(p) \/ CustomCrt(p) \/ DropCrt(p) \/ DropKey(p)
  \/ \E file \in Copied : Copies(p, file)

\* Past a gap nothing is claimed, and nothing followed any more.
Followed == ~torn /\ ~mixed

Process(p) == Followed /\ Works(p)
Dashboard  == Followed /\ \E p \in Workers : Upload(p) \/ Revert(p) \/ Restore(p)
Caddy      == Followed /\ CaddyReloads
Browser    == Followed /\ KioskStarts
World      == Followed /\ (CaddyRestarts \/ NamesChange \/ Age \/ \E p \in Processes : Killed(p))

Next == (\E p \in Processes : Process(p)) \/ Dashboard \/ Caddy \/ Browser \/ World

Spec     == Init /\ [][Next]_vars
FairSpec == Spec /\ (\A p \in Processes : WF_vars(Process(p))) /\ WF_vars(Caddy) /\ WF_vars(Browser)

(***************************************************************************)
(* Properties.                                                             *)
(***************************************************************************)
\* Whenever Caddy starts, the Caddyfile names files that are there, each key with its own certificate -
\* whoever was killed where, or writes at that moment (_locked(), _live_copy(), _write_caddyfile()).
\* Not while a restore copies the old device's files in.
Loadable ==
  torn \/ halved \/ mixed \/ caddyfile = {} \/ (\E p \in Processes : Copying(p)) \/ Loads(caddyfile)

\* A phone that has installed the device's CA never has to install another: whatever certificates are
\* renewed, replaced and taken back, the device's own on both ports are signed by it
\* (docs/ARCHITECTURE.md: "the CA stays, so phones keep trusting it").
CaStays ==
  phone = NONE \/ restored \/ \A stem \in caddyfile \cup served : stem.crt.ca \in {phone, NONE}

\* What both ports are to present: the admin's own certificate, or the device's with all the names it
\* has now; on the kiosk's, one its browser trusts, whatever an admin uploads; neither about to expire.
Right ==
  /\ served = {Network, Kiosk}
  /\ HasCustom \/ (pair["server"].crt.names = names /\ now - pair["server"].crt.born < DUE)
  /\ pair["kiosk"].crt.ca = nss /\ now - pair["kiosk"].crt.born < DUE

\* In the end both ports present it, after uploads, renewals, new names, a restore and processes killed
\* anywhere: the hourly ensure() repairs what it finds, and Caddy follows (docker-compose.yml, --watch).
Settles == <>[](torn \/ mixed \/ Right)
=============================================================================
