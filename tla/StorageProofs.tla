---------------------------- MODULE StorageProofs ----------------------------
(***************************************************************************)
(* The two sides of the backup stick.                                      *)
(*                                                                         *)
(* StorageHelper, for any number of sticks, paths, requests, restarts and  *)
(* pulls: what is ejected stays unmounted, only the stick that was asked   *)
(* for is erased, and the roles reported are the true ones.                *)
(*                                                                         *)
(* Backups, for every interval, every rule of thinning out and every       *)
(* setting of the clock: a backup reported as made is there, and the copy  *)
(* taken before a restore is not thinned out.  The modules share no        *)
(* variable.                                                               *)
(***************************************************************************)
EXTENDS StorageHelper, Backups, FiniteSetTheorems, WellFoundedInduction, TLAPS

-----------------------------------------------------------------------------
(* StorageHelper.                                                          *)


Actions == {"format", "adopt", "eject", "settings"}
Places  == Actions \cup {Idle, "requests", "erase", "mount", "mark", "reconcile", "mounting"}
\* pc while a request is being worked on, and while it is about the disk at its path
Working == Actions \cup {"erase", "mount", "mark"}
OnDisk  == {"format", "erase", "mount"}

Device  == {Ours, Other, NONE}
APath   == Paths \cup {NONE}
AStick  == Sticks \cup {NONE}
Volume  == [uuid : Nat, device : Device, stick : Nat]
Found   == [stick : AStick, uuid : Nat]
Mounts  == [Targets -> Seq(Paths)]
Asked   == {r \in [id : Nat, action : Actions, path : APath, stick : AStick] :
              r.action = "format" => r.path \in Paths}

\* Every variable's type, and a request at work names what its action needs.
TypeOK ==
  /\ port \in [Paths -> AStick] /\ content \in [Sticks -> Volume]
  /\ mounted \in Mounts /\ inUse \subseteq Paths
  /\ deviceId \in Device /\ configured \in Nat /\ requests \subseteq Asked
  /\ status \in [own : APath, foreign : APath, available : [Paths -> AStick]]
  /\ pc \in Places /\ ejected \subseteq Nat
  /\ seen \in [Paths -> Found] /\ table \in [Targets -> APath]
  /\ batch \subseteq Asked /\ job \in Asked \cup {NONE}
  /\ last \in {"none", "running", "done", "error"}
  /\ page \in APath /\ events \in Nat /\ fresh \in Nat /\ disturbed \in BOOLEAN
  /\ out \subseteq Sticks /\ taken \subseteq Sticks
  /\ pc \in Working => job \in Asked
  /\ pc \in OnDisk => job.path \in Paths

-----------------------------------------------------------------------------
(* What is mounted where.                                                  *)

Layers(s) == {s[i] : i \in DOMAIN s}
Tops(m) == [t \in Targets |-> IF m[t] = <<>> THEN NONE ELSE Head(m[t])]

\* `n` is `m` after umounts: nothing is mounted that was not, and no mount point has more layers.
Umounts(m, n) ==
  /\ n \in Mounts
  /\ \A t \in Targets : Layers(n[t]) \subseteq Layers(m[t]) /\ Len(n[t]) <= Len(m[t])

\* The first path of a stack is one of its layers, and under it is the rest.
LEMMA HeadTail ==
  ASSUME NEW s \in Seq(Paths), s # <<>>
  PROVE  /\ Head(s) \in Paths /\ Head(s) \in Layers(s) /\ Tail(s) \in Seq(Paths)
         /\ Layers(Tail(s)) \subseteq Layers(s) /\ Len(Tail(s)) = Len(s) - 1 /\ Len(s) >= 1
<1>1. Len(s) \in Nat /\ Len(s) >= 1 /\ DOMAIN s = 1..Len(s)
  OBVIOUS
<1>2. Head(s) = s[1] /\ s[1] \in Paths /\ 1 \in DOMAIN s
  BY <1>1
<1>3. Head(s) \in Layers(s)
  BY <1>2 DEF Layers
<1>4. Tail(s) \in Seq(Paths) /\ Len(Tail(s)) = Len(s) - 1
  BY <1>1
<1>5. ASSUME NEW i \in DOMAIN Tail(s)
      PROVE  Tail(s)[i] \in Layers(s)
  <2>1. i \in 1..(Len(s) - 1) /\ Tail(s)[i] = s[i + 1] /\ i + 1 \in DOMAIN s
    BY <1>1, <1>4
  <2> QED  BY <2>1 DEF Layers
<1>6. Layers(Tail(s)) \subseteq Layers(s)
  BY <1>5 DEF Layers
<1> QED  BY <1>1, <1>2, <1>3, <1>4, <1>6

\* A stick mounted over a stack.
LEMMA Pushed ==
  ASSUME NEW s \in Seq(Paths), NEW p \in Paths
  PROVE  /\ <<p>> \o s \in Seq(Paths) /\ <<p>> \o s # <<>> /\ Head(<<p>> \o s) = p
         /\ Layers(<<p>> \o s) \subseteq Layers(s) \cup {p} /\ Len(<<p>> \o s) = Len(s) + 1
<1> DEFINE u == <<p>> \o s
<1>1. u \in Seq(Paths) /\ Len(u) = Len(s) + 1 /\ DOMAIN u = 1..(Len(s) + 1) /\ Len(s) \in Nat
  OBVIOUS
<1>2. u # <<>> /\ Head(u) = p
  BY <1>1
<1>3. ASSUME NEW i \in DOMAIN u
      PROVE  u[i] \in Layers(s) \cup {p}
  <2>1. CASE i = 1
    BY <2>1
  <2>2. CASE i # 1
    <3>1. i - 1 \in DOMAIN s /\ u[i] = s[i - 1]
      BY <1>1, <2>2
    <3> QED  BY <3>1 DEF Layers
  <2> QED  BY <2>1, <2>2
<1>4. Layers(u) \subseteq Layers(s) \cup {p}
  BY <1>3 DEF Layers
<1> QED  BY <1>1, <1>2, <1>4

\* The mount table names paths, and nothing where nothing is mounted.
LEMMA TopsTyped ==
  ASSUME NEW m \in Mounts
  PROVE  /\ Tops(m) \in [Targets -> APath]
         /\ \A t \in Targets : /\ Tops(m)[t] = NONE <=> m[t] = <<>>
                               /\ Tops(m)[t] # NONE => Tops(m)[t] \in Layers(m[t]) /\ Tops(m)[t] \in Paths
<1>1. ASSUME NEW t \in Targets
      PROVE  m[t] = <<>> \/ (Head(m[t]) \in Paths /\ Head(m[t]) \in Layers(m[t]) /\ Head(m[t]) # NONE)
  BY HeadTail, NoneAssumption DEF Mounts
<1> QED  BY <1>1 DEF Tops, APath

\* Whatever is umounted that has something mounted on it: that is a umount.
LEMMA Popped ==
  ASSUME NEW m \in Mounts, NEW D \in SUBSET Targets, \A t \in D : m[t] # <<>>
  PROVE  Umounts(m, [t \in Targets |-> IF t \in D THEN Tail(m[t]) ELSE m[t]])
<1> DEFINE n == [t \in Targets |-> IF t \in D THEN Tail(m[t]) ELSE m[t]]
<1>1. ASSUME NEW t \in Targets
      PROVE  n[t] \in Seq(Paths) /\ Layers(n[t]) \subseteq Layers(m[t]) /\ Len(n[t]) <= Len(m[t])
  <2>1. m[t] \in Seq(Paths) /\ Len(m[t]) \in Nat
    BY DEF Mounts
  <2>2. CASE t \in D
    BY <2>1, <2>2, HeadTail
  <2>3. CASE t \notin D
    BY <2>1, <2>3
  <2> QED  BY <2>2, <2>3
<1> QED  BY <1>1 DEF Umounts, Mounts

LEMMA UmountsNothing ==
  ASSUME NEW m \in Mounts
  PROVE  Umounts(m, m)
<1>1. \A t \in Targets : Len(m[t]) \in Nat
  BY DEF Mounts
<1> QED  BY <1>1 DEF Umounts

LEMMA UmountsOne ==
  ASSUME NEW m \in Mounts, NEW t \in Targets, m[t] # <<>>
  PROVE  Umounts(m, Umounted(m, t))
<1>1. Umounted(m, t) = [u \in Targets |-> IF u \in {t} THEN Tail(m[u]) ELSE m[u]]
  BY DEF Umounted, Mounts
<1>2. Umounts(m, [u \in Targets |-> IF u \in {t} THEN Tail(m[u]) ELSE m[u]])
  BY Popped
<1> QED  BY <1>1, <1>2

LEMMA UmountsIfFree ==
  ASSUME NEW m \in Mounts, NEW t \in Targets
  PROVE  Umounts(m, UmountedIfFree(m, t))
<1>1. CASE m[t] # <<>> /\ Head(m[t]) \notin inUse
  BY <1>1, UmountsOne DEF UmountedIfFree
<1>2. CASE ~(m[t] # <<>> /\ Head(m[t]) \notin inUse)
  BY <1>2, UmountsNothing DEF UmountedIfFree
<1> QED  BY <1>1, <1>2

LEMMA UmountsTwice ==
  ASSUME NEW m \in Mounts, NEW n, NEW o, Umounts(m, n), Umounts(n, o)
  PROVE  Umounts(m, o)
<1>1. \A t \in Targets : Len(m[t]) \in Nat /\ Len(n[t]) \in Nat /\ Len(o[t]) \in Nat
  BY DEF Mounts, Umounts
<1> QED  BY <1>1 DEF Umounts

-----------------------------------------------------------------------------
(* Types.                                                                  *)

LEMMA TargetsAre == OWN \in Targets /\ FOREIGN \in Targets /\ OWN # FOREIGN
  BY DEF Targets, OWN, FOREIGN

\* The top of a mount point is a path on it.
LEMMA TopIs ==
  ASSUME TypeOK, NEW t \in Targets
  PROVE  /\ Top(t) = Tops(mounted)[t]
         /\ Top(t) # NONE <=> mounted[t] # <<>>
         /\ Top(t) # NONE => Top(t) \in Paths /\ Top(t) \in Layers(mounted[t])
<1>1. mounted \in Mounts
  BY DEF TypeOK
<1>2. Top(t) = Tops(mounted)[t]
  BY DEF Top, Tops
<1>3. /\ Tops(mounted)[t] = NONE <=> mounted[t] = <<>>
      /\ Tops(mounted)[t] # NONE => Tops(mounted)[t] \in Layers(mounted[t]) /\ Tops(mounted)[t] \in Paths
  BY <1>1, TopsTyped
<1> QED  BY <1>2, <1>3

LEMMA DevicesTyped ==
  ASSUME TypeOK
  PROVE  Devices \in [Paths -> Found]
<1>1. ASSUME NEW p \in Paths
      PROVE  (IF port[p] = NONE THEN None ELSE [stick |-> port[p], uuid |-> content[port[p]].uuid]) \in Found
  <2>1. CASE port[p] = NONE
    BY <2>1 DEF None, Found, AStick
  <2>2. CASE port[p] # NONE
    <3>1. port[p] \in Sticks /\ content[port[p]] \in Volume
      BY <2>2 DEF TypeOK, AStick
    <3> QED  BY <2>2, <3>1 DEF Found, AStick, Volume
  <2> QED  BY <2>1, <2>2
<1> QED  BY <1>1 DEF Devices

\* unmount_gone() only umounts.
LEMMA DetachedUmounts ==
  ASSUME TypeOK
  PROVE  Umounts(mounted, Detached)
<1> DEFINE D == {t \in Targets : Top(t) # NONE /\ port[Top(t)] = NONE}
<1>1. mounted \in Mounts /\ \A t \in D : mounted[t] # <<>>
  BY TopIs DEF TypeOK
<1>2. Umounts(mounted, [t \in Targets |-> IF t \in D THEN Tail(mounted[t]) ELSE mounted[t]])
  BY <1>1, Popped
<1>3. Detached = [t \in Targets |-> IF t \in D THEN Tail(mounted[t]) ELSE mounted[t]]
  BY DEF Detached
<1> QED  BY <1>2, <1>3

\* A umount of some of the mount points that can be umounted.
LEMMA UmountsSome ==
  ASSUME TypeOK, NEW D \in SUBSET Targets, \A t \in D : CanUmount(t)
  PROVE  Umounts(mounted, [t \in Targets |-> IF t \in D THEN Tail(mounted[t]) ELSE mounted[t]])
<1>1. mounted \in Mounts /\ \A t \in D : mounted[t] # <<>>
  BY TopIs DEF TypeOK, CanUmount
<1> QED  BY <1>1, Popped

\* Blank, or with a file system of its own or another device's.
LEMMA FirstContent ==
  ASSUME NEW own \in Sticks, NEW rest \in [Sticks -> {Blank, [uuid |-> 2, device |-> Other, stick |-> 2]}]
  PROVE  [rest EXCEPT ![own] = [uuid |-> 1, device |-> Ours, stick |-> 1]] \in [Sticks -> Volume]
<1>1. Blank \in Volume /\ [uuid |-> 2, device |-> Other, stick |-> 2] \in Volume
      /\ [uuid |-> 1, device |-> Ours, stick |-> 1] \in Volume
  BY DEF Blank, Volume, Device
<1> QED  BY <1>1

LEMMA TypeInit == Init => TypeOK
<1> SUFFICES ASSUME Init PROVE TypeOK
  OBVIOUS
<1>1. content \in [Sticks -> Volume]
  BY FirstContent DEF Init
<1>2. mounted \in Mounts
  BY DEF Init, Mounts
<1>3. seen \in [Paths -> Found] /\ table \in [Targets -> APath]
  BY DEF Init, Found, None, AStick, APath
<1>4. pc \in Places /\ pc \notin Working /\ pc \notin OnDisk
  BY DEF Init, Places, Working, OnDisk, Actions, Idle
<1>5. status \in [own : APath, foreign : APath, available : [Paths -> AStick]]
  BY DEF Init, APath, AStick
<1> QED  BY <1>1, <1>2, <1>3, <1>4, <1>5 DEF Init, TypeOK, AStick, APath, Device

\* The shapes of the helper's places: none of them is two things at once.
LEMMA PlacesAre ==
  /\ Idle \in Places /\ Idle \notin Working /\ Idle \notin OnDisk
  /\ \A q \in {"requests", "reconcile", "mounting"} : q \in Places /\ q \notin Working /\ q \notin OnDisk
  /\ {"erase", "mount"} \subseteq Working \cap OnDisk \cap Places
  /\ "mark" \in Working /\ "mark" \in Places /\ "mark" \notin OnDisk
  /\ Actions \subseteq Working \cap Places
  /\ \A a \in Actions : a \in OnDisk <=> a = "format"
BY DEF Places, Working, OnDisk, Actions, Idle
\* The mounts after an answer, read again.
LEMMA AnsweredTyped ==
  ASSUME TypeOK, mounted' \in Mounts,
         Answered("done", mounted') \/ Answered("error", mounted')
  PROVE  /\ table' \in [Targets -> APath] /\ table' = Tops(mounted')
         /\ job' = NONE /\ pc' = "requests" /\ last' \in {"done", "error"}
<1>1. table' = Tops(mounted')
  BY DEF Answered, Tops
<1>2. Tops(mounted') \in [Targets -> APath]
  BY TopsTyped
<1> QED  BY <1>1, <1>2 DEF Answered

\* What an answer, with some umounts, leaves of the types.
LEMMA AnswerTyped ==
  ASSUME TypeOK, mounted' \in Mounts,
         Answered("done", mounted') \/ Answered("error", mounted'),
         ejected' \subseteq Nat, out' \subseteq Sticks, taken' \subseteq Sticks, configured' \in Nat,
         UNCHANGED <<port, content, inUse, deviceId, requests, status, seen, batch, page, events, fresh, disturbed>>
  PROVE  TypeOK'
<1>1. /\ table' \in [Targets -> APath] /\ job' = NONE /\ pc' = "requests" /\ last' \in {"done", "error"}
  BY AnsweredTyped
<1>2. pc' \in Places /\ pc' \notin Working /\ pc' \notin OnDisk
  BY <1>1, PlacesAre
<1> QED  BY <1>1, <1>2 DEF TypeOK

LEMMA FailsTyped ==
  ASSUME TypeOK, Fails
  PROVE  TypeOK'
<1>1. mounted' = mounted /\ mounted' \in Mounts
  BY DEF Fails, world, TypeOK
<1>2. Answered("error", mounted')
  BY <1>1 DEF Fails
<1> QED  BY <1>1, <1>2, AnswerTyped DEF Fails, world, files, history, TypeOK

LEMMA EjectedTyped ==
  ASSUME TypeOK, NEW paths \in SUBSET Paths, Ejected(paths)
  PROVE  out' \subseteq Sticks /\ taken' \subseteq Sticks
<1>1. InPlace(paths \ StillMounted) \subseteq Sticks
  BY DEF InPlace
<1>2. \A p \in Paths : seen[p].stick \in AStick
  BY DEF TypeOK, Found
<1>3. Known(paths \ StillMounted) \subseteq Sticks
  BY <1>2 DEF Known, AStick
<1> QED  BY <1>1, <1>3 DEF Ejected, TypeOK

\* Mounting a stick as this device's own, and marking it.
LEMMA MarksTyped ==
  ASSUME TypeOK, NEW p \in Paths, NEW m \in Mounts, Marks(p, m), port[p] # NONE
  PROVE  /\ mounted' \in Mounts /\ port[p] \in Sticks /\ content' \in [Sticks -> Volume] /\ fresh' \in Nat
         /\ out' \subseteq Sticks /\ taken' \subseteq Sticks /\ disturbed' \in BOOLEAN
<1>1. port[p] \in Sticks
  BY DEF TypeOK, AStick
<1>2. UmountedIfFree(m, OWN) \in Mounts
  BY UmountsIfFree, TargetsAre DEF Umounts
<1>3. \A s \in Seq(Paths) : <<p>> \o s \in Seq(Paths)
  BY Pushed
<1>4. mounted' \in Mounts
  BY <1>2, <1>3, TargetsAre DEF Marks, Mounts
<1>5. content[port[p]] \in Volume /\ deviceId \in Device /\ fresh + 1 \in Nat
  BY <1>1 DEF TypeOK
<1>6. content' = [content EXCEPT ![port[p]].device = deviceId, ![port[p]].stick = fresh + 1] /\ fresh' = fresh + 1
  BY DEF Marks
<1>7. content' \in [Sticks -> Volume]
  BY <1>1, <1>5, <1>6 DEF TypeOK, Volume
<1>8. out' \subseteq Sticks /\ taken' \subseteq Sticks
  BY DEF Marks, ReadyAgain, TypeOK
<1>9. disturbed' \in BOOLEAN
  BY DEF Marks, TypeOK
<1> QED  BY <1>1, <1>4, <1>5, <1>6, <1>7, <1>8, <1>9

-----------------------------------------------------------------------------
\* Each step keeps the types.
LEMMA TypeNext == TypeOK /\ [Next]_vars => TypeOK'
<1> USE DEF world, files, snapshot, memory, history, vars
<1> SUFFICES ASSUME TypeOK, [Next]_vars PROVE TypeOK'
  OBVIOUS
<1>1. CASE Look
  <2>1. mounted' \in Mounts /\ Detached \in Mounts
    BY <1>1, DetachedUmounts DEF Look, Looks, Umounts
  <2>2. table' = Tops(Detached)
    BY <1>1 DEF Look, Looks, Tops
  <2>3. table' \in [Targets -> APath]
    BY <2>1, <2>2, TopsTyped
  <2>4. seen' \in [Paths -> Found]
    BY <1>1, DevicesTyped DEF Look, Looks
  <2>5. pc' = "requests" /\ pc' \in Places /\ pc' \notin Working /\ pc' \notin OnDisk
    BY <1>1, PlacesAre DEF Look, Looks
  <2>6. disturbed' \in BOOLEAN
    <3>1. PICK b \in BOOLEAN : b = (\E t \in Targets : Len(Detached[t]) > 1)
      OBVIOUS
    <3> QED  BY <1>1, <3>1 DEF Look, Looks
  <2> QED  BY <1>1, <2>1, <2>3, <2>4, <2>5, <2>6 DEF Look, Looks, TypeOK
<1>2. ASSUME NEW r \in batch, Take(r)
      PROVE  TypeOK'
  <2>1. r \in Asked /\ r.action \in Actions /\ (r.action = "format" => r.path \in Paths)
    BY DEF TypeOK, Asked
  <2>2. pc' \in Actions /\ pc' \in Places /\ (pc' \in OnDisk => job'.path \in Paths) /\ job' = r
    BY <1>2, <2>1, PlacesAre DEF Take
  <2> QED  BY <1>2, <2>1, <2>2 DEF Take, TypeOK
<1>3. CASE FormatFinds
  <2> DEFINE D == {t \in Targets : table[t] = job.path}
  <2>1. mounted' = [t \in Targets |-> IF t \in D THEN Tail(mounted[t]) ELSE mounted[t]] /\ \A t \in D : CanUmount(t)
    BY <1>3 DEF FormatFinds
  <2>2. mounted' \in Mounts
    BY <2>1, UmountsSome DEF Umounts
  <2>3. pc = "format" /\ pc' = "erase" /\ pc' \in Places /\ job \in Asked /\ job.path \in Paths
    BY <1>3, PlacesAre DEF FormatFinds, TypeOK, OnDisk, Working, Actions
  <2> QED  BY <1>3, <2>2, <2>3 DEF FormatFinds, TypeOK
<1>4. CASE FormatRefused
  BY <1>4, FailsTyped DEF FormatRefused
<1>5. CASE FormatErases
  <2>1. job.path \in Paths /\ job \in Asked /\ port[job.path] \in Sticks
    BY <1>5 DEF FormatErases, TypeOK, OnDisk, Working, AStick
  <2>2. [Blank EXCEPT !.uuid = fresh + 1] \in Volume /\ fresh + 1 \in Nat
    BY DEF Blank, Volume, Device, TypeOK
  <2>3. content' \in [Sticks -> Volume] /\ fresh' \in Nat
    BY <1>5, <2>1, <2>2 DEF FormatErases, TypeOK
  <2>4. out' \subseteq Sticks /\ taken' \subseteq Sticks
    BY <1>5 DEF FormatErases, ReadyAgain, TypeOK
  <2>5. pc' \in Places
    BY <1>5, PlacesAre DEF FormatErases
  <2> QED  BY <1>5, <2>1, <2>3, <2>4, <2>5 DEF FormatErases, TypeOK
<1>6. CASE FormatMounts
  <2>1. job.path \in Paths /\ job \in Asked /\ port[job.path] # NONE /\ Marks(job.path, mounted) /\ mounted \in Mounts
    BY <1>6 DEF FormatMounts, TypeOK, OnDisk, Working
  <2>2. /\ mounted' \in Mounts /\ content' \in [Sticks -> Volume] /\ fresh' \in Nat
        /\ out' \subseteq Sticks /\ taken' \subseteq Sticks /\ disturbed' \in BOOLEAN
    BY <2>1, MarksTyped
  <2>3. pc' = "mark" /\ pc' \in Places /\ pc' \notin OnDisk /\ job' = job
    BY <1>6, PlacesAre DEF FormatMounts, Marks
  <2> QED  BY <2>1, <2>2, <2>3 DEF Marks, TypeOK
<1>7. CASE AdoptMounts
  <2> DEFINE p == table[FOREIGN]
  <2>1. p \in Paths /\ port[p] # NONE /\ CanUmount(FOREIGN) /\ Marks(p, Umounted(mounted, FOREIGN))
    BY <1>7, TargetsAre DEF AdoptMounts, TypeOK, APath
  <2>2. mounted \in Mounts /\ mounted[FOREIGN] # <<>>
    BY <2>1, TopIs, TargetsAre DEF CanUmount, TypeOK
  <2>3. Umounted(mounted, FOREIGN) \in Mounts
    BY <2>2, UmountsOne, TargetsAre DEF Umounts
  <2>4. /\ mounted' \in Mounts /\ content' \in [Sticks -> Volume] /\ fresh' \in Nat
        /\ out' \subseteq Sticks /\ taken' \subseteq Sticks /\ disturbed' \in BOOLEAN
    BY <2>1, <2>3, MarksTyped
  <2>5. pc' = "mark" /\ pc' \in Places /\ pc' \notin OnDisk
    BY <2>1, PlacesAre DEF Marks
  <2>6. job \in Asked /\ job' = [job EXCEPT !.path = p]
    BY <1>7 DEF AdoptMounts, TypeOK, Working, Actions
  <2>7. job' \in Asked
    BY <2>1, <2>6 DEF Asked, APath
  <2> QED  BY <2>1, <2>4, <2>5, <2>7 DEF Marks, TypeOK
<1>8. CASE StickJson
  BY <1>8, AnswerTyped DEF StickJson, TypeOK
<1>9. CASE WorkFails
  BY <1>9, FailsTyped DEF WorkFails
<1>10. CASE AdoptLosesStick
  <2>1. mounted \in Mounts /\ mounted[FOREIGN] # <<>>
    BY <1>10, TopIs, TargetsAre DEF AdoptLosesStick, CanUmount, TypeOK
  <2>2. Umounted(mounted, FOREIGN) \in Mounts
    BY <2>1, UmountsOne, TargetsAre DEF Umounts
  <2>3. UmountedIfFree(Umounted(mounted, FOREIGN), OWN) \in Mounts
    BY <2>2, UmountsIfFree, TargetsAre DEF Umounts
  <2> QED  BY <1>10, <2>3, AnswerTyped DEF AdoptLosesStick, TypeOK
<1>11. CASE Eject
  <2> DEFINE D == {t \in Targets : table[t] # NONE}
  <2>1. /\ mounted' = [t \in Targets |-> IF t \in D THEN Tail(mounted[t]) ELSE mounted[t]] /\ \A t \in D : CanUmount(t)
        /\ ejected' = ejected \cup {seen[table[t]].uuid : t \in D} /\ Ejected({table[t] : t \in D})
        /\ Answered("done", mounted')
    BY <1>11 DEF Eject
  <2>2. mounted' \in Mounts
    BY <2>1, UmountsSome DEF Umounts
  <2>3. {table[t] : t \in D} \subseteq Paths
    BY DEF TypeOK, APath
  <2>4. out' \subseteq Sticks /\ taken' \subseteq Sticks
    BY <2>1, <2>3, EjectedTyped
  <2>5. ejected' \subseteq Nat
    <3>1. \A p \in Paths : seen[p].uuid \in Nat
      BY DEF TypeOK, Found
    <3>2. \A t \in D : seen[table[t]].uuid \in Nat
      BY <2>3, <3>1
    <3>3. {seen[table[t]].uuid : t \in D} \subseteq Nat /\ ejected \subseteq Nat
      BY <3>2 DEF TypeOK
    <3> QED  BY <2>1, <3>3
  <2> QED  BY <1>11, <2>1, <2>2, <2>4, <2>5, AnswerTyped DEF Eject, TypeOK
<1>12. CASE EjectHalf
  <2>1. mounted \in Mounts /\ mounted[OWN] # <<>> /\ table[OWN] \in Paths
    BY <1>12, TopIs, TargetsAre DEF EjectHalf, CanUmount, TypeOK, APath
  <2>2. mounted' \in Mounts
    BY <1>12, <2>1, UmountsOne, TargetsAre DEF Umounts, EjectHalf
  <2>3. out' \subseteq Sticks /\ taken' \subseteq Sticks
    BY <1>12, <2>1, EjectedTyped DEF EjectHalf
  <2>4. ejected' \subseteq Nat
    BY <1>12, <2>1 DEF EjectHalf, TypeOK, Found
  <2> QED  BY <1>12, <2>2, <2>3, <2>4, AnswerTyped DEF EjectHalf, TypeOK
<1>13. CASE ApplySettings
  <2>1. mounted' = mounted /\ mounted' \in Mounts
    BY <1>13 DEF ApplySettings, TypeOK
  <2>2. Answered("done", mounted')
    BY <1>13, <2>1 DEF ApplySettings
  <2> QED  BY <1>13, <2>1, <2>2, AnswerTyped DEF ApplySettings, TypeOK
<1>14. CASE HandledRequests
  <2>1. seen' \in [Paths -> Found]
    BY <1>14, DevicesTyped DEF HandledRequests, TypeOK
  <2>2. pc' = "reconcile" /\ pc' \in Places /\ pc' \notin Working /\ pc' \notin OnDisk
    BY <1>14, PlacesAre DEF HandledRequests
  <2> QED  BY <1>14, <2>1, <2>2 DEF HandledRequests, TypeOK
<1>15. CASE Reconcile
  <2> DEFINE D == {t \in Targets : Wrong(t)}
  <2>1. mounted' = [t \in Targets |-> IF t \in D THEN Tail(mounted[t]) ELSE mounted[t]] /\ \A t \in D : CanUmount(t)
    BY <1>15 DEF Reconcile
  <2>2. mounted' \in Mounts
    BY <2>1, UmountsSome DEF Umounts
  <2>3. pc' = "mounting" /\ pc' \in Places /\ pc' \notin Working /\ pc' \notin OnDisk
    BY <1>15, PlacesAre DEF Reconcile
  <2>4. table' \in [Targets -> APath]
    BY <1>15 DEF Reconcile, TypeOK, APath
  <2> QED  BY <1>15, <2>2, <2>3, <2>4 DEF Reconcile, TypeOK
<1>16. CASE ReconcileFails
  <2>1. PICK D \in SUBSET {t \in Targets : Wrong(t) /\ CanUmount(t)} :
          mounted' = [t \in Targets |-> IF t \in D THEN Tail(mounted[t]) ELSE mounted[t]]
    BY <1>16 DEF ReconcileFails
  <2>2. mounted' \in Mounts
    BY <2>1, UmountsSome DEF Umounts
  <2>3. pc' = Idle /\ pc' \in Places /\ pc' \notin Working /\ pc' \notin OnDisk
    BY <1>16, PlacesAre DEF ReconcileFails
  <2> QED  BY <1>16, <2>2, <2>3 DEF ReconcileFails, TypeOK
<1>17. ASSUME NEW p \in Paths, MountStick(p)
       PROVE  TypeOK'
  <2>1. PICK t \in Targets : t = IF IsOwn(port[p]) THEN OWN ELSE FOREIGN
    BY TargetsAre
  <2>2. mounted' = [mounted EXCEPT ![t] = <<p>> \o @] /\ table' = [table EXCEPT ![t] = p]
    BY <1>17, <2>1 DEF MountStick
  <2>3. mounted' \in Mounts
    BY <2>2, Pushed DEF TypeOK, Mounts
  <2>4. table' \in [Targets -> APath]
    BY <2>2 DEF TypeOK, APath
  <2> QED  BY <1>17, <2>3, <2>4 DEF MountStick, TypeOK
<1>18. CASE WriteStatus
  <2>1. Top(OWN) \in APath /\ Top(FOREIGN) \in APath
    BY TopIs, TargetsAre DEF APath
  <2>2. \A p \in Paths : seen[p].stick \in AStick
    BY DEF TypeOK, Found
  <2>3. status' \in [own : APath, foreign : APath, available : [Paths -> AStick]]
    <3>1. [p \in Paths |-> IF p \in {MountedInfo(t) : t \in Targets} THEN NONE ELSE seen[p].stick] \in [Paths -> AStick]
      BY <2>2 DEF AStick
    <3> QED  BY <1>18, <2>1, <3>1 DEF WriteStatus, MountedInfo
  <2>4. pc' = Idle /\ pc' \in Places /\ pc' \notin Working /\ pc' \notin OnDisk
    BY <1>18, PlacesAre DEF WriteStatus
  <2> QED  BY <1>18, <2>3, <2>4 DEF WriteStatus, TypeOK
<1>19. ASSUME NEW p \in Paths, OpenPage(p)
       PROVE  TypeOK'
  BY <1>19 DEF OpenPage, TypeOK, APath
<1>20. CASE Confirm
  <2>1. page \in Paths /\ status.available[page] \in AStick
    BY <1>20 DEF Confirm, TypeOK, APath
  <2>2. [Request("format", page, status.available[page]) EXCEPT !.id = events + 1] \in Asked
    BY <2>1 DEF Request, Asked, Actions, APath, TypeOK
  <2>3. requests' \subseteq Asked /\ events' \in Nat
    BY <1>20, <2>2 DEF Confirm, Ask, Happens, TypeOK
  <2> QED  BY <1>20, <2>3 DEF Confirm, TypeOK, APath
<1>21. CASE PageGone
  BY <1>21 DEF PageGone, TypeOK, APath
<1>22. ASSUME NEW a \in {"adopt", "eject", "settings"}, UsbAction(a)
       PROVE  TypeOK'
  <2>1. [Request(a, NONE, NONE) EXCEPT !.id = events + 1] \in Asked
    BY DEF Request, Asked, Actions, APath, AStick, TypeOK
  <2>2. requests' \subseteq Asked /\ events' \in Nat
    BY <1>22, <2>1 DEF UsbAction, Ask, Happens, TypeOK
  <2> QED  BY <1>22, <2>2 DEF UsbAction, TypeOK
<1>23. ASSUME NEW s \in Sticks, NEW p \in Paths, Plug(s, p)
       PROVE  TypeOK'
  BY <1>23 DEF Plug, Move, Happens, TypeOK, AStick
<1>24. ASSUME NEW p \in Paths, Pull(p)
       PROVE  TypeOK'
  BY <1>24 DEF Pull, Move, Happens, TypeOK, AStick
<1>25. CASE BackupStarts
  <2>1. Top(OWN) \in Paths
    BY <1>25, TopIs, TargetsAre DEF BackupStarts, IsOwnAt
  <2> QED  BY <1>25, <2>1 DEF BackupStarts, TypeOK
<1>26. CASE RestoreReads
  <2>1. Top(FOREIGN) \in Paths
    BY <1>26, TopIs, TargetsAre DEF RestoreReads
  <2> QED  BY <1>26, <2>1 DEF RestoreReads, Happens, TypeOK
<1>27. CASE BackupEnds
  BY <1>27 DEF BackupEnds, TypeOK
<1>28. CASE RestoreIdentity
  <2>1. Top(FOREIGN) \in Paths /\ port[Top(FOREIGN)] # NONE
    BY <1>28, TopIs, TargetsAre DEF RestoreIdentity
  <2>2. content[port[Top(FOREIGN)]] \in Volume
    BY <2>1 DEF TypeOK, AStick
  <2>3. deviceId' \in Device /\ configured' \in Nat
    BY <1>28, <2>2 DEF RestoreIdentity, Volume
  <2> QED  BY <1>28, <2>3 DEF RestoreIdentity, Happens, TypeOK
<1>29. ASSUME NEW m \in {mounted, [t \in Targets |-> <<>>]}, HelperDies(m)
       PROVE  TypeOK'
  <2>1. mounted' \in Mounts
    <3>1. <<>> \in Seq(Paths)
      OBVIOUS
    <3>2. [t \in Targets |-> <<>>] \in Mounts /\ mounted \in Mounts
      BY <3>1 DEF TypeOK, Mounts
    <3> QED  BY <1>29, <3>2 DEF HelperDies
  <2>2. seen' \in [Paths -> Found] /\ table' \in [Targets -> APath]
    BY <1>29 DEF HelperDies, None, Found, AStick, APath
  <2>3. pc' = Idle /\ pc' \in Places /\ pc' \notin Working /\ pc' \notin OnDisk
    BY <1>29, PlacesAre DEF HelperDies
  <2> QED  BY <1>29, <2>1, <2>2, <2>3 DEF HelperDies, Happens, TypeOK
<1>30. CASE UNCHANGED vars
  BY <1>30 DEF TypeOK
<1> QED
  BY <1>1, <1>2, <1>3, <1>4, <1>5, <1>6, <1>7, <1>8, <1>9, <1>10, <1>11, <1>12, <1>13, <1>14, <1>15, <1>16,
     <1>17, <1>18, <1>19, <1>20, <1>21, <1>22, <1>23, <1>24, <1>25, <1>26, <1>27, <1>28, <1>29, <1>30
     DEF Next, Cycle, Format, Dashboard, People, Backups, Faults

\* Whatever is plugged in and pulled out, asked for, killed and restored: every variable keeps its
\* type, and a request at work names what its action needs.
THEOREM Typed == Spec => []TypeOK
  BY TypeInit, TypeNext, PTL DEF Spec
-----------------------------------------------------------------------------
(* What is ejected stays out.                                              *)

\* The helper found an ejected stick where it is, with the file system it has, and remembers it.
Remembered ==
  \A p \in Paths : port[p] \in out => /\ seen[p].uuid = content[port[p]].uuid
                                      /\ seen[p].uuid \in ejected \cup {0}

\* Nowhere, under another stick either, an ejected one is mounted.
NotMounted ==
  \A t \in Targets, p \in Paths : p \in Layers(mounted[t]) => port[p] \notin out

\* With these, an ejected stick is at one path, which mount_sticks() passes over.
EjectInv == OneStickEach /\ out \subseteq Plugged /\ Remembered /\ NotMounted

LEMMA EjectInit == Init => EjectInv
BY DEF Init, EjectInv, Remembered, NotMounted

\* While nobody plugs and lsblk is not asked: nothing ejected is mounted, renamed or forgotten.
LEMMA EjectKept ==
  ASSUME TypeOK, EjectInv, UNCHANGED <<port, seen>>, out' \subseteq out, ejected \subseteq ejected',
         \A s \in out' : content'[s].uuid = content[s].uuid,
         \A t \in Targets, p \in Paths :
            p \in Layers(mounted'[t]) => p \in Layers(mounted[t]) \/ port[p] \notin out'
  PROVE  EjectInv'
<1>1. OneStickEach' /\ (out \subseteq Plugged)'
  BY DEF EjectInv, OneStickEach, Plugged
<1>2. Remembered'
  BY DEF EjectInv, Remembered
<1>3. NotMounted'
  BY DEF EjectInv, NotMounted
<1> QED  BY <1>1, <1>2, <1>3 DEF EjectInv

\* ... while sticks are umounted
LEMMA EjectUmounts ==
  ASSUME TypeOK, EjectInv, UNCHANGED <<port, seen, content, out, ejected>>, Umounts(mounted, mounted')
  PROVE  EjectInv'
<1>1. \A t \in Targets, p \in Paths : p \in Layers(mounted'[t]) => p \in Layers(mounted[t])
  BY DEF Umounts
<1> QED  BY <1>1, EjectKept

\* ... while the mounts stay as they are
LEMMA EjectStays ==
  ASSUME TypeOK, EjectInv, UNCHANGED <<port, seen, content, out, ejected, mounted>>
  PROVE  EjectInv'
BY EjectKept

\* ... while a stick is mounted as this device's own and marked: it is no ejected one from then on.
LEMMA EjectMarks ==
  ASSUME TypeOK, EjectInv, NEW q \in Paths, NEW m \in Mounts, Umounts(mounted, m), port[q] # NONE, Marks(q, m)
  PROVE  EjectInv'
<1> DEFINE n == UmountedIfFree(m, OWN)
<1>1. Umounts(mounted, n) /\ n \in Mounts
  BY UmountsIfFree, UmountsTwice, TargetsAre DEF Umounts, TypeOK
<1>2. mounted' = [n EXCEPT ![OWN] = <<q>> \o @]
  BY DEF Marks
<1>3. ASSUME NEW t \in Targets, NEW p \in Paths, p \in Layers(mounted'[t])
      PROVE  p \in Layers(mounted[t]) \/ p = q
  <2>1. Layers(n[t]) \subseteq Layers(mounted[t]) /\ n[t] \in Seq(Paths)
    BY <1>1 DEF Umounts, Mounts
  <2>2. CASE t = OWN
    <3>1. mounted'[t] = <<q>> \o n[t]
      BY <1>1, <1>2, <2>2 DEF Mounts
    <3> QED  BY <1>3, <2>1, <3>1, Pushed
  <2>3. CASE t # OWN
    BY <1>1, <1>2, <1>3, <2>1, <2>3 DEF Mounts
  <2> QED  BY <2>2, <2>3
<1>4. out' = out \ {port[q]} /\ ejected' = ejected /\ port' = port /\ seen' = seen
  BY DEF Marks, ReadyAgain, snapshot
<1>5. \A s \in out' : content'[s].uuid = content[s].uuid
  BY <1>4 DEF Marks, TypeOK
<1> QED  BY <1>3, <1>4, <1>5, EjectKept

\* do_eject() on paths that the helper sees mounted at those mount points, all umounted now
LEMMA EjectAdds ==
  ASSUME TypeOK, EjectInv, NEW D \in SUBSET Targets, \A t \in D : table[t] # NONE,
         Umounts(mounted, mounted'), UNCHANGED <<port, seen, content>>,
         Ejected({table[t] : t \in D}), ejected' = ejected \cup {seen[table[t]].uuid : t \in D}
  PROVE  EjectInv'
<1> DEFINE paths == {table[t] : t \in D} \ StillMounted
<1>1. paths \subseteq Paths
  BY DEF TypeOK, APath
<1>2. out' = out \cup InPlace(paths)
  BY DEF Ejected
<1>3. \A p \in paths : seen[p].uuid \in ejected'
  OBVIOUS
<1>4. ASSUME NEW s \in InPlace(paths)
      PROVE  \E p \in paths : /\ port[p] = s /\ s # NONE /\ seen[p].uuid = content[s].uuid
                              /\ \A q \in Paths : port[q] = s => q = p
  <2>1. PICK p \in paths : port[p] = s /\ seen[p] = [stick |-> s, uuid |-> content[s].uuid] /\ s \in Sticks
    BY DEF InPlace
  <2>2. s # NONE /\ p \in Paths
    BY <1>1, <2>1, NoneAssumption
  <2> QED  BY <2>1, <2>2 DEF EjectInv, OneStickEach
<1>5. OneStickEach' /\ (out \subseteq Plugged)'
  <2>1. InPlace(paths) \subseteq Plugged
    BY <1>1, <1>4 DEF Plugged
  <2> QED  BY <1>2, <2>1 DEF EjectInv, OneStickEach, Plugged
<1>6. Remembered'
  <2> SUFFICES ASSUME NEW p \in Paths, port[p] \in out'
               PROVE  seen[p].uuid = content[port[p]].uuid /\ seen[p].uuid \in ejected' \cup {0}
    BY DEF Remembered
  <2>1. CASE port[p] \in out
    BY <2>1 DEF EjectInv, Remembered
  <2>2. CASE port[p] \in InPlace(paths)
    BY <1>3, <1>4, <2>2
  <2> QED  BY <1>2, <2>1, <2>2
<1>7. NotMounted'
  <2> SUFFICES ASSUME NEW t \in Targets, NEW p \in Paths, p \in Layers(mounted'[t])
               PROVE  port[p] \notin out'
    BY DEF NotMounted
  <2>1. port[p] \notin out
    BY DEF EjectInv, NotMounted, Umounts
  <2>2. p \in StillMounted
    BY DEF Layers, StillMounted
  <2>3. port[p] \notin InPlace(paths)
    BY <1>4, <2>2
  <2> QED  BY <1>2, <2>1, <2>3
<1> QED  BY <1>5, <1>6, <1>7 DEF EjectInv

\* lsblk() finds every stick where it is.
LEMMA DevicesFind ==
  ASSUME TypeOK, NEW p \in Paths
  PROVE  /\ Devices[p].stick = port[p]
         /\ port[p] # NONE => Devices[p].uuid = content[port[p]].uuid
BY DEF Devices, None, TypeOK, AStick

\* No step mounts an ejected stick, or lets the helper forget one that is still there.
LEMMA EjectNext == TypeOK /\ EjectInv /\ [Next]_vars => EjectInv'
<1> USE DEF world, files, snapshot, memory, history, vars
<1> SUFFICES ASSUME TypeOK, EjectInv, [Next]_vars PROVE EjectInv'
  OBVIOUS
<1> mounted \in Mounts /\ Umounts(mounted, mounted)
  BY UmountsNothing DEF TypeOK
<1>1. CASE Look
  <2>1. Umounts(mounted, mounted')
    BY <1>1, DetachedUmounts DEF Look, Looks
  <2>2. seen' = Devices /\ ejected' = ejected \cap UuidsOf(Devices) /\ UNCHANGED <<port, content, out>>
    BY <1>1 DEF Look, Looks
  <2>3. OneStickEach' /\ (out \subseteq Plugged)'
    BY <2>2 DEF EjectInv, OneStickEach, Plugged
  <2>4. Remembered'
    <3> SUFFICES ASSUME NEW p \in Paths, port[p] \in out
                 PROVE  seen'[p].uuid = content[port[p]].uuid /\ seen'[p].uuid \in ejected' \cup {0}
      BY <2>2 DEF Remembered
    <3>1. port[p] # NONE
      BY NoneAssumption DEF TypeOK
    <3>2. seen'[p].uuid = content[port[p]].uuid
      BY <2>2, <3>1, DevicesFind
    <3>3. content[port[p]].uuid \in ejected \cup {0}
      BY DEF EjectInv, Remembered
    <3>4. Devices[p].uuid # 0 => Devices[p].uuid \in UuidsOf(Devices)
      BY DEF UuidsOf
    <3> QED  BY <2>2, <3>2, <3>3, <3>4
  <2>5. NotMounted'
    BY <2>1, <2>2 DEF EjectInv, NotMounted, Umounts
  <2> QED  BY <2>3, <2>4, <2>5 DEF EjectInv
<1>2. ASSUME NEW r \in batch, Take(r)
      PROVE  EjectInv'
  BY <1>2, EjectStays DEF Take
<1>3. CASE FormatFinds
  <2> DEFINE D == {t \in Targets : table[t] = job.path}
  <2>1. mounted' = [t \in Targets |-> IF t \in D THEN Tail(mounted[t]) ELSE mounted[t]] /\ \A t \in D : CanUmount(t)
    BY <1>3 DEF FormatFinds
  <2>2. Umounts(mounted, mounted')
    BY <2>1, UmountsSome
  <2> QED  BY <1>3, <2>2, EjectUmounts DEF FormatFinds
<1>4. CASE FormatRefused
  BY <1>4, EjectStays DEF FormatRefused, Fails
<1>5. CASE FormatErases
  <2>1. out' = out \ {port[job.path]} /\ ejected' = ejected /\ UNCHANGED <<port, seen, mounted>>
    BY <1>5 DEF FormatErases, ReadyAgain
  <2>2. \A s \in out' : content'[s].uuid = content[s].uuid
    BY <1>5, <2>1 DEF FormatErases, TypeOK
  <2> QED  BY <2>1, <2>2, EjectKept
<1>6. CASE FormatMounts
  <2>1. job.path \in Paths /\ port[job.path] # NONE /\ Marks(job.path, mounted)
    BY <1>6 DEF FormatMounts, TypeOK, OnDisk
  <2> QED  BY <2>1, EjectMarks
<1>7. CASE AdoptMounts
  <2> DEFINE p == table[FOREIGN]
  <2>1. p \in Paths /\ port[p] # NONE /\ CanUmount(FOREIGN) /\ Marks(p, Umounted(mounted, FOREIGN))
    BY <1>7, TargetsAre DEF AdoptMounts, TypeOK, APath
  <2>2. mounted[FOREIGN] # <<>>
    BY <2>1, TopIs, TargetsAre DEF CanUmount
  <2>3. Umounts(mounted, Umounted(mounted, FOREIGN))
    BY <2>2, UmountsOne, TargetsAre
  <2>4. Umounted(mounted, FOREIGN) \in Mounts
    BY <2>3 DEF Umounts
  <2> QED  BY <2>1, <2>3, <2>4, EjectMarks
<1>8. CASE StickJson
  BY <1>8, EjectStays DEF StickJson
<1>9. CASE WorkFails
  BY <1>9, EjectStays DEF WorkFails, Fails
<1>10. CASE AdoptLosesStick
  <2>1. mounted[FOREIGN] # <<>>
    BY <1>10, TopIs, TargetsAre DEF AdoptLosesStick, CanUmount
  <2>2. Umounts(mounted, Umounted(mounted, FOREIGN)) /\ Umounted(mounted, FOREIGN) \in Mounts
    BY <2>1, UmountsOne, TargetsAre DEF Umounts
  <2>3. Umounts(Umounted(mounted, FOREIGN), UmountedIfFree(Umounted(mounted, FOREIGN), OWN))
    BY <2>2, UmountsIfFree, TargetsAre
  <2>4. Umounts(mounted, mounted')
    BY <1>10, <2>2, <2>3, UmountsTwice DEF AdoptLosesStick
  <2> QED  BY <1>10, <2>4, EjectUmounts DEF AdoptLosesStick
<1>11. CASE Eject
  <2> DEFINE D == {t \in Targets : table[t] # NONE}
  <2>1. /\ mounted' = [t \in Targets |-> IF t \in D THEN Tail(mounted[t]) ELSE mounted[t]] /\ \A t \in D : CanUmount(t)
        /\ ejected' = ejected \cup {seen[table[t]].uuid : t \in D} /\ Ejected({table[t] : t \in D})
        /\ UNCHANGED <<port, seen, content>>
    BY <1>11 DEF Eject
  <2>2. Umounts(mounted, mounted')
    BY <2>1, UmountsSome
  <2>3. D \in SUBSET Targets /\ \A t \in D : table[t] # NONE
    OBVIOUS
  <2> HIDE DEF D
  <2> QED  BY <2>1, <2>2, <2>3, EjectAdds
<1>12. CASE EjectHalf
  <2>1. mounted[OWN] # <<>> /\ table[OWN] # NONE
    BY <1>12, TopIs, TargetsAre DEF EjectHalf, CanUmount
  <2>2. Umounts(mounted, mounted')
    BY <1>12, <2>1, UmountsOne, TargetsAre DEF EjectHalf
  <2>3. {table[t] : t \in {OWN}} = {table[OWN]} /\ {seen[table[t]].uuid : t \in {OWN}} = {seen[table[OWN]].uuid}
    OBVIOUS
  <2>4. /\ ejected' = ejected \cup {seen[table[t]].uuid : t \in {OWN}} /\ Ejected({table[t] : t \in {OWN}})
        /\ UNCHANGED <<port, seen, content>>
    BY <1>12, <2>3 DEF EjectHalf
  <2>5. {OWN} \in SUBSET Targets /\ \A t \in {OWN} : table[t] # NONE
    BY <2>1, TargetsAre
  <2> QED  BY <2>2, <2>4, <2>5, EjectAdds
<1>13. CASE ApplySettings
  BY <1>13, EjectStays DEF ApplySettings
<1>14. CASE HandledRequests
  <2>1. seen' \in {Devices, seen} /\ UNCHANGED <<port, content, mounted, out, ejected>>
    BY <1>14 DEF HandledRequests
  <2>2. OneStickEach' /\ (out \subseteq Plugged)' /\ NotMounted'
    BY <2>1 DEF EjectInv, OneStickEach, Plugged, NotMounted
  <2>3. Remembered'
    <3> SUFFICES ASSUME NEW p \in Paths, port[p] \in out
                 PROVE  seen'[p].uuid = content[port[p]].uuid /\ seen'[p].uuid \in ejected \cup {0}
      BY <2>1 DEF Remembered
    <3>1. port[p] # NONE
      BY NoneAssumption DEF TypeOK
    <3>2. content[port[p]].uuid \in ejected \cup {0} /\ seen[p].uuid = content[port[p]].uuid
      BY DEF EjectInv, Remembered
    <3>3. Devices[p].uuid = content[port[p]].uuid
      BY <3>1, DevicesFind
    <3> QED  BY <2>1, <3>2, <3>3
  <2> QED  BY <2>2, <2>3 DEF EjectInv
<1>15. CASE Reconcile
  <2> DEFINE D == {t \in Targets : Wrong(t)}
  <2>1. mounted' = [t \in Targets |-> IF t \in D THEN Tail(mounted[t]) ELSE mounted[t]] /\ \A t \in D : CanUmount(t)
    BY <1>15 DEF Reconcile
  <2>2. Umounts(mounted, mounted')
    BY <2>1, UmountsSome
  <2> QED  BY <1>15, <2>2, EjectUmounts DEF Reconcile
<1>16. CASE ReconcileFails
  <2>1. PICK D \in SUBSET {t \in Targets : Wrong(t) /\ CanUmount(t)} :
          mounted' = [t \in Targets |-> IF t \in D THEN Tail(mounted[t]) ELSE mounted[t]]
    BY <1>16 DEF ReconcileFails
  <2>2. Umounts(mounted, mounted')
    BY <2>1, UmountsSome
  <2> QED  BY <1>16, <2>2, EjectUmounts DEF ReconcileFails
<1>17. ASSUME NEW q \in Paths, MountStick(q)
       PROVE  EjectInv'
  <2>1. PICK u \in Targets : u = IF IsOwn(port[q]) THEN OWN ELSE FOREIGN
    BY TargetsAre
  <2>2. mounted' = [mounted EXCEPT ![u] = <<q>> \o @] /\ Mountable(q) /\ UNCHANGED <<port, seen, content, out, ejected>>
    BY <1>17, <2>1 DEF MountStick
  <2>3. port[q] \notin out
    BY <2>2 DEF Mountable, EjectInv, Remembered
  <2>4. ASSUME NEW t \in Targets, NEW p \in Paths, p \in Layers(mounted'[t])
        PROVE  p \in Layers(mounted[t]) \/ p = q
    <3>1. mounted[t] \in Seq(Paths)
      BY DEF Mounts
    <3>2. CASE t = u
      <4>1. mounted'[t] = <<q>> \o mounted[t]
        BY <2>2, <3>2 DEF Mounts
      <4> QED  BY <2>4, <3>1, <4>1, Pushed
    <3>3. CASE t # u
      BY <2>2, <2>4, <3>3 DEF Mounts
    <3> QED  BY <3>2, <3>3
  <2> QED  BY <2>2, <2>3, <2>4, EjectKept
<1>18. CASE WriteStatus
  BY <1>18, EjectStays DEF WriteStatus
<1>19. ASSUME NEW p \in Paths, OpenPage(p)
       PROVE  EjectInv'
  BY <1>19, EjectStays DEF OpenPage
<1>20. CASE Confirm
  BY <1>20, EjectStays DEF Confirm
<1>21. CASE PageGone
  BY <1>21, EjectStays DEF PageGone
<1>22. ASSUME NEW a \in {"adopt", "eject", "settings"}, UsbAction(a)
       PROVE  EjectInv'
  BY <1>22, EjectStays DEF UsbAction
<1>23. ASSUME NEW s \in Sticks, NEW p \in Paths, Plug(s, p)
       PROVE  EjectInv'
  <2>1. /\ port' = [port EXCEPT ![p] = s] /\ port[p] = NONE /\ \A q \in Paths : port[q] # s
        /\ UNCHANGED <<mounted, seen, content, out, ejected>>
    BY <1>23 DEF Plug
  <2>2. s \notin out
    BY <2>1 DEF EjectInv, Plugged
  <2>3. port'[p] = s /\ \A q \in Paths : q # p => port'[q] = port[q]
    BY <2>1 DEF TypeOK
  <2>4. OneStickEach'
    BY <2>1, <2>3 DEF EjectInv, OneStickEach
  <2>5. (out \subseteq Plugged)'
    <3>1. \A o \in out : o # NONE
      BY NoneAssumption DEF TypeOK
    <3> QED  BY <2>1, <2>3, <3>1 DEF EjectInv, Plugged
  <2>6. Remembered'
    BY <2>1, <2>2, <2>3 DEF EjectInv, Remembered
  <2>7. NotMounted'
    BY <2>1, <2>2, <2>3 DEF EjectInv, NotMounted
  <2> QED  BY <2>4, <2>5, <2>6, <2>7 DEF EjectInv
<1>24. ASSUME NEW p \in Paths, Pull(p)
       PROVE  EjectInv'
  <2>1. /\ port' = [port EXCEPT ![p] = NONE] /\ port[p] # NONE /\ out' = out \ {port[p]}
        /\ UNCHANGED <<mounted, seen, content, ejected>>
    BY <1>24 DEF Pull
  <2>2. port'[p] = NONE /\ \A q \in Paths : q # p => port'[q] = port[q]
    BY <2>1 DEF TypeOK
  <2>3. NONE \notin out
    BY NoneAssumption DEF TypeOK
  <2>4. OneStickEach'
    BY <2>1, <2>2 DEF EjectInv, OneStickEach
  <2>5. (out \subseteq Plugged)'
    BY <2>1, <2>2 DEF EjectInv, Plugged
  <2>6. Remembered'
    BY <2>1, <2>2, <2>3 DEF EjectInv, Remembered
  <2>7. NotMounted'
    BY <2>1, <2>2, <2>3 DEF EjectInv, NotMounted
  <2> QED  BY <2>4, <2>5, <2>6, <2>7 DEF EjectInv
<1>25. CASE BackupStarts
  BY <1>25, EjectStays DEF BackupStarts
<1>26. CASE RestoreReads
  BY <1>26, EjectStays DEF RestoreReads
<1>27. CASE BackupEnds
  BY <1>27, EjectStays DEF BackupEnds
<1>28. CASE RestoreIdentity
  BY <1>28, EjectStays DEF RestoreIdentity
<1>29. ASSUME NEW m \in {mounted, [t \in Targets |-> <<>>]}, HelperDies(m)
       PROVE  EjectInv'
  BY <1>29 DEF HelperDies, EjectInv, OneStickEach, Plugged, Remembered, NotMounted
<1>30. CASE UNCHANGED vars
  BY <1>30, EjectStays
<1> QED
  BY <1>1, <1>2, <1>3, <1>4, <1>5, <1>6, <1>7, <1>8, <1>9, <1>10, <1>11, <1>12, <1>13, <1>14, <1>15, <1>16,
     <1>17, <1>18, <1>19, <1>20, <1>21, <1>22, <1>23, <1>24, <1>25, <1>26, <1>27, <1>28, <1>29, <1>30
     DEF Next, Cycle, Format, Dashboard, People, Backups, Faults

LEMMA EjectShows == TypeOK /\ EjectInv => StaysEjected
<1> SUFFICES ASSUME TypeOK, EjectInv, NEW s \in out, NEW t \in Targets, Top(t) # NONE
             PROVE  port[Top(t)] # s
  BY DEF StaysEjected
<1>1. Top(t) \in Paths /\ Top(t) \in Layers(mounted[t])
  BY TopIs
<1> QED  BY <1>1 DEF EjectInv, NotMounted

\* For any number of sticks and paths, requests, pulls, helper deaths and power cuts in any order: an
\* ejected stick that stays where it is is not mounted again, until it is erased or taken over or the
\* helper was restarted (do_eject(), mount_sticks()).
THEOREM EjectedStaysOut == Spec => []StaysEjected
<1>1. Init => TypeOK /\ EjectInv
  BY TypeInit, EjectInit
<1>2. TypeOK /\ EjectInv /\ [Next]_vars => TypeOK' /\ EjectInv'
  BY TypeNext, EjectNext
<1>3. TypeOK /\ EjectInv => StaysEjected
  BY EjectShows
<1> QED  BY <1>1, <1>2, <1>3, PTL DEF Spec

-----------------------------------------------------------------------------
(* Undisturbed, the helper knows what is where.                            *)

\* Places of a cycle at which the mount table has been read since the last umount or mount
InStep == Actions \cup {"requests", "reconcile", "mounting"}

\* No stick has moved since lsblk, and no mount covers another.
AsSeen == pc # Idle => /\ \A p \in Paths : seen[p].stick = port[p]
                       /\ \A t \in Targets : Len(mounted[t]) <= 1
TableTrue == pc \in InStep => \A t \in Targets : table[t] = Top(t)
\* What is about to be erased is the stick asked for, and it is mounted nowhere.
RightDisk == pc = "erase" => /\ job.stick = port[job.path]
                             /\ \A t \in Targets : Top(t) # job.path
\* After reconcile(), what is mounted is where it belongs.
RightRole == pc = "mounting" => \A t \in Targets : Top(t) # NONE => (IsOwn(port[Top(t)]) <=> t = OWN)

CalmInv == ~disturbed => AsSeen /\ TableTrue /\ RightDisk /\ RightRole

LEMMA CalmInit == Init => CalmInv
BY DEF Init, CalmInv, AsSeen, TableTrue, RightDisk, RightRole, InStep, Actions, Idle

LEMMA StepsAre ==
  /\ Idle \notin InStep /\ "erase" \notin InStep /\ "mount" \notin InStep /\ "mark" \notin InStep
  /\ Actions \subseteq InStep /\ {"requests", "reconcile", "mounting"} \subseteq InStep
  /\ Idle \notin Working \cup {"requests", "reconcile", "mounting"}
  /\ "erase" \notin Actions /\ "mounting" \notin Working /\ Idle # "mark" /\ Idle # "erase"
BY DEF InStep, Actions, Working, Idle

LEMMA CalmStays ==
  ASSUME CalmInv, UNCHANGED <<port, content, mounted, deviceId, configured, pc, seen, table, job, disturbed>>
  PROVE  CalmInv'
BY DEF CalmInv, AsSeen, TableTrue, RightDisk, RightRole, Top, IsOwn

\* Between two requests: the mounts were read after the last umount.
LEMMA CalmAnswers ==
  ASSUME TypeOK, CalmInv, pc # Idle, UNCHANGED <<port, seen, disturbed>>, Umounts(mounted, mounted'),
         Answered("done", mounted') \/ Answered("error", mounted')
  PROVE  CalmInv'
<1>1. pc' = "requests" /\ table' = Tops(mounted')
  BY DEF Answered, Tops
<1>2. \A t \in Targets : table'[t] = Top(t)'
  BY <1>1 DEF Tops, Top
<1>3. \A t \in Targets : Len(mounted[t]) \in Nat /\ Len(mounted'[t]) \in Nat
  BY DEF TypeOK, Umounts, Mounts
<1>4. ~disturbed => AsSeen'
  BY <1>3 DEF CalmInv, AsSeen, Umounts
<1> QED  BY <1>1, <1>2, <1>4 DEF CalmInv, TableTrue, RightDisk, RightRole

LEMMA CalmFails ==
  ASSUME TypeOK, CalmInv, pc # Idle, Fails
  PROVE  CalmInv'
<1>1. mounted' = mounted /\ UNCHANGED <<port, seen, disturbed>> /\ Answered("error", mounted')
  BY DEF Fails, world, history, Answered
<1>2. Umounts(mounted, mounted')
  BY <1>1, UmountsNothing DEF TypeOK
<1> QED  BY <1>1, <1>2, CalmAnswers

\* A stick mounted and marked: on the only layer, or it counts as disturbed.
LEMMA CalmMarks ==
  ASSUME TypeOK, CalmInv, pc # Idle, NEW q \in Paths, NEW m \in Mounts, Umounts(mounted, m), Marks(q, m)
  PROVE  CalmInv'
<1> DEFINE n == UmountedIfFree(m, OWN)
<1>1. Umounts(mounted, n) /\ n \in Mounts
  BY UmountsIfFree, UmountsTwice, TargetsAre DEF Umounts, TypeOK
<1>2. /\ mounted' = [n EXCEPT ![OWN] = <<q>> \o @] /\ disturbed' = (disturbed \/ n[OWN] # <<>>)
      /\ pc' = "mark" /\ UNCHANGED <<port, seen>>
  BY DEF Marks, snapshot
<1> HIDE DEF n
<1>3. ASSUME ~disturbed' PROVE AsSeen'
  <2>1. ~disturbed /\ n[OWN] = <<>>
    BY <1>2, <1>3
  <2>2. ASSUME NEW t \in Targets
        PROVE  Len(mounted'[t]) <= 1
    <3>1. n[t] \in Seq(Paths) /\ Len(n[t]) \in Nat /\ Len(mounted[t]) \in Nat
      BY <1>1 DEF Mounts, TypeOK
    <3>2. CASE t = OWN
      <4>1. mounted'[t] = <<q>> \o n[t] /\ Len(n[t]) = 0
        BY <1>1, <1>2, <2>1, <3>2 DEF Mounts
      <4>2. Len(<<q>> \o n[t]) = Len(n[t]) + 1
        BY <3>1, Pushed
      <4> QED  BY <4>1, <4>2
    <3>3. CASE t # OWN
      <4>1. mounted'[t] = n[t]
        BY <1>1, <1>2, <3>3 DEF Mounts
      <4> QED  BY <1>1, <2>1, <3>1, <4>1 DEF Umounts, CalmInv, AsSeen
    <3> QED  BY <3>2, <3>3
  <2> QED  BY <1>2, <2>1, <2>2 DEF CalmInv, AsSeen
<1>4. (TableTrue /\ RightDisk /\ RightRole)'
  BY <1>2, StepsAre DEF TableTrue, RightDisk, RightRole
<1> QED  BY <1>3, <1>4 DEF CalmInv

\* An umount of the only layer leaves nothing.
LEMMA OneLayer ==
  ASSUME NEW s \in Seq(Paths), s # <<>>, Len(s) <= 1
  PROVE  Tail(s) = <<>>
<1>1. Len(s) \in Nat /\ Len(s) = 1
  <2>1. Len(s) \in Nat
    OBVIOUS
  <2>2. Len(s) >= 1
    BY HeadTail
  <2>3. \A n \in Nat : n >= 1 /\ n <= 1 => n = 1
    OBVIOUS
  <2> QED  BY <2>1, <2>2, <2>3
<1>2. Tail(s) \in Seq(Paths) /\ Len(Tail(s)) = 0
  BY <1>1, HeadTail
<1> DEFINE u == Tail(s)
<1> HIDE DEF u
<1>3. u \in Seq(Paths) /\ Len(u) = 0
  BY <1>2 DEF u
<1>4. u = <<>>
  BY <1>3
<1> QED  BY <1>4 DEF u

LEMMA LastLayer ==
  ASSUME TypeOK, NEW t \in Targets, mounted[t] # <<>>, Len(mounted[t]) <= 1, mounted'[t] = Tail(mounted[t])
  PROVE  mounted'[t] = <<>> /\ Top(t)' = NONE
<1>1. mounted[t] \in Seq(Paths)
  BY DEF TypeOK, Mounts
<1>2. Tail(mounted[t]) = <<>>
  BY <1>1, OneLayer
<1> QED  BY <1>2 DEF Top

\* Undisturbed, each step keeps what the helper knows true.
LEMMA CalmNext == TypeOK /\ CalmInv /\ [Next]_vars => CalmInv'
<1> USE DEF world, files, snapshot, memory, history, vars
<1> SUFFICES ASSUME TypeOK, CalmInv, [Next]_vars PROVE CalmInv'
  OBVIOUS
<1> mounted \in Mounts /\ Umounts(mounted, mounted) /\ \A t \in Targets : Len(mounted[t]) \in Nat
  BY UmountsNothing DEF TypeOK, Mounts
<1>1. CASE Look
  <2>1. Umounts(mounted, Detached)
    BY DetachedUmounts
  <2>2. /\ mounted' = Detached /\ table' = Tops(Detached) /\ seen' = Devices /\ pc' = "requests" /\ port' = port
        /\ disturbed' = \E t \in Targets : Len(Detached[t]) > 1
    BY <1>1 DEF Look, Looks, Tops
  <2>3. \A t \in Targets : table'[t] = Top(t)'
    BY <2>2 DEF Tops, Top
  <2>4. ASSUME ~disturbed' PROVE AsSeen'
    <3>1. \A p \in Paths : seen'[p].stick = port'[p]
      BY <2>2, DevicesFind
    <3>2. \A t \in Targets : Len(mounted'[t]) \in Nat /\ ~(Len(mounted'[t]) > 1)
      BY <2>1, <2>2, <2>4 DEF Umounts, Mounts
    <3>3. \A t \in Targets : Len(mounted'[t]) <= 1
      BY <3>2
    <3> QED  BY <3>1, <3>3 DEF AsSeen
  <2> QED  BY <2>2, <2>3, <2>4 DEF CalmInv, TableTrue, RightDisk, RightRole
<1>2. ASSUME NEW r \in batch, Take(r)
      PROVE  CalmInv'
  <2>1. r.action \in Actions
    BY DEF TypeOK, Asked
  <2>2. pc = "requests" /\ pc' = r.action /\ UNCHANGED <<port, mounted, seen, table, disturbed>>
    BY <1>2 DEF Take
  <2>3. pc # Idle /\ pc \in InStep /\ pc' # "erase" /\ pc' # "mounting"
    BY <2>1, <2>2 DEF Actions, InStep, Idle
  <2>4. \A t \in Targets : Top(t)' = Top(t)
    BY <2>2 DEF Top
  <2> QED  BY <2>2, <2>3, <2>4 DEF CalmInv, AsSeen, TableTrue, RightDisk, RightRole
<1>3. CASE FormatFinds
  <2> DEFINE D == {t \in Targets : table[t] = job.path}
  <2>1. /\ mounted' = [t \in Targets |-> IF t \in D THEN Tail(mounted[t]) ELSE mounted[t]] /\ \A t \in D : CanUmount(t)
        /\ pc = "format" /\ pc' = "erase" /\ FindDisk /\ UNCHANGED <<port, seen, table, job, disturbed>>
    BY <1>3 DEF FormatFinds
  <2>2. Umounts(mounted, mounted') /\ job.path \in Paths /\ pc # Idle /\ pc \in InStep
    BY <2>1, UmountsSome DEF TypeOK, OnDisk, InStep, Actions, Idle
  <2>3. ASSUME ~disturbed PROVE AsSeen' /\ RightDisk'
    <3>1. AsSeen /\ TableTrue
      BY <2>3 DEF CalmInv
    <3>2. job.stick = port[job.path]
      BY <2>1, <2>2, <3>1 DEF FindDisk, AsSeen
    <3>3. ASSUME NEW t \in Targets
          PROVE  Top(t)' # job.path /\ Len(mounted'[t]) <= 1
      <4>1. Len(mounted'[t]) <= Len(mounted[t]) /\ Len(mounted[t]) <= 1 /\ Len(mounted'[t]) \in Nat
        BY <2>2, <3>1 DEF Umounts, AsSeen, Mounts
      <4>2. CASE t \in D
        <5>1. mounted[t] # <<>> /\ mounted'[t] = Tail(mounted[t])
          BY <2>1, <4>2, TopIs DEF CanUmount
        <5>2. Top(t)' = NONE
          BY <4>1, <5>1, LastLayer
        <5> QED  BY <2>2, <4>1, <5>2, NoneAssumption
      <4>3. CASE t \notin D
        <5>1. Top(t)' = Top(t) /\ table[t] = Top(t)
          BY <2>1, <2>2, <3>1, <4>3 DEF Top, TableTrue
        <5> QED  BY <4>1, <4>3, <5>1
      <4> QED  BY <4>2, <4>3
    <3> QED  BY <2>1, <2>2, <3>1, <3>2, <3>3 DEF AsSeen, RightDisk
  <2> QED  BY <2>1, <2>3, StepsAre DEF CalmInv, TableTrue, RightRole
<1>4. CASE FormatRefused
  BY <1>4, CalmFails DEF FormatRefused, Idle
<1>5. CASE FormatErases
  <2>1. pc = "erase" /\ pc' = "mount" /\ pc # Idle /\ UNCHANGED <<port, mounted, seen, disturbed>>
    BY <1>5 DEF FormatErases, Idle
  <2> QED  BY <2>1, StepsAre DEF CalmInv, AsSeen, TableTrue, RightDisk, RightRole
<1>6. CASE FormatMounts
  <2>1. job.path \in Paths /\ Marks(job.path, mounted) /\ pc # Idle
    BY <1>6 DEF FormatMounts, TypeOK, OnDisk, Idle
  <2> QED  BY <2>1, CalmMarks
<1>7. CASE AdoptMounts
  <2> DEFINE p == table[FOREIGN]
  <2>1. p \in Paths /\ CanUmount(FOREIGN) /\ Marks(p, Umounted(mounted, FOREIGN)) /\ pc # Idle
    BY <1>7, TargetsAre DEF AdoptMounts, TypeOK, APath, Idle
  <2>2. mounted[FOREIGN] # <<>>
    BY <2>1, TopIs, TargetsAre DEF CanUmount
  <2>3. Umounts(mounted, Umounted(mounted, FOREIGN))
    BY <2>2, UmountsOne, TargetsAre
  <2>4. Umounted(mounted, FOREIGN) \in Mounts
    BY <2>3 DEF Umounts
  <2> QED  BY <2>1, <2>3, <2>4, CalmMarks
<1>8. CASE StickJson
  <2>1. mounted' = mounted /\ Answered("done", mounted') /\ pc # Idle /\ UNCHANGED <<port, seen, disturbed>>
    BY <1>8 DEF StickJson, Answered, Idle
  <2> QED  BY <2>1, CalmAnswers
<1>9. CASE WorkFails
  BY <1>9, CalmFails DEF WorkFails, Idle
<1>10. CASE AdoptLosesStick
  <2>1. mounted[FOREIGN] # <<>> /\ pc # Idle
    BY <1>10, TopIs, TargetsAre DEF AdoptLosesStick, CanUmount, Idle
  <2>2. Umounts(mounted, Umounted(mounted, FOREIGN)) /\ Umounted(mounted, FOREIGN) \in Mounts
    BY <2>1, UmountsOne, TargetsAre DEF Umounts
  <2>3. Umounts(Umounted(mounted, FOREIGN), UmountedIfFree(Umounted(mounted, FOREIGN), OWN))
    BY <2>2, UmountsIfFree, TargetsAre
  <2>4. Umounts(mounted, mounted')
    BY <1>10, <2>2, <2>3, UmountsTwice DEF AdoptLosesStick
  <2> QED  BY <1>10, <2>1, <2>4, CalmAnswers DEF AdoptLosesStick
<1>11. CASE Eject
  <2> DEFINE D == {t \in Targets : table[t] # NONE}
  <2>1. /\ mounted' = [t \in Targets |-> IF t \in D THEN Tail(mounted[t]) ELSE mounted[t]] /\ \A t \in D : CanUmount(t)
        /\ Answered("done", mounted') /\ pc # Idle /\ UNCHANGED <<port, seen, disturbed>>
    BY <1>11 DEF Eject, Idle
  <2>2. Umounts(mounted, mounted')
    BY <2>1, UmountsSome
  <2> QED  BY <2>1, <2>2, CalmAnswers
<1>12. CASE EjectHalf
  <2>1. mounted[OWN] # <<>> /\ pc # Idle
    BY <1>12, TopIs, TargetsAre DEF EjectHalf, CanUmount, Idle
  <2>2. Umounts(mounted, mounted')
    BY <1>12, <2>1, UmountsOne, TargetsAre DEF EjectHalf
  <2> QED  BY <1>12, <2>1, <2>2, CalmAnswers DEF EjectHalf
<1>13. CASE ApplySettings
  <2>1. mounted' = mounted /\ Answered("done", mounted') /\ pc # Idle /\ UNCHANGED <<port, seen, disturbed>>
    BY <1>13 DEF ApplySettings, Answered, Idle
  <2> QED  BY <2>1, CalmAnswers
<1>14. CASE HandledRequests
  <2>1. /\ pc = "requests" /\ pc' = "reconcile" /\ seen' \in {Devices, seen} /\ UNCHANGED <<port, mounted, table, disturbed>>
    BY <1>14 DEF HandledRequests
  <2>2. pc # Idle /\ pc \in InStep
    BY <2>1 DEF Idle, InStep
  <2>3. \A t \in Targets : Top(t)' = Top(t)
    BY <2>1 DEF Top
  <2>4. \A p \in Paths : Devices[p].stick = port[p]
    BY DevicesFind
  <2>5. ~disturbed => AsSeen'
    BY <2>1, <2>2, <2>4 DEF CalmInv, AsSeen
  <2> QED  BY <2>1, <2>2, <2>3, <2>5 DEF CalmInv, TableTrue, RightDisk, RightRole
<1>15. CASE Reconcile
  <2> DEFINE D == {t \in Targets : Wrong(t)}
  <2>1. /\ mounted' = [t \in Targets |-> IF t \in D THEN Tail(mounted[t]) ELSE mounted[t]] /\ \A t \in D : CanUmount(t)
        /\ table' = [t \in Targets |-> IF Wrong(t) THEN NONE ELSE table[t]]
        /\ pc = "reconcile" /\ pc' = "mounting" /\ UNCHANGED <<port, content, deviceId, configured, seen, disturbed>>
    BY <1>15 DEF Reconcile
  <2>2. Umounts(mounted, mounted') /\ pc # Idle /\ pc \in InStep
    BY <2>1, UmountsSome DEF InStep, Idle
  <2>3. ASSUME ~disturbed PROVE AsSeen' /\ TableTrue' /\ RightRole'
    <3>1. AsSeen /\ TableTrue
      BY <2>3 DEF CalmInv
    <3>2. ASSUME NEW t \in Targets
          PROVE  /\ Len(mounted'[t]) <= 1 /\ table'[t] = Top(t)'
                 /\ Top(t)' # NONE => Top(t)' = Top(t) /\ ~Wrong(t) /\ table[t] = Top(t)
      <4>1. Len(mounted'[t]) <= Len(mounted[t]) /\ Len(mounted[t]) <= 1 /\ Len(mounted'[t]) \in Nat /\ table[t] = Top(t)
        BY <2>2, <3>1 DEF Umounts, AsSeen, TableTrue, Mounts
      <4>2. CASE t \in D
        <5>1. mounted[t] # <<>> /\ mounted'[t] = Tail(mounted[t]) /\ table'[t] = NONE
          BY <2>1, <4>2, TopIs DEF CanUmount
        <5>2. Top(t)' = NONE
          BY <4>1, <5>1, LastLayer
        <5> QED  BY <4>1, <5>1, <5>2
      <4>3. CASE t \notin D
        <5>1. Top(t)' = Top(t) /\ table'[t] = table[t] /\ ~Wrong(t)
          BY <2>1, <4>3 DEF Top
        <5> QED  BY <4>1, <5>1
      <4> QED  BY <4>2, <4>3
    <3>3. ASSUME NEW t \in Targets, Top(t)' # NONE
          PROVE  IsOwn(port[Top(t)])' <=> t = OWN
      <4>1. Top(t)' = Top(t) /\ IsOwnAt(t) = (t = OWN) /\ Top(t) # NONE
        BY <3>2, <3>3 DEF Wrong
      <4>2. IsOwn(port[Top(t)]) <=> t = OWN
        BY <4>1 DEF IsOwnAt
      <4> QED  BY <2>1, <4>1, <4>2 DEF IsOwn
    <3> QED  BY <2>1, <2>2, <3>1, <3>2, <3>3 DEF AsSeen, TableTrue, RightRole
  <2> QED  BY <2>1, <2>3 DEF CalmInv, RightDisk
<1>16. CASE ReconcileFails
  <2>1. pc' = Idle
    BY <1>16 DEF ReconcileFails
  <2> QED  BY <2>1, StepsAre DEF CalmInv, AsSeen, TableTrue, RightDisk, RightRole
<1>17. ASSUME NEW q \in Paths, MountStick(q)
       PROVE  CalmInv'
  <2>1. PICK u \in Targets : u = IF IsOwn(port[q]) THEN OWN ELSE FOREIGN
    BY TargetsAre
  <2>2. /\ mounted' = [mounted EXCEPT ![u] = <<q>> \o @] /\ table[u] = NONE /\ table' = [table EXCEPT ![u] = q]
        /\ pc = "mounting" /\ pc' = pc
        /\ UNCHANGED <<port, content, deviceId, configured, seen, disturbed>>
    BY <1>17, <2>1 DEF MountStick, Mountable
  <2>3. pc # Idle /\ pc \in InStep
    BY <2>2 DEF InStep, Idle
  <2>4. (IsOwn(port[q]) <=> u = OWN) /\ q # NONE
    BY <2>1, TargetsAre, NoneAssumption
  <2>5. ASSUME ~disturbed PROVE AsSeen' /\ TableTrue' /\ RightRole'
    <3>1. AsSeen /\ TableTrue /\ RightRole
      BY <2>5 DEF CalmInv
    <3>2. mounted[u] = <<>>
      BY <2>2, <2>3, <3>1, TopIs DEF TableTrue
    <3>3. mounted'[u] = <<q>> \o mounted[u] /\ mounted[u] \in Seq(Paths) /\ Len(mounted[u]) = 0
      BY <2>2, <3>2 DEF Mounts
    <3>4. Len(<<q>> \o mounted[u]) = Len(mounted[u]) + 1 /\ <<q>> \o mounted[u] # <<>> /\ Head(<<q>> \o mounted[u]) = q
      BY <3>3, Pushed
    <3>5. Len(mounted'[u]) = 1 /\ Top(u)' = q /\ table'[u] = q
      BY <2>2, <3>3, <3>4 DEF Top, TypeOK
    <3>6. ASSUME NEW t \in Targets, t # u
          PROVE  mounted'[t] = mounted[t] /\ Top(t)' = Top(t) /\ table'[t] = table[t]
      BY <2>2, <3>6 DEF Mounts, Top, TypeOK
    <3>7. AsSeen'
      BY <2>2, <2>3, <3>1, <3>5, <3>6 DEF AsSeen
    <3>8. TableTrue'
      BY <2>2, <2>3, <3>1, <3>5, <3>6 DEF TableTrue
    <3>9. ASSUME NEW t \in Targets, Top(t)' # NONE
          PROVE  IsOwn(port[Top(t)])' <=> t = OWN
      <4>1. CASE t = u
        BY <2>2, <2>4, <3>5, <4>1 DEF IsOwn
      <4>2. CASE t # u
        <5>1. Top(t)' = Top(t) /\ Top(t) # NONE
          BY <3>6, <3>9, <4>2
        <5>2. IsOwn(port[Top(t)]) <=> t = OWN
          BY <2>2, <3>1, <5>1 DEF RightRole
        <5> QED  BY <2>2, <5>1, <5>2 DEF IsOwn
      <4> QED  BY <4>1, <4>2
    <3> QED  BY <3>7, <3>8, <3>9 DEF RightRole
  <2> QED  BY <2>2, <2>5 DEF CalmInv, RightDisk
<1>18. CASE WriteStatus
  <2>1. pc' = Idle
    BY <1>18 DEF WriteStatus
  <2> QED  BY <2>1, StepsAre DEF CalmInv, AsSeen, TableTrue, RightDisk, RightRole
<1>19. ASSUME NEW p \in Paths, OpenPage(p)
       PROVE  CalmInv'
  BY <1>19, CalmStays DEF OpenPage
<1>20. CASE Confirm
  BY <1>20, CalmStays DEF Confirm
<1>21. CASE PageGone
  BY <1>21, CalmStays DEF PageGone
<1>22. ASSUME NEW a \in {"adopt", "eject", "settings"}, UsbAction(a)
       PROVE  CalmInv'
  BY <1>22, CalmStays DEF UsbAction
<1>23. ASSUME NEW s \in Sticks, NEW p \in Paths, Plug(s, p)
       PROVE  CalmInv'
  BY <1>23 DEF Plug, Move, CalmInv
<1>24. ASSUME NEW p \in Paths, Pull(p)
       PROVE  CalmInv'
  BY <1>24 DEF Pull, Move, CalmInv
<1>25. CASE BackupStarts
  BY <1>25, CalmStays DEF BackupStarts
<1>26. CASE RestoreReads
  BY <1>26, CalmStays DEF RestoreReads
<1>27. CASE BackupEnds
  BY <1>27, CalmStays DEF BackupEnds
<1>28. CASE RestoreIdentity
  BY <1>28 DEF RestoreIdentity, CalmInv
<1>29. ASSUME NEW m \in {mounted, [t \in Targets |-> <<>>]}, HelperDies(m)
       PROVE  CalmInv'
  <2>1. pc' = Idle
    BY <1>29 DEF HelperDies
  <2> QED  BY <2>1, StepsAre DEF CalmInv, AsSeen, TableTrue, RightDisk, RightRole
<1>30. CASE UNCHANGED vars
  BY <1>30, CalmStays
<1> QED
  BY <1>1, <1>2, <1>3, <1>4, <1>5, <1>6, <1>7, <1>8, <1>9, <1>10, <1>11, <1>12, <1>13, <1>14, <1>15, <1>16,
     <1>17, <1>18, <1>19, <1>20, <1>21, <1>22, <1>23, <1>24, <1>25, <1>26, <1>27, <1>28, <1>29, <1>30
     DEF Next, Cycle, Format, Dashboard, People, Backups, Faults

\* A step that replaces a file system: wipefs on the path of the request at work.
LEMMA OnlyFormatErases ==
  ASSUME TypeOK, [Next]_vars, NEW s \in Sticks, content'[s].uuid # content[s].uuid
  PROVE  FormatErases /\ s = port[job.path]
<1> USE DEF world, files, snapshot, memory, history, vars
<1>1. ASSUME NEW p \in Paths, NEW m, Marks(p, m)
      PROVE  content'[s].uuid = content[s].uuid
  <2>1. content' = [content EXCEPT ![port[p]].device = deviceId, ![port[p]].stick = fresh + 1]
    BY <1>1 DEF Marks
  <2> QED  BY <2>1 DEF TypeOK
<1>2. ~FormatMounts
  <2>1. FormatMounts => job.path \in Paths /\ Marks(job.path, mounted)
    BY DEF FormatMounts, TypeOK, OnDisk
  <2> QED  BY <1>1, <2>1
<1>3. ~AdoptMounts
  <2>1. AdoptMounts => table[FOREIGN] \in Paths /\ Marks(table[FOREIGN], Umounted(mounted, FOREIGN))
    BY TargetsAre DEF AdoptMounts, TypeOK, APath
  <2> QED  BY <1>1, <2>1
<1>4. content' # content
  OBVIOUS
<1>5. FormatErases
  <2>1. ~(Dashboard \/ People \/ Backups \/ Faults \/ UNCHANGED vars)
    BY <1>4 DEF Dashboard, OpenPage, Confirm, PageGone, UsbAction, People, Plug, Pull,
                Backups, BackupStarts, RestoreReads, BackupEnds, Faults, RestoreIdentity, HelperDies
  <2>2. Cycle
    BY <2>1 DEF Next
  <2>3. ~(Look \/ (\E r \in batch : Take(r)) \/ FormatFinds \/ FormatRefused \/ AdoptLosesStick \/ StickJson \/ WorkFails)
    BY <1>4 DEF Look, Looks, Take, FormatFinds, FormatRefused, Fails, AdoptLosesStick, StickJson, WorkFails
  <2>4. ~(Eject \/ EjectHalf \/ ApplySettings \/ HandledRequests \/ Reconcile \/ ReconcileFails
          \/ (\E p \in Paths : MountStick(p)) \/ WriteStatus)
    BY <1>4 DEF Eject, EjectHalf, ApplySettings, HandledRequests, Reconcile, ReconcileFails, MountStick, WriteStatus
  <2> QED  BY <1>2, <1>3, <2>2, <2>3, <2>4 DEF Cycle, Format
<1>6. content' = [content EXCEPT ![port[job.path]] = [Blank EXCEPT !.uuid = fresh + 1]]
  BY <1>5 DEF FormatErases
<1> QED  BY <1>5, <1>6 DEF TypeOK

\* Whatever else was asked for, plugged, pulled or killed before: an undisturbed step erases only the
\* stick its request names by path and serial number, and the helper has it mounted nowhere
\* (find_disk(), do_format()).
THEOREM ErasesAsAsked == Spec => ErasedAsAsked
<1>1. TypeOK /\ EjectInv /\ CalmInv /\ [Next]_vars =>
        [\A s \in Sticks : Erased(s) /\ ~disturbed =>
           /\ job.stick = s
           /\ \A t \in Targets : Top(t) = NONE \/ port[Top(t)] # s]_vars
  <2> SUFFICES ASSUME TypeOK, EjectInv, CalmInv, [Next]_vars, NEW s \in Sticks, Erased(s), ~disturbed
               PROVE  job.stick = s /\ \A t \in Targets : Top(t) = NONE \/ port[Top(t)] # s
    OBVIOUS
  <2>1. FormatErases /\ s = port[job.path]
    BY OnlyFormatErases DEF Erased
  <2>2. pc = "erase" /\ job.path \in Paths /\ s # NONE
    BY <2>1, NoneAssumption DEF FormatErases, TypeOK, OnDisk
  <2>3. job.stick = s /\ \A t \in Targets : Top(t) # job.path
    BY <2>1, <2>2 DEF CalmInv, RightDisk
  <2>4. ASSUME NEW t \in Targets, Top(t) # NONE
        PROVE  port[Top(t)] # s
    <3>1. Top(t) \in Paths /\ Top(t) # job.path
      BY <2>3, <2>4, TopIs
    <3> QED  BY <2>1, <2>2, <3>1 DEF EjectInv, OneStickEach
  <2> QED  BY <2>3, <2>4
<1>2. Init => TypeOK /\ EjectInv /\ CalmInv
  BY TypeInit, EjectInit, CalmInit
<1>3. TypeOK /\ EjectInv /\ CalmInv /\ [Next]_vars => TypeOK' /\ EjectInv' /\ CalmInv'
  BY TypeNext, EjectNext, CalmNext
<1> QED  BY <1>1, <1>2, <1>3, PTL DEF Spec, ErasedAsAsked

\* Only write_status() writes status.json.
LEMMA OnlyWriteStatus ==
  ASSUME [Next]_vars, status' # status
  PROVE  WriteStatus
<1> USE DEF world, files, snapshot, memory, history, vars
<1>1. ~(Dashboard \/ People \/ Backups \/ Faults \/ UNCHANGED vars)
  BY DEF Dashboard, OpenPage, Confirm, PageGone, UsbAction, People, Plug, Pull,
         Backups, BackupStarts, RestoreReads, BackupEnds, Faults, RestoreIdentity, HelperDies
<1>2. Cycle
  BY <1>1 DEF Next
<1>3. ~(Look \/ (\E r \in batch : Take(r)) \/ Format \/ AdoptMounts \/ AdoptLosesStick \/ StickJson \/ WorkFails)
  BY DEF Look, Looks, Take, Format, FormatFinds, FormatRefused, FormatErases, FormatMounts, Marks, Fails,
         AdoptMounts, AdoptLosesStick, StickJson, WorkFails
<1>4. ~(Eject \/ EjectHalf \/ ApplySettings \/ HandledRequests \/ Reconcile \/ ReconcileFails
        \/ (\E p \in Paths : MountStick(p)))
  BY DEF Eject, EjectHalf, ApplySettings, HandledRequests, Reconcile, ReconcileFails, MountStick
<1> QED  BY <1>2, <1>3, <1>4 DEF Cycle

\* Whatever was set up, adopted, ejected, swapped or restored before: what an undisturbed cycle reports as
\* this device's stick is the one stick.json names, and the other one is not (reconcile(), mount_sticks()).
THEOREM RolesTrue == Spec => RolesReported
<1>1. TypeOK /\ CalmInv /\ [Next]_vars =>
        [status' # status /\ ~disturbed =>
           /\ status'.own # NONE => IsOwn(port[status'.own])
           /\ status'.foreign # NONE => ~IsOwn(port[status'.foreign])]_vars
  <2> SUFFICES ASSUME TypeOK, CalmInv, [Next]_vars, status' # status, ~disturbed
               PROVE  /\ status'.own # NONE => IsOwn(port[status'.own])
                      /\ status'.foreign # NONE => ~IsOwn(port[status'.foreign])
    OBVIOUS
  <2>1. WriteStatus
    BY OnlyWriteStatus
  <2>2. status'.own = Top(OWN) /\ status'.foreign = Top(FOREIGN) /\ pc = "mounting"
    BY <2>1 DEF WriteStatus, MountedInfo
  <2>3. \A t \in Targets : Top(t) # NONE => (IsOwn(port[Top(t)]) <=> t = OWN)
    BY <2>2 DEF CalmInv, RightRole
  <2> QED  BY <2>2, <2>3, TargetsAre
<1>2. Init => TypeOK /\ CalmInv
  BY TypeInit, CalmInit
<1>3. TypeOK /\ CalmInv /\ [Next]_vars => TypeOK' /\ CalmInv'
  BY TypeNext, CalmNext
<1> QED  BY <1>1, <1>2, <1>3, PTL DEF Spec, RolesReported

-----------------------------------------------------------------------------
(* Backups: types.                                                         *)

Directories == {"stick", "card", "safety"}
Stamps      == [pre : {Automatic, Before}, stamp : Nat, num : Nat \ {0}]
BackupFiles == [pre : {Automatic, Before}, stamp : Nat, num : Nat \ {0}, sum : {"own", "other", "none"}]
Moments     == [at : Nat, real : Nat] \cup {NULL}
\* where a run stands once it has a name for its file
Writing     == {"dump", "broken", "rename", "checksum", "verify", "rotate", "report"}

FilesOK == \A d \in Directories : Files(d) \in SUBSET BackupFiles /\ IsFiniteSet(Files(d))

StatusOK ==
  backupStatus \in [attempted : Nat, lastOk : Moments, lastFile : Stamps \cup {NULL}, error : BOOLEAN]

RunOK(p) ==
  /\ stage[p] # "idle" => dir[p] \in Directories
  /\ stage[p] \in Writing =>
       file[p] \in [pre : {Prefix(p)}, stamp : Nat, num : Nat \ {0}, mtime : Moments]
  /\ stage[p] \notin Writing => file[p] = NULL

BackupTypeOK ==
  /\ real \in Nat /\ wall \in Nat /\ present \in BOOLEAN /\ troubles \in Nat
  /\ FilesOK /\ StatusOK
  /\ stage \in [Procs -> {"idle", "name"} \cup Writing]
  /\ dir \in [Procs -> Directories \cup {NULL}] /\ DOMAIN file = Procs
  /\ \A p \in Procs : RunOK(p)

\* A finite set of numbers has a smallest one: a smallest counterexample would lose one element.
LEMMA FiniteMin ==
  ASSUME NEW S \in SUBSET Nat, IsFiniteSet(S), S # {}
  PROVE  \E x \in S : \A y \in S : x <= y
<1> DEFINE Least(T) == \E x \in T : \A y \in T : x <= y
           Bad == {T \in FiniteSubsetsOf(S) : T # {} /\ ~Least(T)}
<1>1. Bad = {}
  <2> SUFFICES ASSUME Bad # {} PROVE FALSE
    OBVIOUS
  <2>1. PICK T \in Bad : \A U \in Bad : ~(<<U, T>> \in StrictSubsetOrdering(S))
    <3>1. IsWellFoundedOn(StrictSubsetOrdering(S), FiniteSubsetsOf(S))
      BY FS_StrictSubsetOrderingWellFounded
    <3>2. Bad \subseteq FiniteSubsetsOf(S)
      OBVIOUS
    <3> HIDE DEF Bad
    <3> QED  BY <3>1, <3>2, WFMin
  <2>2. T \subseteq S /\ IsFiniteSet(T) /\ T # {} /\ ~Least(T)
    BY DEF FiniteSubsetsOf
  <2>3. PICK a \in T : a \in Nat
    BY <2>2
  <2> DEFINE U == T \ {a}
  <2>4. U \subseteq S /\ IsFiniteSet(U) /\ U # T
    BY <2>2, <2>3, FS_RemoveElement
  <2>5. <<U, T>> \in StrictSubsetOrdering(S) /\ U \in FiniteSubsetsOf(S)
    BY <2>2, <2>4 DEF StrictSubsetOrdering, FiniteSubsetsOf
  <2>6. U = {} \/ Least(U)
    BY <2>1, <2>5
  <2>7. CASE U = {}
    BY <2>2, <2>3, <2>7
  <2>8. CASE Least(U)
    <3>1. PICK x \in U : \A y \in U : x <= y
      BY <2>8
    <3>2. x \in Nat /\ x \in T /\ \A y \in T : y = a \/ x <= y
      BY <2>2, <3>1
    <3>3. CASE x <= a
      BY <2>2, <3>2, <3>3
    <3>4. CASE ~(x <= a)
      <4>1. \A y \in T : y \in Nat
        BY <2>2
      <4>2. \A y \in T : a <= y
        BY <2>3, <3>2, <3>4, <4>1
      <4> QED  BY <2>2, <2>3, <4>2
    <3> QED  BY <3>3, <3>4
  <2> QED  BY <2>6, <2>7, <2>8
<1>2. S \in FiniteSubsetsOf(S)
  BY DEF FiniteSubsetsOf
<1> QED  BY <1>1, <1>2

\* Of one number more than there are files, one is free: new_backup() finds a name.
LEMMA NameIsFree ==
  ASSUME NEW held, IsFiniteSet(held), NEW pre, NEW stamp
  PROVE  LET free == {n \in 1..Cardinality(held) + 1 : [pre |-> pre, stamp |-> stamp, num |-> n] \notin Names(held)}
             num  == CHOOSE n \in free : \A m \in free : n <= m
         IN num \in Nat \ {0} /\ num \in free
<1> DEFINE name(n) == [pre |-> pre, stamp |-> stamp, num |-> n]
           k == Cardinality(held)
           free == {n \in 1..k + 1 : name(n) \notin Names(held)}
           num == CHOOSE n \in free : \A m \in free : n <= m
<1>1. k \in Nat
  BY FS_CardinalityType
<1>2. free # {}
  <2> SUFFICES ASSUME free = {} PROVE FALSE
    OBVIOUS
  <2>1. \A n \in 1..k + 1 : \E f \in held : NameOf(f) = name(n)
    BY DEF Names
  <2> DEFINE g == [n \in 1..k + 1 |-> CHOOSE f \in held : NameOf(f) = name(n)]
  <2>2. \A n \in 1..k + 1 : g[n] \in held /\ NameOf(g[n]) = name(n)
    BY <2>1
  <2>3. g \in [1..k + 1 -> held]
    BY <2>2
  <2>4. \A m, n \in 1..k + 1 : g[m] = g[n] => m = n
    <3> SUFFICES ASSUME NEW m \in 1..k + 1, NEW n \in 1..k + 1, g[m] = g[n] PROVE m = n
      OBVIOUS
    <3>1. name(m) = name(n)
      BY <2>2
    <3>2. name(m).num = m /\ name(n).num = n
      OBVIOUS
    <3> QED  BY <3>1, <3>2
  <2> HIDE DEF g
  <2>5. IsFiniteSet(1..k + 1) /\ Cardinality(1..k + 1) = k + 1
    BY <1>1, FS_Interval
  <2> DEFINE R == 1..k + 1
  <2>6. IsFiniteSet(R) /\ Cardinality(held) < Cardinality(R) /\ g \in [R -> held]
    BY <1>1, <2>3, <2>5
  <2>7. \A m, n \in R : g[m] = g[n] => m = n
    BY <2>4
  <2> HIDE DEF R
  <2>8. \E m, n \in R : m # n /\ g[m] = g[n]
    BY <2>6, FS_PigeonHole
  <2> QED  BY <2>7, <2>8
<1>3. free \in SUBSET Nat /\ IsFiniteSet(free)
  <2>1. IsFiniteSet(1..k + 1)
    BY <1>1, FS_Interval
  <2>2. free \subseteq 1..k + 1 /\ 1..k + 1 \subseteq Nat
    BY <1>1
  <2> QED  BY <2>1, <2>2, FS_Subset
<1> HIDE DEF free
<1>4. \E n \in free : \A m \in free : n <= m
  BY <1>2, <1>3, FiniteMin
<1>5. num \in free
  BY <1>4
<1>6. num \in Nat \ {0}
  <2>1. num \in 1..k + 1
    BY <1>5 DEF free
  <2> HIDE DEF num
  <2> QED  BY <1>1, <2>1
<1> QED  BY <1>5, <1>6 DEF free

LEMMA PutIs ==
  ASSUME NEW d \in Directories, NEW F, Put(d, F)
  PROVE  /\ Files(d)' = F
         /\ \A e \in Directories : e # d => Files(e)' = Files(e)
BY DEF Put, Files, Directories

LEMMA FilesAlone ==
  ASSUME UNCHANGED <<stick, card, safety>>
  PROVE  \A e \in Directories : Files(e)' = Files(e)
BY DEF Files, Directories

LEMMA PathIs == ASSUME NEW d PROVE Path(d) \in Directories
BY DEF Path, Directories

RunsOK ==
  /\ stage \in [Procs -> {"idle", "name"} \cup Writing]
  /\ dir \in [Procs -> Directories \cup {NULL}] /\ DOMAIN file = Procs
  /\ \A p \in Procs : RunOK(p)

LEMMA RunsAlone == ASSUME RunsOK, UNCHANGED <<stage, dir, file>> PROVE RunsOK'
BY DEF RunsOK, RunOK

LEMMA EndsTyped == ASSUME RunsOK, NEW p \in Procs, Ends(p) PROVE RunsOK'
<1>1. /\ stage' = [stage EXCEPT ![p] = "idle"] /\ dir' = [dir EXCEPT ![p] = NULL] /\ file' = [file EXCEPT ![p] = NULL]
  BY DEF Ends, Goes
<1>2. stage' \in [Procs -> {"idle", "name"} \cup Writing] /\ dir' \in [Procs -> Directories \cup {NULL}] /\ DOMAIN file' = Procs
  BY <1>1 DEF RunsOK
<1>3. ASSUME NEW q \in Procs PROVE RunOK(q)'
  <2>1. CASE q = p
    <3>1. stage'[q] = "idle" /\ file'[q] = NULL
      BY <1>1, <2>1 DEF RunsOK
    <3> QED  BY <3>1 DEF RunOK, Writing
  <2>2. CASE q # p
    <3>1. stage'[q] = stage[q] /\ dir'[q] = dir[q] /\ file'[q] = file[q]
      BY <1>1, <2>2 DEF RunsOK
    <3> QED  BY <3>1 DEF RunsOK, RunOK
  <2> QED  BY <2>1, <2>2
<1> QED  BY <1>2, <1>3 DEF RunsOK

\* A run takes its next step with what it has.
LEMMA GoesTyped ==
  ASSUME RunsOK, NEW p \in Procs, NEW s \in Writing, stage[p] \in Writing, Goes(p, s), UNCHANGED <<dir, file>>
  PROVE  RunsOK'
<1>1. stage' = [stage EXCEPT ![p] = s] /\ dir' = dir /\ file' = file
  BY DEF Goes
<1>2. stage' \in [Procs -> {"idle", "name"} \cup Writing]
  BY <1>1 DEF RunsOK
<1>3. \A q \in Procs : stage'[q] = IF q = p THEN s ELSE stage[q]
  BY <1>1 DEF RunsOK
<1>4. s # "idle" /\ stage[p] # "idle"
  BY DEF Writing
<1>5. \A q \in Procs : RunOK(q)'
  BY <1>1, <1>3, <1>4 DEF RunsOK, RunOK
<1> QED  BY <1>1, <1>2, <1>5 DEF RunsOK

LEMMA BackupTypeInit == BackupInit => BackupTypeOK
<1> SUFFICES ASSUME BackupInit PROVE BackupTypeOK
  OBVIOUS
<1>1. real \in Nat /\ wall \in Nat /\ present \in BOOLEAN /\ troubles \in Nat
  BY ConstantAssumption DEF BackupInit
<1>2. FilesOK
  BY FS_EmptySet DEF BackupInit, FilesOK, Files
<1>3. StatusOK
  BY DEF BackupInit, StatusOK, Moments
<1>4. stage = [p \in Procs |-> "idle"] /\ dir = [p \in Procs |-> NULL] /\ file = [p \in Procs |-> NULL]
  BY DEF BackupInit
<1>5. RunsOK
  BY <1>4 DEF RunsOK, RunOK, Writing
<1> QED  BY <1>1, <1>2, <1>3, <1>5 DEF BackupTypeOK, RunsOK

LEMMA FilesTyped ==
  ASSUME FilesOK, NEW d \in Directories, NEW F \in SUBSET BackupFiles, IsFiniteSet(F), Put(d, F)
  PROVE  FilesOK'
<1>1. Files(d)' = F /\ \A e \in Directories : e # d => Files(e)' = Files(e)
  BY PutIs
<1> QED  BY <1>1 DEF FilesOK

LEMMA SmallerTyped ==
  ASSUME FilesOK, NEW d \in Directories, NEW F, F \subseteq Files(d), Put(d, F)
  PROVE  FilesOK'
<1>1. F \in SUBSET BackupFiles /\ IsFiniteSet(F)
  BY FS_Subset DEF FilesOK
<1> QED  BY <1>1, FilesTyped

LEMMA FilesAloneTyped == ASSUME FilesOK, UNCHANGED <<stick, card, safety>> PROVE FilesOK'
BY FilesAlone DEF FilesOK

LEMMA FailedTyped ==
  ASSUME BackupTypeOK, NEW p \in Procs, Failed(p)
  PROVE  RunsOK' /\ StatusOK'
<1>1. RunsOK'
  BY EndsTyped DEF BackupTypeOK, RunsOK, Failed
<1>2. StatusOK'
  BY DEF Failed, BackupTypeOK, StatusOK
<1> QED  BY <1>1, <1>2

\* what a run writes: its file, in place of whatever has its name
NewFile(p) ==
  LET same == {f \in Files(dir[p]) : NameOf(f) = NameOf(file[p])}
  IN [pre |-> file[p].pre, stamp |-> file[p].stamp, num |-> file[p].num,
      sum |-> IF \A f \in same : f.sum = "none" THEN "none" ELSE "other"]

LEMMA RenamesIs ==
  ASSUME BackupTypeOK, NEW p \in Procs, Renames(p)
  PROVE  /\ dir[p] \in Directories /\ NewFile(p) \in BackupFiles /\ NameOf(NewFile(p)) = NameOf(file[p])
         /\ Put(dir[p], (Files(dir[p]) \ Target(p)) \cup {NewFile(p)})
<1>1. stage[p] \in Writing /\ stage[p] # "idle"
  BY DEF Renames, Writing
<1>2. dir[p] \in Directories /\ file[p] \in [pre : {Prefix(p)}, stamp : Nat, num : Nat \ {0}, mtime : Moments]
  BY <1>1 DEF BackupTypeOK, RunOK
<1>3. file[p].pre \in {Automatic, Before} /\ file[p].stamp \in Nat /\ file[p].num \in Nat \ {0}
  BY <1>2 DEF Prefix
<1>4. PICK s \in {"none", "other"} :
        s = IF \A f \in {f \in Files(dir[p]) : NameOf(f) = NameOf(file[p])} : f.sum = "none" THEN "none" ELSE "other"
  OBVIOUS
<1>5. NewFile(p) = [pre |-> file[p].pre, stamp |-> file[p].stamp, num |-> file[p].num, sum |-> s]
  BY <1>4 DEF NewFile
<1>6. NewFile(p) \in BackupFiles
  BY <1>3, <1>5 DEF BackupFiles
<1>7. NameOf(NewFile(p)) = NameOf(file[p])
  BY <1>5 DEF NameOf
<1>8. Put(dir[p], (Files(dir[p]) \ Target(p)) \cup {NewFile(p)})
  BY DEF Renames, NewFile, Target
<1> QED  BY <1>2, <1>6, <1>7, <1>8

\* the files with this one's checksum written
Checked(p) == {IF f \in Target(p) THEN [f EXCEPT !.sum = "own"] ELSE f : f \in Files(dir[p])}

LEMMA CheckedIs ==
  ASSUME BackupTypeOK, NEW p \in Procs, dir[p] \in Directories
  PROVE  /\ Checked(p) \in SUBSET BackupFiles /\ IsFiniteSet(Checked(p))
         /\ \A g \in Checked(p) : \E f \in Files(dir[p]) :
              NameOf(g) = NameOf(f) /\ g.pre = f.pre /\ g.stamp = f.stamp /\ g.num = f.num
              /\ g.sum = IF f \in Target(p) THEN "own" ELSE f.sum
         /\ \A f \in Files(dir[p]) : \E g \in Checked(p) : NameOf(g) = NameOf(f)
<1> DEFINE c(f) == IF f \in Target(p) THEN [f EXCEPT !.sum = "own"] ELSE f
           D == Files(dir[p])
<1>1. D \in SUBSET BackupFiles /\ IsFiniteSet(D)
  BY DEF BackupTypeOK, FilesOK
<1>2. \A f \in D : /\ c(f) \in BackupFiles /\ c(f).pre = f.pre /\ c(f).stamp = f.stamp /\ c(f).num = f.num
                   /\ c(f).sum = IF f \in Target(p) THEN "own" ELSE f.sum
  BY <1>1 DEF BackupFiles
<1>3. \A f \in D : NameOf(c(f)) = NameOf(f)
  BY <1>2 DEF NameOf
<1>4. Checked(p) = {c(f) : f \in D}
  BY DEF Checked
<1> DEFINE g == [f \in D |-> c(f)]
<1> HIDE DEF c, D
<1>5. g \in Surjection(D, Checked(p))
  BY <1>4 DEF Surjection
<1>6. IsFiniteSet(Checked(p))
  BY <1>1, <1>5, FS_Surjection
<1>7. Checked(p) \in SUBSET BackupFiles
  BY <1>2, <1>4
<1>8. \A h \in Checked(p) : \E f \in D : NameOf(h) = NameOf(f) /\ h.pre = f.pre /\ h.stamp = f.stamp /\ h.num = f.num
                                         /\ h.sum = IF f \in Target(p) THEN "own" ELSE f.sum
  BY <1>2, <1>3, <1>4
<1>9. \A f \in D : \E h \in Checked(p) : NameOf(h) = NameOf(f)
  BY <1>3, <1>4
<1> QED  BY <1>6, <1>7, <1>8, <1>9 DEF D

LEMMA OccursTyped == ASSUME BackupTypeOK, Occurs \/ UNCHANGED troubles PROVE troubles' \in Nat
BY DEF BackupTypeOK, Occurs

\* the steps of a run that leave time and the stick alone
LEMMA RunTyped ==
  ASSUME BackupTypeOK, NEW p \in Procs, Run(p)
  PROVE  BackupTypeOK'
<1>T. /\ real \in Nat /\ wall \in Nat /\ present \in BOOLEAN /\ troubles \in Nat
      /\ FilesOK /\ StatusOK /\ RunsOK /\ RunOK(p)
  BY DEF BackupTypeOK, RunsOK
<1>S. SUFFICES troubles' \in Nat /\ FilesOK' /\ StatusOK' /\ RunsOK'
  <2>1. real' = real /\ wall' = wall /\ present' = present
    BY DEF Run, FindsStick, NoStick, MakesName, Dumps, Renames, WritesChecksum, ReadsBack, Rotates, Reports,
           RunFails, Refuses
  <2> QED  BY <1>T, <2>1 DEF BackupTypeOK, RunsOK
<1>1. CASE FindsStick(p)
  <2>1. troubles' \in Nat
    BY <1>1, <1>T, OccursTyped DEF FindsStick, Starts
  <2>2. FilesOK' /\ StatusOK'
    BY <1>1, <1>T, FilesAloneTyped DEF FindsStick, StatusOK
  <2>3. /\ stage' = [stage EXCEPT ![p] = "name"] /\ dir' = [dir EXCEPT ![p] = "stick"] /\ file' = file
        /\ stage[p] = "idle"
    BY <1>1 DEF FindsStick, Goes, Starts
  <2>4. file[p] = NULL
    BY <1>T, <2>3 DEF RunOK, Writing
  <2>5. \A q \in Procs : RunOK(q)'
    BY <1>T, <2>3, <2>4 DEF RunsOK, RunOK, Writing, Directories
  <2>6. RunsOK'
    BY <1>T, <2>3, <2>5 DEF RunsOK, Directories
  <2> QED  BY <2>1, <2>2, <2>6
<1>2. CASE NoStick(p)
  <2>1. troubles' \in Nat
    BY <1>2, <1>T, OccursTyped DEF NoStick, Starts
  <2>2. FilesOK' /\ RunsOK'
    BY <1>2, <1>T, FilesAloneTyped, RunsAlone DEF NoStick
  <2>3. StatusOK'
    BY <1>2, <1>T DEF NoStick, StatusOK
  <2> QED  BY <2>1, <2>2, <2>3
<1>3. CASE MakesName(p)
  <2>1. /\ troubles' = troubles /\ FilesOK' /\ StatusOK'
    BY <1>3, <1>T, FilesAloneTyped DEF MakesName, StatusOK
  <2> DEFINE to == Path(dir[p])
             name(n) == [pre |-> Prefix(p), stamp |-> wall, num |-> n]
             free == {n \in 1..Cardinality(Files(to)) + 1 : name(n) \notin Names(Files(to))}
             num == CHOOSE n \in free : \A m \in free : n <= m
  <2>2. to \in Directories /\ IsFiniteSet(Files(to))
    BY <1>T, PathIs DEF FilesOK
  <2>3. num \in Nat \ {0}
    <3>1. \A held : IsFiniteSet(held) =>
            LET f == {n \in 1..Cardinality(held) + 1 : name(n) \notin Names(held)}
            IN (CHOOSE n \in f : \A m \in f : n <= m) \in Nat \ {0}
      BY NameIsFree
    <3> QED  BY <2>2, <3>1
  <2>4. /\ stage' = [stage EXCEPT ![p] = "dump"] /\ dir' = [dir EXCEPT ![p] = to] /\ stage[p] = "name"
        /\ file' = [file EXCEPT ![p] = [pre |-> Prefix(p), stamp |-> wall, num |-> num, mtime |-> NULL]]
    BY <1>3 DEF MakesName, Goes
  <2> HIDE DEF to, num
  <2>5. [pre |-> Prefix(p), stamp |-> wall, num |-> num, mtime |-> NULL]
          \in [pre : {Prefix(p)}, stamp : Nat, num : Nat \ {0}, mtime : Moments]
    BY <1>T, <2>3 DEF Moments
  <2>6. /\ stage'[p] = "dump" /\ dir'[p] = to
        /\ file'[p] \in [pre : {Prefix(p)}, stamp : Nat, num : Nat \ {0}, mtime : Moments]
    BY <1>T, <2>4, <2>5 DEF RunsOK
  <2>7. RunOK(p)'
    BY <2>2, <2>6 DEF RunOK, Writing
  <2>8. \A q \in Procs : q # p => RunOK(q)'
    BY <1>T, <2>4 DEF RunsOK, RunOK
  <2>9. RunsOK'
    BY <1>T, <2>2, <2>4, <2>7, <2>8 DEF RunsOK, Writing
  <2> QED  BY <1>T, <2>1, <2>9
<1>4. CASE Dumps(p)
  <2>1. /\ troubles' = troubles /\ FilesOK' /\ StatusOK'
    BY <1>4, <1>T, FilesAloneTyped DEF Dumps, StatusOK
  <2>2. /\ stage' = [stage EXCEPT ![p] = "rename"] /\ dir' = dir /\ stage[p] = "dump"
        /\ file' = [file EXCEPT ![p].mtime = [at |-> wall, real |-> real]]
    BY <1>4 DEF Dumps, Goes
  <2>3. file[p] \in [pre : {Prefix(p)}, stamp : Nat, num : Nat \ {0}, mtime : Moments] /\ dir[p] \in Directories
    BY <1>T, <2>2 DEF RunOK, Writing
  <2>4. [at |-> wall, real |-> real] \in Moments
    BY <1>T DEF Moments
  <2>5. file'[p] \in [pre : {Prefix(p)}, stamp : Nat, num : Nat \ {0}, mtime : Moments]
    BY <1>T, <2>2, <2>3, <2>4 DEF RunsOK
  <2>6. RunOK(p)'
    BY <1>T, <2>2, <2>3, <2>5 DEF RunsOK, RunOK, Writing
  <2>7. \A q \in Procs : q # p => RunOK(q)'
    BY <1>T, <2>2 DEF RunsOK, RunOK
  <2>8. RunsOK'
    BY <1>T, <2>2, <2>6, <2>7 DEF RunsOK, Writing
  <2> QED  BY <1>T, <2>1, <2>8
<1>5. CASE Renames(p)
  <2>1. troubles' = troubles /\ StatusOK'
    BY <1>5, <1>T DEF Renames, StatusOK
  <2>2. RunsOK'
    BY <1>5, <1>T, GoesTyped DEF Renames, Writing
  <2>3. /\ dir[p] \in Directories /\ NewFile(p) \in BackupFiles
        /\ Put(dir[p], (Files(dir[p]) \ Target(p)) \cup {NewFile(p)})
    BY <1>5, RenamesIs
  <2>4. Files(dir[p]) \in SUBSET BackupFiles /\ IsFiniteSet(Files(dir[p]))
    BY <1>T, <2>3 DEF FilesOK
  <2>5. IsFiniteSet(Files(dir[p]) \ Target(p))
    BY <2>4, FS_Difference
  <2>6. IsFiniteSet((Files(dir[p]) \ Target(p)) \cup {NewFile(p)})
    BY <2>5, FS_AddElement
  <2>7. (Files(dir[p]) \ Target(p)) \cup {NewFile(p)} \in SUBSET BackupFiles
    BY <2>3, <2>4
  <2>8. FilesOK'
    BY <1>T, <2>3, <2>6, <2>7, FilesTyped
  <2> QED  BY <1>T, <2>1, <2>2, <2>8
<1>6. CASE WritesChecksum(p)
  <2>1. troubles' = troubles /\ StatusOK'
    BY <1>6, <1>T DEF WritesChecksum, StatusOK
  <2>2. RunsOK'
    BY <1>6, <1>T, GoesTyped DEF WritesChecksum, Writing
  <2>3. dir[p] \in Directories
    BY <1>6, <1>T DEF WritesChecksum, RunOK
  <2>4. Put(dir[p], Checked(p))
    BY <1>6 DEF WritesChecksum, Checked
  <2>5. FilesOK'
    BY <1>T, <2>3, <2>4, CheckedIs, FilesTyped
  <2> QED  BY <1>T, <2>1, <2>2, <2>5
<1>7. CASE ReadsBack(p)
  <2>1. troubles' = troubles /\ StatusOK' /\ FilesOK'
    BY <1>7, <1>T, FilesAloneTyped DEF ReadsBack, StatusOK
  <2>2. RunsOK'
    BY <1>7, <1>T, GoesTyped DEF ReadsBack, Writing
  <2> QED  BY <1>T, <2>1, <2>2
<1>8. CASE Rotates(p)
  <2>1. troubles' = troubles /\ StatusOK'
    BY <1>8, <1>T DEF Rotates, StatusOK
  <2>2. RunsOK'
    BY <1>8, <1>T, GoesTyped DEF Rotates, Writing
  <2>3. PICK d \in Directories : d = Path(dir[p])
    BY PathIs
  <2>4. Put(d, Rotated(p, Files(d))) /\ Rotated(p, Files(d)) \subseteq Files(d)
    BY <1>8, <2>3 DEF Rotates, Rotated
  <2>5. FilesOK'
    BY <1>T, <2>4, SmallerTyped
  <2> QED  BY <1>T, <2>1, <2>2, <2>5
<1>9. CASE Reports(p)
  <2>1. troubles' = troubles /\ FilesOK'
    BY <1>9, <1>T, FilesAloneTyped DEF Reports
  <2>2. RunsOK'
    BY <1>9, <1>T, EndsTyped DEF Reports
  <2>3. p # "restore" /\ stage[p] \in Writing
    BY <1>9 DEF Reports, Writing
  <2>4. file[p] \in [pre : {Prefix(p)}, stamp : Nat, num : Nat \ {0}, mtime : Moments]
    BY <1>T, <2>3 DEF RunOK
  <2>5. NameOf(file[p]) \in Stamps /\ file[p].mtime \in Moments
    BY <2>4 DEF NameOf, Stamps, Prefix
  <2>6. [attempted |-> wall, lastOk |-> file[p].mtime, lastFile |-> NameOf(file[p]), error |-> FALSE]
          \in [attempted : Nat, lastOk : Moments, lastFile : Stamps \cup {NULL}, error : BOOLEAN]
    BY <1>T, <2>5
  <2>7. StatusOK'
    BY <1>9, <1>T, <2>6 DEF Reports, StatusOK
  <2> QED  BY <1>T, <2>1, <2>2, <2>7
<1>10. CASE RunFails(p)
  <2>1. FilesOK' /\ troubles' \in Nat
    BY <1>10, <1>T, FilesAloneTyped, OccursTyped DEF RunFails
  <2>2. RunsOK' /\ StatusOK'
    BY <1>10, FailedTyped DEF RunFails
  <2> QED  BY <2>1, <2>2
<1>11. CASE Refuses(p)
  <2>1. troubles' \in Nat
    BY <1>11, OccursTyped DEF Refuses
  <2>2. RunsOK' /\ StatusOK'
    BY <1>11, FailedTyped DEF Refuses
  <2>3. dir[p] \in Directories
    BY <1>11, <1>T DEF Refuses, RunOK
  <2>4. Put(dir[p], Files(dir[p]) \ Target(p)) /\ Files(dir[p]) \ Target(p) \subseteq Files(dir[p])
    BY <1>11 DEF Refuses
  <2>5. FilesOK'
    BY <1>T, <2>3, <2>4, SmallerTyped
  <2> QED  BY <2>1, <2>2, <2>5
<1> QED
  BY <1>1, <1>2, <1>3, <1>4, <1>5, <1>6, <1>7, <1>8, <1>9, <1>10, <1>11 DEF Run

LEMMA BackupTypeNext == BackupTypeOK /\ [BackupNext]_backupVars => BackupTypeOK'
<1> SUFFICES ASSUME BackupTypeOK, [BackupNext]_backupVars PROVE BackupTypeOK'
  OBVIOUS
<1>T. /\ real \in Nat /\ wall \in Nat /\ present \in BOOLEAN /\ troubles \in Nat
      /\ FilesOK /\ StatusOK /\ RunsOK
  BY DEF BackupTypeOK, RunsOK
<1>1. ASSUME NEW p \in Procs, Run(p) PROVE BackupTypeOK'
  BY <1>1, RunTyped
<1>2. CASE FindsCard
  <2>1. /\ real' = real /\ wall' = wall /\ present' = present /\ file' = file
        /\ stage' = [stage EXCEPT !["restore"] = "name"] /\ dir' = [dir EXCEPT !["restore"] = "safety"]
        /\ stage["restore"] = "idle" /\ "restore" \in Procs
    BY <1>2 DEF FindsCard, Goes, Starts, Procs
  <2>2. troubles' \in Nat
    BY <1>2, OccursTyped DEF FindsCard, Starts
  <2>3. StatusOK'
    BY <1>2, <1>T DEF FindsCard, StatusOK
  <2>4. FilesOK'
    <3>1. Put("safety", {})
      BY <1>2 DEF FindsCard, Put
    <3> QED  BY <1>T, <3>1, SmallerTyped DEF Directories
  <2>5. \A q \in Procs : RunOK(q)'
    BY <1>T, <2>1 DEF RunsOK, RunOK, Writing, Directories
  <2>6. RunsOK'
    BY <1>T, <2>1, <2>5 DEF RunsOK, Directories
  <2> QED  BY <1>T, <2>1, <2>2, <2>3, <2>4, <2>6 DEF BackupTypeOK, RunsOK
<1>3. CASE Restores
  <2>1. RunsOK'
    BY <1>3, <1>T, EndsTyped DEF Restores, Procs
  <2>2. FilesOK'
    BY <1>3, <1>T, FilesAloneTyped DEF Restores
  <2> QED  BY <1>3, <1>T, <2>1, <2>2 DEF Restores, BackupTypeOK, RunsOK, StatusOK
<1>4. CASE PullsStick
  <2>1. /\ stage' = [p \in Procs |-> IF stage[p] = "dump" /\ dir[p] = "stick" THEN "broken" ELSE stage[p]]
        /\ dir' = dir /\ file' = file /\ present' = FALSE /\ real' = real /\ wall' = wall
    BY <1>4 DEF PullsStick
  <2>2. \A q \in Procs : RunOK(q)'
    BY <1>T, <2>1 DEF RunsOK, RunOK, Writing
  <2>3. RunsOK'
    BY <1>T, <2>1, <2>2 DEF RunsOK, Writing
  <2>4. FilesOK' /\ StatusOK' /\ troubles' \in Nat
    BY <1>4, <1>T, FilesAloneTyped, OccursTyped DEF PullsStick, StatusOK
  <2> QED  BY <1>T, <2>1, <2>3, <2>4 DEF BackupTypeOK, RunsOK
<1>5. CASE PlugsStick
  <2>1. UNCHANGED <<real, wall, stick, card, safety, backupStatus, stage, dir, file, troubles>> /\ present' = TRUE
    BY <1>5 DEF PlugsStick
  <2>2. FilesOK' /\ RunsOK' /\ StatusOK'
    BY <1>T, <2>1, FilesAloneTyped, RunsAlone DEF StatusOK
  <2> QED  BY <1>T, <2>1, <2>2 DEF BackupTypeOK, RunsOK
<1>9. CASE Tick
  <2>1. UNCHANGED <<present, stick, card, safety, backupStatus, stage, dir, file, troubles>> /\ real' = real + 1 /\ wall' = wall + 1
    BY <1>9 DEF Tick
  <2>2. FilesOK' /\ RunsOK' /\ StatusOK'
    BY <1>T, <2>1, FilesAloneTyped, RunsAlone DEF StatusOK
  <2>3. real' \in Nat /\ wall' \in Nat
    BY <1>T, <2>1
  <2> QED  BY <1>T, <2>1, <2>2, <2>3 DEF BackupTypeOK, RunsOK
<1>6. CASE SetsClock
  <2>1. FilesOK' /\ RunsOK' /\ StatusOK' /\ troubles' \in Nat
    BY <1>6, <1>T, FilesAloneTyped, RunsAlone, OccursTyped DEF SetsClock, StatusOK
  <2>2. wall' \in Nat /\ real' = real /\ present' = present
    BY <1>6 DEF SetsClock
  <2> QED  BY <1>T, <2>1, <2>2 DEF BackupTypeOK, RunsOK
<1>7. CASE Dies
  <2>1. FilesOK' /\ StatusOK' /\ troubles' \in Nat
    BY <1>7, <1>T, FilesAloneTyped, OccursTyped DEF Dies, StatusOK
  <2>2. stage' = [p \in Procs |-> "idle"] /\ dir' = [p \in Procs |-> NULL] /\ file' = [p \in Procs |-> NULL]
    BY <1>7 DEF Dies
  <2>3. RunsOK'
    BY <2>2 DEF RunsOK, RunOK, Writing
  <2> QED  BY <1>7, <1>T, <2>1, <2>3 DEF Dies, BackupTypeOK, RunsOK
<1>8. CASE UNCHANGED backupVars
  <2>1. FilesOK' /\ RunsOK' /\ StatusOK'
    BY <1>8, <1>T, FilesAloneTyped, RunsAlone DEF backupVars, StatusOK
  <2> QED  BY <1>8, <1>T, <2>1 DEF backupVars, BackupTypeOK, RunsOK
<1> QED
  BY <1>1, <1>2, <1>3, <1>4, <1>5, <1>6, <1>7, <1>8, <1>9 DEF BackupNext, World

\* Every file, status and run keeps its type, and new_backup() always finds a name that is free.
THEOREM BackupsTyped == BackupSpec => []BackupTypeOK
<1> QED  BY BackupTypeInit, BackupTypeNext, PTL DEF BackupSpec

-----------------------------------------------------------------------------
(* HonestStatus.                                                           *)

Late  == {"verify", "rotate", "report"}
Named == {"checksum", "verify", "rotate", "report"}

\* A run keeps to the stick, a restore to the stick or before-restore/: the card takes a gap.
Placed ==
  Card \notin gap =>
    \A p \in Procs : stage[p] # "idle" => dir[p] \in {"stick", "safety"} /\ (p # "restore" => dir[p] = "stick")

NamesDiffer ==
  Collision \notin gap =>
    \A p, q \in Procs : p # q /\ file[p] # NULL /\ file[q] # NULL => NameOf(file[p]) # NameOf(file[q])

\* What a run has read back has its own checksum.
Whole ==
  gap \cap {Card, Collision} = {} =>
    \A p \in Procs : stage[p] \in Late => \A f \in Target(p) : f.sum = "own"

LEMMA NamedHasFile ==
  ASSUME NEW p \in Procs, NEW f \in [pre : {Prefix(p)}, stamp : Nat, num : Nat \ {0}, mtime : Moments]
  PROVE  f # NULL /\ f.pre = Prefix(p)
<1>1. Prefix(p) \in {"coffeepy", "before-restore"}
  BY DEF Prefix, Automatic, Before
<1>2. f \in [pre : {"coffeepy", "before-restore"}, stamp : Nat, num : Nat, mtime : [at : Nat, real : Nat] \cup {NULL}]
  BY <1>1 DEF Moments
<1> QED  BY <1>2, NullAssumption

LEMMA GapGrows == ASSUME [BackupNext]_backupVars PROVE gap \subseteq gap'
<1>1. CASE \E p \in Procs : Run(p)
  <2>1. PICK p \in Procs : Run(p)
    BY <1>1
  <2> QED  BY <2>1 DEF Run, FindsStick, NoStick, MakesName, Dumps, Renames, WritesChecksum, ReadsBack, Rotates,
                   Reports, RunFails, Refuses
<1>2. CASE FindsCard \/ Restores \/ World
  BY <1>2 DEF FindsCard, Restores, World, PullsStick, PlugsStick, Tick, SetsClock, Dies
<1>3. CASE UNCHANGED backupVars
  BY <1>3 DEF backupVars
<1> QED  BY <1>1, <1>2, <1>3 DEF BackupNext

\* A step of one run leaves where the others stand.
LEMMA OthersAlone ==
  ASSUME BackupTypeOK, NEW p \in Procs, Run(p), NEW q \in Procs, q # p
  PROVE  stage'[q] = stage[q] /\ dir'[q] = dir[q] /\ file'[q] = file[q]
<1>T. RunsOK
  BY DEF BackupTypeOK, RunsOK
<1>1. CASE FindsStick(p) \/ NoStick(p) \/ Dumps(p) \/ Renames(p) \/ WritesChecksum(p) \/ ReadsBack(p) \/ Rotates(p)
  BY <1>1, <1>T DEF FindsStick, NoStick, Dumps, Renames, WritesChecksum, ReadsBack, Rotates, Goes, RunsOK
<1>2. CASE MakesName(p)
  BY <1>2, <1>T DEF MakesName, Goes, RunsOK
<1>3. CASE Reports(p) \/ RunFails(p) \/ Refuses(p)
  BY <1>3, <1>T DEF Reports, RunFails, Refuses, Failed, Ends, Goes, RunsOK
<1> QED  BY <1>1, <1>2, <1>3 DEF Run

\* the same for what only a restore and the world do
LEMMA WorldShape ==
  ASSUME BackupTypeOK, FindsCard \/ Restores \/ World \/ UNCHANGED backupVars
  PROVE  /\ \A e \in Directories : Files(e)' \subseteq Files(e)
         /\ \A p \in Procs : stage'[p] \in Writing =>
              /\ file'[p] = file[p] /\ dir'[p] = dir[p]
              /\ stage'[p] = stage[p] \/ (stage[p] = "dump" /\ stage'[p] = "broken")
<1>T. RunsOK /\ \A e \in Directories : Files(e) \subseteq Files(e)
  BY DEF BackupTypeOK, RunsOK
<1>1. CASE FindsCard
  <2>1. safety' = {} /\ stick' = stick /\ card' = card
    BY <1>1 DEF FindsCard
  <2>2. \A e \in Directories : Files(e)' \subseteq Files(e)
    BY <2>1 DEF Directories, Files
  <2>3. /\ stage' = [stage EXCEPT !["restore"] = "name"] /\ dir' = [dir EXCEPT !["restore"] = "safety"]
        /\ file' = file
    BY <1>1 DEF FindsCard, Goes
  <2> QED  BY <1>T, <2>2, <2>3 DEF RunsOK, Writing
<1>2. CASE Restores
  <2>1. stick' = stick /\ card' = card /\ safety' = safety
    BY <1>2 DEF Restores
  <2>2. /\ stage' = [stage EXCEPT !["restore"] = "idle"] /\ dir' = [dir EXCEPT !["restore"] = NULL]
        /\ file' = [file EXCEPT !["restore"] = NULL]
    BY <1>2 DEF Restores, Ends, Goes
  <2> QED  BY <1>T, <2>1, <2>2 DEF RunsOK, Writing, Files
<1>3. CASE PullsStick
  <2>1. stick' = stick /\ card' = card /\ safety' = safety /\ dir' = dir /\ file' = file
    BY <1>3 DEF PullsStick
  <2>2. stage' = [p \in Procs |-> IF stage[p] = "dump" /\ dir[p] = "stick" THEN "broken" ELSE stage[p]]
    BY <1>3 DEF PullsStick
  <2> QED  BY <1>T, <2>1, <2>2 DEF RunsOK, Writing, Files
<1>4. CASE PlugsStick \/ Tick \/ SetsClock \/ UNCHANGED backupVars
  <2>1. stick' = stick /\ card' = card /\ safety' = safety /\ dir' = dir /\ file' = file /\ stage' = stage
    BY <1>4 DEF PlugsStick, Tick, SetsClock, backupVars
  <2> QED  BY <1>T, <2>1 DEF Files
<1>5. CASE Dies
  <2>1. stick' = stick /\ card' = card /\ safety' = safety /\ stage' = [p \in Procs |-> "idle"]
    BY <1>5 DEF Dies
  <2> QED  BY <1>T, <2>1 DEF Files, Writing
<1> QED  BY <1>1, <1>2, <1>3, <1>4, <1>5 DEF World

\* Only renames and checksums add to a directory; only they bring a run's own file into one.
LEMMA RunShape ==
  ASSUME BackupTypeOK, NEW p \in Procs, Run(p), ~Renames(p), ~WritesChecksum(p)
  PROVE  /\ \A e \in Directories : Files(e)' \subseteq Files(e)
         /\ \A q \in Procs : stage'[q] \in Named =>
              stage[q] \in Named /\ file'[q] = file[q] /\ dir'[q] = dir[q] /\ (stage'[q] \in Late => stage[q] \in Late)
<1>T. RunsOK /\ RunOK(p) /\ \A e \in Directories : Files(e) \subseteq Files(e)
  BY DEF BackupTypeOK, RunsOK
<1>S. SUFFICES /\ \A e \in Directories : Files(e)' \subseteq Files(e)
               /\ stage'[p] \in Named =>
                    stage[p] \in Named /\ file'[p] = file[p] /\ dir'[p] = dir[p]
                    /\ (stage'[p] \in Late => stage[p] \in Late)
  <2>1. \A q \in Procs : q # p => stage'[q] = stage[q] /\ dir'[q] = dir[q] /\ file'[q] = file[q]
    BY OthersAlone
  <2> QED  BY <2>1
<1>1. CASE FindsStick(p) \/ MakesName(p) \/ Dumps(p)
  <2>1. stage'[p] \in {"name", "dump", "rename"}
    BY <1>1, <1>T DEF FindsStick, MakesName, Dumps, Goes, RunsOK
  <2>2. stick' = stick /\ card' = card /\ safety' = safety
    BY <1>1 DEF FindsStick, MakesName, Dumps
  <2> QED  BY <1>T, <2>1, <2>2 DEF Files, Named
<1>2. CASE NoStick(p)
  <2>1. stick' = stick /\ card' = card /\ safety' = safety /\ stage' = stage /\ dir' = dir /\ file' = file
    BY <1>2 DEF NoStick
  <2> QED  BY <1>T, <2>1 DEF Files
<1>3. CASE ReadsBack(p)
  <2>1. /\ stick' = stick /\ card' = card /\ safety' = safety /\ dir' = dir /\ file' = file
        /\ stage[p] = "verify" /\ stage'[p] = "rotate"
    BY <1>3, <1>T DEF ReadsBack, Goes, RunsOK
  <2> QED  BY <1>T, <2>1 DEF Files, Named, Late
<1>4. CASE Rotates(p)
  <2>1. dir' = dir /\ file' = file /\ stage[p] = "rotate" /\ stage'[p] = "report"
    BY <1>4, <1>T DEF Rotates, Goes, RunsOK
  <2>2. Put(Path(dir[p]), Rotated(p, Files(Path(dir[p]))))
    BY <1>4 DEF Rotates
  <2>3. Path(dir[p]) \in Directories /\ Rotated(p, Files(Path(dir[p]))) \subseteq Files(Path(dir[p]))
    BY PathIs DEF Rotated
  <2>4. \A e \in Directories : Files(e)' \subseteq Files(e)
    BY <2>2, <2>3, PutIs
  <2> QED  BY <2>1, <2>4 DEF Named, Late
<1>5. CASE Reports(p) \/ RunFails(p)
  <2>1. stick' = stick /\ card' = card /\ safety' = safety /\ stage'[p] = "idle"
    BY <1>5, <1>T DEF Reports, RunFails, Failed, Ends, Goes, RunsOK
  <2> QED  BY <1>T, <2>1 DEF Files, Named
<1>6. CASE Refuses(p)
  <2>1. stage'[p] = "idle" /\ stage[p] = "verify" /\ Put(dir[p], Files(dir[p]) \ Target(p))
    BY <1>6, <1>T DEF Refuses, Failed, Ends, Goes, RunsOK
  <2>2. dir[p] \in Directories
    BY <1>T, <2>1 DEF RunOK
  <2>3. \A e \in Directories : Files(e)' \subseteq Files(e)
    BY <2>1, <2>2, PutIs
  <2> QED  BY <2>1, <2>3 DEF Named
<1> QED  BY <1>1, <1>2, <1>3, <1>4, <1>5, <1>6 DEF Run

LEMMA PlacedStep ==
  ASSUME BackupTypeOK, Placed, [BackupNext]_backupVars
  PROVE  Placed'
<1> SUFFICES ASSUME Card \notin gap', NEW p \in Procs, stage'[p] # "idle"
             PROVE  dir'[p] \in {"stick", "safety"} /\ (p # "restore" => dir'[p] = "stick")
  BY DEF Placed
<1>1. stage[p] # "idle" => dir[p] \in {"stick", "safety"} /\ (p # "restore" => dir[p] = "stick")
  BY GapGrows DEF Placed
<1>T. RunsOK
  BY DEF BackupTypeOK, RunsOK
<1>2. CASE Run(p)
  <2>1. CASE FindsStick(p)
    BY <1>T, <2>1 DEF FindsStick, RunsOK
  <2>2. CASE MakesName(p)
    <3> DEFINE to == Path(dir[p])
    <3>1. dir' = [dir EXCEPT ![p] = to] /\ (to # dir[p] => Card \in gap') /\ stage[p] = "name"
      BY <2>2 DEF MakesName
    <3> HIDE DEF to
    <3>2. to = dir[p] /\ dir'[p] = dir[p]
      BY <1>T, <3>1 DEF RunsOK
    <3> QED  BY <1>1, <3>1, <3>2
  <2>3. CASE NoStick(p)
    BY <1>1, <2>3 DEF NoStick
  <2>4. CASE Dumps(p) \/ Renames(p) \/ WritesChecksum(p) \/ ReadsBack(p) \/ Rotates(p)
    <3>1. stage[p] # "idle" /\ dir' = dir
      BY <2>4 DEF Dumps, Renames, WritesChecksum, ReadsBack, Rotates
    <3> QED  BY <1>1, <3>1
  <2>5. CASE Reports(p) \/ RunFails(p) \/ Refuses(p)
    <3>1. stage' = [stage EXCEPT ![p] = "idle"]
      BY <2>5 DEF Reports, RunFails, Refuses, Failed, Ends, Goes
    <3> QED  BY <1>T, <3>1 DEF RunsOK
  <2> QED  BY <1>2, <2>1, <2>2, <2>3, <2>4, <2>5 DEF Run
<1>3. CASE \E q \in Procs : q # p /\ Run(q)
  <2>1. stage'[p] = stage[p] /\ dir'[p] = dir[p]
    BY <1>3, OthersAlone
  <2> QED  BY <1>1, <2>1
<1>4. CASE FindsCard
  <2>1. stage' = [stage EXCEPT !["restore"] = "name"] /\ dir' = [dir EXCEPT !["restore"] = "safety"]
    BY <1>4 DEF FindsCard, Goes
  <2> QED  BY <1>1, <1>T, <2>1 DEF RunsOK
<1>5. CASE Restores
  <2>1. stage' = [stage EXCEPT !["restore"] = "idle"] /\ dir' = [dir EXCEPT !["restore"] = NULL]
    BY <1>5 DEF Restores, Ends, Goes
  <2> QED  BY <1>1, <1>T, <2>1 DEF RunsOK
<1>6. CASE PullsStick
  <2>1. dir' = dir /\ (stage'[p] # "idle" => stage[p] # "idle")
    BY <1>6 DEF PullsStick
  <2> QED  BY <1>1, <2>1
<1>7. CASE PlugsStick \/ Tick \/ SetsClock \/ UNCHANGED backupVars
  <2>1. dir' = dir /\ stage' = stage
    BY <1>7 DEF PlugsStick, Tick, SetsClock, backupVars
  <2> QED  BY <1>1, <2>1
<1>8. CASE Dies
  BY <1>8 DEF Dies
<1> QED  BY <1>2, <1>3, <1>4, <1>5, <1>6, <1>7, <1>8 DEF BackupNext, World

\* Only MakesName gives a run a name.
LEMMA NameKept ==
  ASSUME BackupTypeOK, [BackupNext]_backupVars, NEW q \in Procs, ~MakesName(q), file'[q] # NULL
  PROVE  file[q] # NULL /\ NameOf(file'[q]) = NameOf(file[q])
<1>T. RunsOK /\ RunOK(q)
  BY DEF BackupTypeOK, RunsOK
<1>1. CASE Run(q)
  <2>1. CASE Dumps(q)
    <3>1. file[q] \in [pre : {Prefix(q)}, stamp : Nat, num : Nat \ {0}, mtime : Moments]
      BY <1>T, <2>1 DEF Dumps, RunOK, Writing
    <3>2. file[q] # NULL
      BY <3>1, NamedHasFile
    <3>3. file'[q] = [file[q] EXCEPT !.mtime = [at |-> wall, real |-> real]]
      BY <1>T, <2>1 DEF Dumps, RunsOK
    <3> QED  BY <3>1, <3>2, <3>3 DEF NameOf
  <2>2. CASE FindsStick(q) \/ NoStick(q) \/ Renames(q) \/ WritesChecksum(q) \/ ReadsBack(q) \/ Rotates(q)
    BY <2>2 DEF FindsStick, NoStick, Renames, WritesChecksum, ReadsBack, Rotates
  <2>3. CASE Reports(q) \/ RunFails(q) \/ Refuses(q)
    <3>1. file' = [file EXCEPT ![q] = NULL]
      BY <2>3 DEF Reports, RunFails, Refuses, Failed, Ends, Goes
    <3> QED  BY <1>T, <3>1 DEF RunsOK
  <2> QED  BY <1>1, <2>1, <2>2, <2>3 DEF Run
<1>2. CASE \E p \in Procs : p # q /\ Run(p)
  BY <1>2, OthersAlone
<1>3. CASE FindsCard \/ PullsStick \/ PlugsStick \/ Tick \/ SetsClock \/ UNCHANGED backupVars
  BY <1>3 DEF FindsCard, PullsStick, PlugsStick, Tick, SetsClock, backupVars
<1>4. CASE Restores
  <2>1. file' = [file EXCEPT !["restore"] = NULL]
    BY <1>4 DEF Restores, Ends
  <2> QED  BY <1>T, <2>1 DEF RunsOK
<1>5. CASE Dies
  BY <1>5 DEF Dies
<1> QED  BY <1>1, <1>2, <1>3, <1>4, <1>5 DEF BackupNext, World

\* Two runs with one name are a gap: MakesName() looks at what the others write.
LEMMA NamesDifferStep ==
  ASSUME BackupTypeOK, NamesDiffer, [BackupNext]_backupVars
  PROVE  NamesDiffer'
<1> SUFFICES ASSUME Collision \notin gap',
                    NEW p \in Procs, NEW q \in Procs, p # q, file'[p] # NULL, file'[q] # NULL
             PROVE  NameOf(file'[p]) # NameOf(file'[q])
  BY DEF NamesDiffer
<1>T. RunsOK /\ (file[p] # NULL /\ file[q] # NULL => NameOf(file[p]) # NameOf(file[q]))
  BY GapGrows DEF NamesDiffer, BackupTypeOK, RunsOK
<1>1. ASSUME NEW a \in Procs, NEW b \in Procs, a # b, MakesName(a), file'[b] # NULL
      PROVE  NameOf(file'[a]) # NameOf(file'[b])
  <2>1. file'[b] = file[b]
    BY <1>1, OthersAlone DEF Run
  <2> DEFINE to == Path(dir[a])
             name(n) == [pre |-> Prefix(a), stamp |-> wall, num |-> n]
             free == {n \in 1..Cardinality(Files(to)) + 1 : name(n) \notin Names(Files(to))}
             num == CHOOSE n \in free : \A m \in free : n <= m
  <2>2. /\ file' = [file EXCEPT ![a] = [pre |-> Prefix(a), stamp |-> wall, num |-> num, mtime |-> NULL]]
        /\ (\E r \in Procs \ {a} : file[r] # NULL /\ NameOf(file[r]) = name(num)) => Collision \in gap'
    BY <1>1 DEF MakesName
  <2> HIDE DEF num
  <2>3. NameOf(file'[a]) = name(num)
    <3>1. file'[a] = [pre |-> Prefix(a), stamp |-> wall, num |-> num, mtime |-> NULL]
      BY <1>T, <2>2 DEF RunsOK
    <3> QED  BY <3>1 DEF NameOf
  <2> HIDE DEF name
  <2>4. NameOf(file[b]) # name(num)
    BY <1>1, <2>1, <2>2
  <2> QED  BY <2>1, <2>3, <2>4
<1>2. CASE MakesName(p)
  BY <1>1, <1>2
<1>3. CASE MakesName(q)
  BY <1>1, <1>3
<1>4. CASE ~MakesName(p) /\ ~MakesName(q)
  <2>1. file[p] # NULL /\ NameOf(file'[p]) = NameOf(file[p])
    BY <1>4, NameKept
  <2>2. file[q] # NULL /\ NameOf(file'[q]) = NameOf(file[q])
    BY <1>4, NameKept
  <2> QED  BY <1>T, <2>1, <2>2
<1> QED  BY <1>2, <1>3, <1>4

\* A run that has its file: its name and directory.
LEMMA LateHas ==
  ASSUME BackupTypeOK, NEW p \in Procs, stage[p] \in Named \cup {"rename"}
  PROVE  /\ dir[p] \in Directories /\ file[p] # NULL /\ file[p].pre = Prefix(p)
         /\ file[p].stamp \in Nat /\ file[p].num \in Nat \ {0}
<1>1. dir[p] \in Directories /\ file[p] \in [pre : {Prefix(p)}, stamp : Nat, num : Nat \ {0}, mtime : Moments]
  BY DEF BackupTypeOK, RunOK, Named, Writing
<1> QED  BY <1>1, NamedHasFile

\* Another run's rename and checksum change nothing of what was read back: they have other names.
LEMMA WholeStep ==
  ASSUME BackupTypeOK, NamesDiffer, Whole, [BackupNext]_backupVars
  PROVE  Whole'
<1> SUFFICES ASSUME gap' \cap {Card, Collision} = {}, NEW p \in Procs, stage'[p] \in Late, NEW f \in Target(p)'
             PROVE  f.sum = "own"
  BY DEF Whole
<1>T. /\ stage[p] \in Late => \A g \in Target(p) : g.sum = "own"
      /\ \A q \in Procs : q # p /\ file[p] # NULL /\ file[q] # NULL => NameOf(file[p]) # NameOf(file[q])
  BY GapGrows DEF Whole, NamesDiffer
<1>F. f \in Files(dir[p])' /\ NameOf(f) = NameOf(file'[p])
  BY DEF Target, NameOf
<1>1. CASE \E q \in Procs : Renames(q)
  <2>1. PICK q \in Procs : Renames(q)
    BY <1>1
  <2>2. /\ dir[q] \in Directories /\ NameOf(NewFile(q)) = NameOf(file[q])
        /\ Put(dir[q], (Files(dir[q]) \ Target(q)) \cup {NewFile(q)})
    BY <2>1, RenamesIs
  <2>3. stage'[q] = "checksum" /\ stage[q] = "rename" /\ dir' = dir /\ file' = file
    BY <2>1 DEF Renames, Goes, BackupTypeOK
  <2>4. q # p
    BY <2>3 DEF Late
  <2>5. stage[p] \in Late
    BY <2>1, <2>4, OthersAlone DEF Run
  <2>6. NameOf(file[p]) # NameOf(file[q]) /\ dir[p] \in Directories
    BY <1>T, <2>3, <2>4, <2>5, LateHas DEF Named, Late
  <2>7. f \in Files(dir[p])
    <3>1. Files(dir[q])' = (Files(dir[q]) \ Target(q)) \cup {NewFile(q)}
          /\ \A e \in Directories : e # dir[q] => Files(e)' = Files(e)
      <4> DEFINE F == (Files(dir[q]) \ Target(q)) \cup {NewFile(q)}
      <4>1. Put(dir[q], F) /\ dir[q] \in Directories
        BY <2>2
      <4> HIDE DEF F
      <4>2. Files(dir[q])' = F /\ \A e \in Directories : e # dir[q] => Files(e)' = Files(e)
        BY <4>1, <2>3, PutIs
      <4> QED  BY <4>2 DEF F
    <3>2. f \in Files(dir[p]) \/ f = NewFile(q)
      BY <1>F, <2>3, <2>6, <3>1
    <3> QED  BY <1>F, <2>2, <2>3, <2>6, <3>2
  <2> QED  BY <1>F, <1>T, <2>3, <2>5, <2>7 DEF Target
<1>2. CASE \E q \in Procs : WritesChecksum(q)
  <2>1. PICK q \in Procs : WritesChecksum(q)
    BY <1>2
  <2>2. stage'[q] = "verify" /\ stage[q] = "checksum" /\ dir' = dir /\ file' = file /\ Put(dir[q], Checked(q))
    BY <2>1 DEF WritesChecksum, Goes, BackupTypeOK, Checked
  <2>3. dir[q] \in Directories
    BY <2>2, LateHas DEF Named
  <2>4. \A g \in Checked(q) : \E h \in Files(dir[q]) : NameOf(g) = NameOf(h)
                                                    /\ g.sum = IF h \in Target(q) THEN "own" ELSE h.sum
    BY <2>3, CheckedIs
  <2>5. Files(dir[q])' = Checked(q) /\ \A e \in Directories : e # dir[q] => Files(e)' = Files(e)
    BY <2>2, <2>3, PutIs
  <2>6. CASE q = p
    <3>1. PICK h \in Files(dir[q]) : NameOf(f) = NameOf(h) /\ f.sum = IF h \in Target(q) THEN "own" ELSE h.sum
      BY <1>F, <2>2, <2>4, <2>5, <2>6
    <3>2. h \in Target(q)
      BY <1>F, <2>2, <2>6, <3>1 DEF Target
    <3> QED  BY <3>1, <3>2
  <2>7. CASE q # p
    <3>1. stage[p] \in Late
      BY <2>1, <2>7, OthersAlone DEF Run
    <3>2. dir[p] \in Directories
      BY <3>1, LateHas DEF Named, Late
    <3>3. CASE dir[p] = dir[q]
      <4>1. PICK h \in Files(dir[q]) : NameOf(f) = NameOf(h) /\ f.sum = IF h \in Target(q) THEN "own" ELSE h.sum
        BY <1>F, <2>2, <2>4, <2>5, <3>3
      <4>2. h \in Target(p)
        BY <1>F, <2>2, <3>3, <4>1 DEF Target
      <4> QED  BY <1>T, <3>1, <4>1, <4>2
    <3>4. CASE dir[p] # dir[q]
      <4>1. f \in Target(p)
        BY <1>F, <2>2, <2>5, <3>2, <3>4 DEF Target
      <4> QED  BY <1>T, <3>1, <4>1
    <3> QED  BY <3>3, <3>4
  <2> QED  BY <2>6, <2>7
<1>3. CASE ~(\E q \in Procs : Renames(q)) /\ ~(\E q \in Procs : WritesChecksum(q))
  <2>1. /\ \A e \in Directories : Files(e)' \subseteq Files(e)
        /\ stage[p] \in Late /\ file'[p] = file[p] /\ dir'[p] = dir[p]
    <3>1. CASE \E q \in Procs : Run(q)
      BY <1>3, <3>1, RunShape DEF Late, Named
    <3>2. CASE FindsCard \/ Restores \/ World \/ UNCHANGED backupVars
      BY <3>2, WorldShape DEF Late, Writing
    <3> QED  BY <3>1, <3>2 DEF BackupNext
  <2>2. dir[p] \in Directories
    BY <2>1, LateHas DEF Named, Late
  <2>3. f \in Target(p)
    BY <1>F, <2>1, <2>2 DEF Target
  <2> QED  BY <1>T, <2>1, <2>3
<1> QED  BY <1>1, <1>2, <1>3

HonestInv == BackupTypeOK /\ Placed /\ NamesDiffer /\ Whole

LEMMA HonestInit == BackupInit => HonestInv
<1> SUFFICES ASSUME BackupInit PROVE HonestInv
  OBVIOUS
<1>1. stage = [p \in Procs |-> "idle"] /\ file = [p \in Procs |-> NULL]
  BY DEF BackupInit
<1> QED  BY <1>1, BackupTypeInit DEF HonestInv, Placed, NamesDiffer, Whole, Late

LEMMA HonestNext == HonestInv /\ [BackupNext]_backupVars => HonestInv'
BY BackupTypeNext, PlacedStep, NamesDifferStep, WholeStep DEF HonestInv

\* Only Reports() names another backup, and it has just looked at it.
LEMMA HonestReport ==
  ASSUME HonestInv, [BackupNext]_backupVars,
         gap \cap {Card, Collision} = {}, backupStatus'.lastFile # backupStatus.lastFile
  PROVE  \E f \in stick : NameOf(f) = backupStatus'.lastFile /\ f.sum = "own" /\ present
<1>T. BackupTypeOK /\ StatusOK
  BY DEF HonestInv, BackupTypeOK
<1>1. CASE \E p \in Procs : Run(p)
  <2>1. PICK p \in Procs : Run(p)
    BY <1>1
  <2>2. CASE Reports(p)
    <3>1. stage[p] = "report" /\ p # "restore" /\ Reaches(p) /\ Target(p) # {}
      BY <2>2 DEF Reports
    <3>2. dir[p] = "stick"
      BY <3>1 DEF HonestInv, Placed
    <3>3. present
      BY <3>1, <3>2 DEF Reaches, Path
    <3>4. PICK f \in Target(p) : f.sum = "own"
      BY <3>1 DEF HonestInv, Whole, Late
    <3>5. f \in stick /\ NameOf(f) = NameOf(file[p])
      BY <3>2, <3>4 DEF Target, Files
    <3>6. backupStatus'.lastFile = NameOf(file[p])
      BY <2>2, <3>1 DEF Reports
    <3> QED  BY <3>3, <3>4, <3>5, <3>6
  <2>3. CASE NoStick(p) \/ RunFails(p) \/ Refuses(p)
    BY <1>T, <2>3 DEF NoStick, RunFails, Refuses, Failed, StatusOK
  <2>4. CASE FindsStick(p) \/ MakesName(p) \/ Dumps(p) \/ Renames(p) \/ WritesChecksum(p) \/ ReadsBack(p) \/ Rotates(p)
    BY <2>4 DEF FindsStick, MakesName, Dumps, Renames, WritesChecksum, ReadsBack, Rotates
  <2> QED  BY <2>1, <2>2, <2>3, <2>4 DEF Run
<1>2. CASE FindsCard \/ Restores \/ World \/ UNCHANGED backupVars
  BY <1>2 DEF FindsCard, Restores, World, PullsStick, PlugsStick, Tick, SetsClock, Dies, backupVars
<1> QED  BY <1>1, <1>2 DEF BackupNext

\* A backup reported as made is on the stick then, whole, read back and with the checksum of what it
\* holds, unless it went to the card or under another run's name: for every interval, every rule of
\* thinning out, every clock.
THEOREM ReportedIsThere == BackupSpec => HonestStatus
<1>1. HonestInv /\ [BackupNext]_backupVars =>
        [gap \cap {Card, Collision} = {} /\ backupStatus'.lastFile # backupStatus.lastFile
         => \E f \in stick : NameOf(f) = backupStatus'.lastFile /\ f.sum = "own" /\ present]_backupVars
  BY HonestReport
<1> QED  BY <1>1, HonestInit, HonestNext, PTL DEF BackupSpec, HonestStatus

-----------------------------------------------------------------------------
(* SafetyKept.                                                             *)

Copies == {f \in stick \cup safety : f.pre = Before}

\* The copies before a restore are not from the future, and none is newer than the one being taken.
Past ==
  ClockBack \notin gap =>
    /\ \A f \in Copies : f.stamp <= wall
    /\ file["restore"] # NULL => /\ file["restore"].stamp <= wall
                                 /\ \A f \in Copies : f.stamp <= file["restore"].stamp

CopyThere ==
  gap \cap {ClockBack, Card} = {} /\ stage["restore"] \in Named /\ file["restore"].num = 1 => Target("restore") # {}

\* The clock goes back only where `gap` says so.
LEMMA WallGrows ==
  ASSUME BackupTypeOK, [BackupNext]_backupVars, ClockBack \notin gap', NEW w \in Nat, w = wall'
  PROVE  wall <= w
<1>T. wall \in Nat
  BY DEF BackupTypeOK
<1>1. CASE \E p \in Procs : Run(p)
  <2>1. wall' = wall
    BY <1>1 DEF Run, FindsStick, NoStick, MakesName, Dumps, Renames, WritesChecksum, ReadsBack, Rotates, Reports,
                RunFails, Refuses
  <2> QED  BY <1>T, <2>1
<1>2. CASE FindsCard \/ Restores \/ PullsStick \/ PlugsStick \/ Dies \/ UNCHANGED backupVars
  <2>1. wall' = wall
    BY <1>2 DEF FindsCard, Restores, PullsStick, PlugsStick, Dies, backupVars
  <2> QED  BY <1>T, <2>1
<1>3. CASE Tick
  <2>1. w = wall + 1
    BY <1>3 DEF Tick
  <2> QED  BY <1>T, <2>1
<1>4. CASE SetsClock
  <2>1. ~(w < wall)
    BY <1>4 DEF SetsClock
  <2> QED  BY <1>T, <2>1
<1> QED  BY <1>1, <1>2, <1>3, <1>4 DEF BackupNext, World

\* A copy that comes onto the stick or into before-restore/ is the one being taken.
LEMMA NewCopies ==
  ASSUME BackupTypeOK, [BackupNext]_backupVars, NEW f \in Copies'
  PROVE  \/ \E g \in Copies : g.stamp = f.stamp
         \/ file["restore"] # NULL /\ f.stamp = file["restore"].stamp
<1>F. /\ f.pre = Before
      /\ f \in Files("stick")' \/ f \in Files("safety")'
      /\ "stick" \in Directories /\ "safety" \in Directories
  BY DEF Copies, Files, Directories
<1>D. PICK d \in {"stick", "safety"} : f \in Files(d)' /\ d \in Directories
  BY <1>F
<1>C. \A g \in Files(d) : g.pre = Before => g \in Copies
  BY DEF Copies, Files
<1>1. CASE \E q \in Procs : Renames(q)
  <2>1. PICK q \in Procs : Renames(q)
    BY <1>1
  <2>2. /\ dir[q] \in Directories /\ Put(dir[q], (Files(dir[q]) \ Target(q)) \cup {NewFile(q)})
        /\ NameOf(NewFile(q)) = NameOf(file[q]) /\ stage[q] = "rename" /\ dir' = dir
    BY <2>1, RenamesIs DEF Renames
  <2>3. f \in Files(d) \/ f = NewFile(q)
    <3> DEFINE F == (Files(dir[q]) \ Target(q)) \cup {NewFile(q)}
    <3>1. Put(dir[q], F) /\ dir[q] \in Directories /\ (f \in F => f \in Files(dir[q]) \/ f = NewFile(q))
      BY <2>2
    <3> HIDE DEF F
    <3>2. Files(dir[q])' = F /\ \A e \in Directories : e # dir[q] => Files(e)' = Files(e)
      BY <2>2, <3>1, PutIs
    <3> QED  BY <1>D, <2>2, <3>1, <3>2
  <2>4. CASE f = NewFile(q)
    <3>1. f.pre = file[q].pre /\ f.stamp = file[q].stamp
      BY <2>4 DEF NewFile
    <3>2. file[q].pre = Prefix(q) /\ file[q] # NULL
      BY <2>2, LateHas
    <3>3. q = "restore"
      BY <1>F, <3>1, <3>2 DEF Prefix, Before, Automatic
    <3> QED  BY <3>1, <3>2, <3>3
  <2> QED  BY <1>C, <1>F, <2>3, <2>4
<1>2. CASE \E q \in Procs : WritesChecksum(q)
  <2>1. PICK q \in Procs : WritesChecksum(q)
    BY <1>2
  <2>2. stage[q] = "checksum" /\ dir' = dir /\ Put(dir[q], Checked(q))
    BY <2>1 DEF WritesChecksum, Checked
  <2>3. dir[q] \in Directories
    BY <2>2, LateHas DEF Named
  <2>4. \A g \in Checked(q) : \E h \in Files(dir[q]) : g.pre = h.pre /\ g.stamp = h.stamp
    BY <2>3, CheckedIs
  <2>5. Files(dir[q])' = Checked(q) /\ \A e \in Directories : e # dir[q] => Files(e)' = Files(e)
    BY <2>2, <2>3, PutIs
  <2>6. \E h \in Files(d) : f.pre = h.pre /\ f.stamp = h.stamp
    BY <1>D, <2>2, <2>4, <2>5
  <2> QED  BY <1>C, <1>F, <2>6
<1>3. CASE ~(\E q \in Procs : Renames(q)) /\ ~(\E q \in Procs : WritesChecksum(q))
  <2>1. \A e \in Directories : Files(e)' \subseteq Files(e)
    <3>1. CASE \E q \in Procs : Run(q)
      BY <1>3, <3>1, RunShape
    <3>2. CASE FindsCard \/ Restores \/ World \/ UNCHANGED backupVars
      BY <3>2, WorldShape
    <3> QED  BY <3>1, <3>2 DEF BackupNext
  <2>2. f \in Files(d)
    BY <1>D, <2>1
  <2> QED  BY <1>C, <1>F, <2>2
<1> QED  BY <1>1, <1>2, <1>3

LEMMA CopyStamps == ASSUME BackupTypeOK PROVE \A f \in Copies : f.stamp \in Nat
<1>1. stick \in SUBSET BackupFiles /\ safety \in SUBSET BackupFiles
  BY DEF BackupTypeOK, FilesOK, Files, Directories
<1> QED  BY <1>1 DEF Copies, BackupFiles

LEMMA RestoreStamp ==
  ASSUME BackupTypeOK, file["restore"] # NULL
  PROVE  file["restore"].stamp \in Nat
<1>1. RunOK("restore") /\ "restore" \in Procs
  BY DEF BackupTypeOK, Procs
<1>2. file["restore"] \in [pre : {Prefix("restore")}, stamp : Nat, num : Nat \ {0}, mtime : Moments]
  BY <1>1 DEF RunOK
<1> QED  BY <1>2

LEMMA PastStep ==
  ASSUME BackupTypeOK, Past, [BackupNext]_backupVars
  PROVE  Past'
<1> SUFFICES ASSUME ClockBack \notin gap' PROVE
      /\ \A f \in Copies' : f.stamp <= wall'
      /\ file'["restore"] # NULL => /\ file'["restore"].stamp <= wall'
                                    /\ \A f \in Copies' : f.stamp <= file'["restore"].stamp
  BY DEF Past
<1>T. wall \in Nat /\ BackupTypeOK'
  BY BackupTypeNext DEF BackupTypeOK
<1>W. PICK w \in Nat : w = wall'
  BY <1>T DEF BackupTypeOK
<1>1. wall <= w
  BY <1>W, WallGrows
<1>2. /\ \A f \in Copies : f.stamp \in Nat /\ f.stamp <= wall
      /\ file["restore"] # NULL => /\ file["restore"].stamp \in Nat /\ file["restore"].stamp <= wall
                                   /\ \A f \in Copies : f.stamp <= file["restore"].stamp
  BY GapGrows, CopyStamps, RestoreStamp DEF Past
<1>3. \A f \in Copies' : f.stamp \in Nat /\ f.stamp <= wall
  <2> SUFFICES ASSUME NEW f \in Copies' PROVE f.stamp \in Nat /\ f.stamp <= wall
    OBVIOUS
  <2>1. CASE \E g \in Copies : g.stamp = f.stamp
    BY <1>2, <2>1
  <2>2. CASE file["restore"] # NULL /\ f.stamp = file["restore"].stamp
    BY <1>2, <2>2
  <2> QED  BY <2>1, <2>2, NewCopies
<1>4. \A f \in Copies' : f.stamp <= wall'
  <2>1. \A f \in Copies' : f.stamp <= w
    BY <1>T, <1>1, <1>3
  <2> QED  BY <1>W, <2>1
<1>5. ASSUME file'["restore"] # NULL
      PROVE  \E s \in Nat : s = file'["restore"].stamp /\ s <= wall /\ \A f \in Copies' : f.stamp <= s
  <2>1. CASE MakesName("restore")
    <3>1. file'["restore"].stamp = wall
      <4> DEFINE to == Path(dir["restore"])
                 name(n) == [pre |-> Prefix("restore"), stamp |-> wall, num |-> n]
                 free == {n \in 1..Cardinality(Files(to)) + 1 : name(n) \notin Names(Files(to))}
                 num == CHOOSE n \in free : \A m \in free : n <= m
      <4>1. file' = [file EXCEPT !["restore"] = [pre |-> Prefix("restore"), stamp |-> wall, num |-> num, mtime |-> NULL]]
        BY <2>1 DEF MakesName
      <4> HIDE DEF num
      <4> QED  BY <4>1 DEF BackupTypeOK, Procs
    <3> QED  BY <1>T, <1>3, <3>1
  <2>2. CASE ~MakesName("restore")
    <3>1. file["restore"] # NULL /\ NameOf(file'["restore"]) = NameOf(file["restore"])
      BY <1>5, <2>2, NameKept DEF Procs
    <3>2. file'["restore"].stamp = file["restore"].stamp
      BY <3>1 DEF NameOf
    <3> DEFINE s == file["restore"].stamp
    <3>3. s \in Nat /\ s <= wall /\ \A f \in Copies : f.stamp <= s
      BY <1>2, <3>1
    <3> HIDE DEF s
    <3>4. \A f \in Copies' : f.stamp <= s
      <4> SUFFICES ASSUME NEW f \in Copies' PROVE f.stamp <= s
        OBVIOUS
      <4>1. (\E g \in Copies : g.stamp = f.stamp) \/ f.stamp = s
        BY NewCopies DEF s
      <4> QED  BY <3>3, <4>1
    <3> QED  BY <3>2, <3>3, <3>4 DEF s
  <2> QED  BY <2>1, <2>2
<1>6. ASSUME file'["restore"] # NULL
      PROVE  /\ file'["restore"].stamp <= wall'
             /\ \A f \in Copies' : f.stamp <= file'["restore"].stamp
  <2>1. PICK s \in Nat : s = file'["restore"].stamp /\ s <= wall /\ \A f \in Copies' : f.stamp <= s
    BY <1>5, <1>6
  <2>2. s <= w
    BY <1>T, <1>1, <2>1
  <2> QED  BY <1>W, <2>1, <2>2
<1> QED  BY <1>4, <1>6

\* rotate() keeps the first of its second, when nothing is newer.
LEMMA NewestKept ==
  ASSUME NEW p, NEW held, NEW f \in held, f.pre = Before, f.num = 1, f.stamp \in Nat,
         \A g \in held : g.pre = Before => g.stamp \in Nat /\ g.stamp <= f.stamp
  PROVE  f \in Rotated(p, held)
<1> DEFINE newer == {g \in held : g.pre = Before /\ Newer(g, f)}
<1>1. newer = {}
  <2> SUFFICES ASSUME NEW g \in held, g.pre = Before, Newer(g, f) PROVE FALSE
    OBVIOUS
  <2>1. g.stamp \in Nat /\ g.stamp <= f.stamp
    OBVIOUS
  <2>2. ~(g.stamp > f.stamp)
    BY <2>1
  <2> QED  BY <2>2 DEF Newer
<1>2. Cardinality(newer) = 0 /\ KEEP_BEFORE_RESTORE \in Nat \ {0}
  BY <1>1, FS_EmptySet, ConstantAssumption
<1> HIDE DEF newer
<1>3. Cardinality(newer) < KEEP_BEFORE_RESTORE
  BY <1>2
<1>4. f \in KeptBefore(held)
  BY <1>3 DEF KeptBefore, Newest, newer
<1> QED  BY <1>4 DEF Rotated

\* The copy that was put there stays: no other run's file has its prefix, and rotate() finds none newer.
LEMMA CopyThereStep ==
  ASSUME BackupTypeOK, Placed, Past, CopyThere, [BackupNext]_backupVars
  PROVE  CopyThere'
<1> SUFFICES ASSUME gap' \cap {ClockBack, Card} = {}, stage'["restore"] \in Named, file'["restore"].num = 1
             PROVE  \E f \in Files(dir["restore"])' : NameOf(f) = NameOf(file'["restore"])
  BY DEF CopyThere, Target, NameOf
<1>R. "restore" \in Procs /\ gap \cap {ClockBack, Card} = {} /\ RunsOK
  BY GapGrows DEF Procs, BackupTypeOK, RunsOK
<1> DEFINE d == dir["restore"]
           t == file["restore"]
<1>1. ASSUME stage["restore"] \in Named, file'["restore"] = t
      PROVE  /\ d \in {"stick", "safety"} /\ d \in Directories
             /\ \E f \in Files(d) : NameOf(f) = NameOf(t) /\ f.pre = Before /\ f.num = 1 /\ f.stamp = t.stamp
  <2>1. Target("restore") # {}
    BY <1>1, <1>R DEF CopyThere
  <2>2. PICK f \in Files(d) : NameOf(f) = NameOf(t)
    BY <2>1 DEF Target
  <2>3. t.pre = Before /\ t.num = 1 /\ d \in Directories
    BY <1>1, <1>R, LateHas DEF Prefix
  <2>4. f.pre = Before /\ f.num = 1 /\ f.stamp = t.stamp
    <3>1. \A h : NameOf(h).pre = h.pre /\ NameOf(h).num = h.num /\ NameOf(h).stamp = h.stamp
      BY DEF NameOf
    <3>2. f.pre = t.pre /\ f.num = t.num /\ f.stamp = t.stamp
      BY <2>2, <3>1
    <3> QED  BY <2>3, <3>2
  <2>5. d \in {"stick", "safety"}
    BY <1>1, <1>R DEF Placed, Named
  <2> QED  BY <2>2, <2>3, <2>4, <2>5
\* another run's file has another prefix
<1>2. ASSUME NEW q \in Procs, q # "restore", stage[q] \in Named \cup {"rename"}, NEW f, f \in Target(q)
      PROVE  f.pre # Before
  <2>1. f.pre = file[q].pre
    <3>1. NameOf(f) = NameOf(file[q])
      BY <1>2 DEF Target
    <3>2. \A h : NameOf(h).pre = h.pre
      BY DEF NameOf
    <3> QED  BY <3>1, <3>2
  <2>2. file[q].pre = Prefix(q)
    BY <1>2, LateHas
  <2> QED  BY <1>2, <2>1, <2>2 DEF Prefix, Automatic, Before
<1>3. CASE \E q \in Procs : Renames(q)
  <2>1. PICK q \in Procs : Renames(q)
    BY <1>3
  <2>2. /\ dir[q] \in Directories /\ Put(dir[q], (Files(dir[q]) \ Target(q)) \cup {NewFile(q)})
        /\ NameOf(NewFile(q)) = NameOf(file[q]) /\ stage[q] = "rename" /\ dir' = dir /\ file' = file
    BY <2>1, RenamesIs DEF Renames
  <2> DEFINE F == (Files(dir[q]) \ Target(q)) \cup {NewFile(q)}
  <2>3. Put(dir[q], F) /\ NewFile(q) \in F /\ \A f \in Files(dir[q]) : f \in Target(q) \/ f \in F
    BY <2>2
  <2> HIDE DEF F
  <2>4. Files(dir[q])' = F /\ \A e \in Directories : e # dir[q] => Files(e)' = Files(e)
    BY <2>2, <2>3, PutIs
  <2>5. CASE q = "restore"
    BY <2>2, <2>3, <2>4, <2>5
  <2>6. CASE q # "restore"
    <3>1. stage["restore"] \in Named
      BY <1>R, <2>1, <2>6, OthersAlone DEF Run
    <3>2. PICK f \in Files(d) : NameOf(f) = NameOf(t) /\ f.pre = Before /\ d \in Directories
      BY <1>1, <2>2, <3>1
    <3>3. f \notin Target(q)
      BY <1>2, <2>2, <2>6, <3>2
    <3>4. f \in Files(d)'
      BY <2>2, <2>3, <2>4, <3>2, <3>3
    <3> QED  BY <2>2, <3>2, <3>4
  <2> QED  BY <2>5, <2>6
<1>4. CASE \E q \in Procs : WritesChecksum(q)
  <2>1. PICK q \in Procs : WritesChecksum(q)
    BY <1>4
  <2>2. stage[q] = "checksum" /\ stage' = [stage EXCEPT ![q] = "verify"] /\ dir' = dir /\ file' = file
        /\ Put(dir[q], Checked(q))
    BY <2>1 DEF WritesChecksum, Checked, Goes
  <2>3. stage["restore"] \in Named
    BY <1>R, <2>2 DEF Named, RunsOK
  <2>4. PICK f \in Files(d) : NameOf(f) = NameOf(t) /\ d \in Directories
    BY <1>1, <2>2, <2>3
  <2>5. dir[q] \in Directories
    BY <2>2, LateHas DEF Named
  <2>6. \A h \in Files(dir[q]) : \E g \in Checked(q) : NameOf(g) = NameOf(h)
    BY <2>5, CheckedIs
  <2>7. Files(dir[q])' = Checked(q) /\ \A e \in Directories : e # dir[q] => Files(e)' = Files(e)
    BY <2>2, <2>5, PutIs
  <2> QED  BY <2>2, <2>4, <2>6, <2>7
<1>5. CASE \E q \in Procs : Rotates(q)
  <2>1. PICK q \in Procs : Rotates(q)
    BY <1>5
  <2> DEFINE at == Path(dir[q])
             F == Rotated(q, Files(at))
  <2>2. stage[q] = "rotate" /\ stage' = [stage EXCEPT ![q] = "report"] /\ dir' = dir /\ file' = file
        /\ Put(at, F) /\ at \in Directories
    BY <2>1, PathIs DEF Rotates, Goes
  <2>3. stage["restore"] \in Named
    BY <1>R, <2>2 DEF Named, RunsOK
  <2>4. PICK f \in Files(d) : /\ NameOf(f) = NameOf(t) /\ f.pre = Before /\ f.num = 1 /\ f.stamp = t.stamp
                              /\ d \in {"stick", "safety"} /\ d \in Directories
    BY <1>1, <2>2, <2>3
  <2>5. f \in F \/ d # at
    <3> SUFFICES ASSUME d = at PROVE f \in F
      OBVIOUS
    <3>1. \A g \in Files(d) : g.pre = Before => g \in Copies
      BY <2>4 DEF Copies, Files
    <3>2. t # NULL
      BY <1>R, <2>3, LateHas
    <3>3. \A g \in Files(d) : g.pre = Before => g.stamp \in Nat /\ g.stamp <= f.stamp
      BY <1>R, <2>4, <3>1, <3>2, CopyStamps DEF Past
    <3>4. f.stamp \in Nat
      BY <2>4, <3>3
    <3> HIDE DEF d
    <3> QED  BY <2>4, <3>3, <3>4, NewestKept
  <2>6. PICK r \in Directories : r = at
    BY <2>2
  <2>7. Put(r, F)
    BY <2>2, <2>6
  <2> HIDE DEF F, at
  <2>8. Files(r)' = F /\ \A e \in Directories : e # r => Files(e)' = Files(e)
    BY <2>7, PutIs
  <2>9. PICK b \in Directories : b = d
    BY <2>4
  <2>10. f \in Files(b)'
    BY <2>4, <2>5, <2>6, <2>8, <2>9
  <2> QED  BY <2>2, <2>4, <2>9, <2>10
<1>6. CASE \E q \in Procs : Refuses(q)
  <2>1. PICK q \in Procs : Refuses(q)
    BY <1>6
  <2>2. stage[q] = "verify" /\ stage' = [stage EXCEPT ![q] = "idle"] /\ Put(dir[q], Files(dir[q]) \ Target(q))
    BY <2>1 DEF Refuses, Failed, Ends, Goes
  <2>3. q # "restore"
    BY <1>R, <2>2 DEF RunsOK, Named
  <2>4. stage["restore"] \in Named /\ dir'["restore"] = d /\ file'["restore"] = t
    BY <1>R, <2>1, <2>3, OthersAlone DEF Run
  <2>5. PICK f \in Files(d) : NameOf(f) = NameOf(t) /\ f.pre = Before /\ d \in Directories
    BY <1>1, <2>4
  <2>6. f \notin Target(q)
    BY <1>2, <2>2, <2>3, <2>5 DEF Named
  <2>7. dir[q] \in Directories
    BY <2>2, LateHas DEF Named
  <2>8. \E r \in Directories : r = d /\ f \in Files(r)'
    <3> DEFINE F == Files(dir[q]) \ Target(q)
    <3>1. Put(dir[q], F) /\ (f \in Files(dir[q]) => f \in F)
      BY <2>2, <2>6
    <3> HIDE DEF F
    <3>2. PICK b \in Directories : b = dir[q]
      BY <2>7
    <3>3. Files(b)' = F /\ \A e \in Directories : e # b => Files(e)' = Files(e)
      BY <3>1, <3>2, PutIs
    <3>4. PICK r \in Directories : r = d
      BY <2>5
    <3>5. f \in Files(r)'
      BY <2>5, <3>1, <3>2, <3>3, <3>4
    <3> QED  BY <3>4, <3>5
  <2>9. PICK r \in Directories : r = d /\ f \in Files(r)'
    BY <2>8
  <2>10. f \in Files(dir["restore"])'
    BY <2>4, <2>9
  <2> QED  BY <2>4, <2>5, <2>10
<1>7. CASE ~(\E q \in Procs : Renames(q) \/ WritesChecksum(q) \/ Rotates(q) \/ Refuses(q))
  <2>1. stage["restore"] \in Named /\ file'["restore"] = t /\ dir'["restore"] = d
    <3>1. CASE \E q \in Procs : Run(q)
      BY <1>7, <1>R, <3>1, RunShape
    <3>2. CASE FindsCard \/ Restores \/ World \/ UNCHANGED backupVars
      BY <1>R, <3>2, WorldShape DEF Named, Writing
    <3> QED  BY <3>1, <3>2 DEF BackupNext
  <2>2. PICK f \in Files(d) : NameOf(f) = NameOf(t) /\ d \in Directories
    BY <1>1, <2>1
  <2>3. UNCHANGED <<stick, card, safety>>
    <3>1. CASE \E q \in Procs : Run(q)
      <4>1. PICK q \in Procs : Run(q)
        BY <3>1
      <4> QED  BY <1>7, <4>1 DEF Run, FindsStick, NoStick, MakesName, Dumps, ReadsBack, Reports, RunFails
    <3>2. CASE FindsCard
      <4>1. stage'["restore"] = "name"
        BY <1>R, <3>2 DEF FindsCard, Goes, RunsOK
      <4> QED  BY <4>1 DEF Named
    <3>3. CASE Restores \/ World \/ UNCHANGED backupVars
      BY <3>3 DEF Restores, World, PullsStick, PlugsStick, Tick, SetsClock, Dies, backupVars
    <3> QED  BY <3>1, <3>2, <3>3 DEF BackupNext
  <2>4. PICK r \in Directories : r = d
    BY <2>2
  <2>5. f \in Files(r)'
    BY <2>2, <2>3, <2>4, FilesAlone
  <2> QED  BY <2>1, <2>2, <2>4, <2>5
<1> QED  BY <1>3, <1>4, <1>5, <1>6, <1>7

SafetyInv == BackupTypeOK /\ Placed /\ Past /\ CopyThere

LEMMA SafetyInit == BackupInit => SafetyInv
<1> SUFFICES ASSUME BackupInit PROVE SafetyInv
  OBVIOUS
<1>1. stage = [p \in Procs |-> "idle"] /\ file = [p \in Procs |-> NULL] /\ stick = {} /\ safety = {}
  BY DEF BackupInit
<1>2. Placed /\ CopyThere
  BY <1>1 DEF Placed, CopyThere, Named, Procs
<1>3. Past
  BY <1>1 DEF Past, Copies, Procs
<1> QED  BY <1>2, <1>3, BackupTypeInit DEF SafetyInv

LEMMA SafetyNext == SafetyInv /\ [BackupNext]_backupVars => SafetyInv'
BY BackupTypeNext, PlacedStep, PastStep, CopyThereStep DEF SafetyInv

\* "the device is backed up first": the copy a restore took exists when it goes on to replace the
\* database, whatever other runs write, refuse and rotate meanwhile and however few copies are kept,
\* as long as the clock never went back and no other copy was taken in its second.
THEOREM BackedUpFirst == BackupSpec => []SafetyKept
<1>1. SafetyInv => SafetyKept
  BY DEF SafetyInv, CopyThere, SafetyKept, Named
<1> QED  BY <1>1, SafetyInit, SafetyNext, PTL DEF BackupSpec

==============================================================================
