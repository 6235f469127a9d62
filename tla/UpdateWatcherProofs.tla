------------------------ MODULE UpdateWatcherProofs ------------------------
(***************************************************************************)
(* Proofs about UpdateWatcher for every set of versions, images, bundles,  *)
(* uploaders and every bound.                                              *)
(***************************************************************************)
EXTENDS UpdateWatcher, TLAPS

Working == ApplySteps \cup {"check", "accept", "move", "refuse", "clean_refused"}
Loaded == {"stop", "copy", "save", "saved"}
Trying == {"migrate", "compose", "install", "up", "verify", "services", "record", "commit"}

\* What the watcher's place in the code says about its files.
Control ==
  /\ pc \in Working => cur \in Bundles /\ caller = "process"
  /\ pc \in Working \ {"clean_refused"} => status = "running"
  /\ pc \in {"copy", "save", "saved", "switch"} => ~writers
  /\ pc \in {"move", "tag"} => Journalled /\ journal.bundle = cur /\ journal.phase = "accepted"
  /\ pc = "load" => Journalled /\ journal.bundle = cur /\ journal.phase = "tagged"
  /\ pc \in Loaded => Journalled /\ journal.bundle = cur /\ journal.phase = "loaded"
  /\ pc = "switch" => Journalled /\ journal.bundle = cur /\ journal.phase = "saved"
  /\ pc \in Trying => OnTrial /\ journal.bundle = cur
  /\ pc \in {"forget", "done", "clean_done", "finish_rb", "rec_finish"} => ~Journalled
  /\ pc \in UndoSteps \cup {"rec_unlink"} => Journalled
  /\ pc \in RollbackSteps => OnTrial
  /\ pc \in {"un_tags", "un_previous", "un_up", "un_verify", "undone", "rec_unlink"} => ~OnTrial
  /\ pc \in {"save", "saved", "switch"} => copies # NONE
  /\ pc \in {"saved", "switch"} => previous # NONE
  /\ OnTrial => copies # NONE
  /\ Journalled /\ journal.phase # "accepted" => prevTag \in [Images -> Versions]

TInv == TypeOK /\ Control

USE VersionAssumption, DeviceAssumption, BoundAssumption, NoneAssumption

LEMMA InitTyped == Init => TInv
BY DEF Init, TInv, TypeOK, Control, OnTrial, Switched, Journalled, NoUploads, Databases, Steps,
       Working, ApplySteps, Loaded, Trying, RollbackSteps, UndoSteps, RecoverSteps, ProcessSteps

LEMMA TypedDashboard == ASSUME TInv, Dashboard PROVE TInv'
<1> USE DEF TInv, TypeOK, Control, OnTrial, Switched, Journalled, Databases, Journals, Saved, Copies, Phases,
           Step, files, device, process, bounds, history, NoUploads, Steps, Working, ApplySteps, Loaded,
           Trying, RollbackSteps, UndoSteps, RecoverSteps, ProcessSteps
<1>UploadBegins. ASSUME NEW u \in Uploaders, NEW b \in Bundles, UploadBegins(u, b) PROVE TInv'
  BY <1>UploadBegins DEF UploadBegins, Pending
<1>UploadEnds. ASSUME NEW u \in Uploaders, UploadEnds(u) PROVE TInv'
  <2>1. upload[u] \in Bundles
    BY <1>UploadEnds DEF UploadEnds
  <2>2. incoming' \in [Bundles -> Nat] /\ accepts' \in [Bundles -> Nat]
    BY <1>UploadEnds, <2>1 DEF UploadEnds
  <2> QED
    BY <1>UploadEnds, <2>2 DEF UploadEnds
<1>Book. ASSUME Book PROVE TInv'
  BY <1>Book DEF Book
<1> QED
  BY <1>UploadBegins, <1>UploadEnds, <1>Book DEF Dashboard

LEMMA TypedCycle == ASSUME TInv, Cycle PROVE TInv'
<1> USE DEF TInv, TypeOK, Control, OnTrial, Switched, Journalled, Databases, Journals, Saved, Copies, Phases,
           Step, files, device, process, bounds, history, NoUploads, Steps, Working, ApplySteps, Loaded,
           Trying, RollbackSteps, UndoSteps, RecoverSteps, ProcessSteps
<1>CycleBegins. ASSUME CycleBegins PROVE TInv'
  BY <1>CycleBegins DEF CycleBegins, Pending
<1>CycleEnds. ASSUME CycleEnds PROVE TInv'
  BY <1>CycleEnds DEF CycleEnds
<1>CheckPasses. ASSUME CheckPasses PROVE TInv'
  BY <1>CheckPasses DEF CheckPasses
<1>CheckRefuses. ASSUME CheckRefuses PROVE TInv'
  BY <1>CheckRefuses DEF CheckRefuses
<1>AcceptJournal. ASSUME AcceptJournal PROVE TInv'
  <2>1. cur \in Bundles /\ incoming[cur] \in Nat
    BY <1>AcceptJournal DEF AcceptJournal
  <2>2. journal' \in Journals /\ journal'.bundle = cur /\ journal'.phase = "accepted"
    BY <1>AcceptJournal, <2>1 DEF AcceptJournal
  <2>3. gaps' \subseteq {"overrun", "early"} /\ accepts' \in [Bundles -> Nat]
    BY <1>AcceptJournal, <2>1 DEF AcceptJournal
  <2> QED
    BY <1>AcceptJournal, <2>1, <2>2, <2>3 DEF AcceptJournal
<1>AcceptMove. ASSUME AcceptMove PROVE TInv'
  BY <1>AcceptMove DEF AcceptMove
<1>Refuse. ASSUME Refuse PROVE TInv'
  BY <1>Refuse DEF Refuse
<1>Cleanup. ASSUME Cleanup PROVE TInv'
  <2>1. incoming' \in [Bundles -> Nat]
    BY <1>Cleanup DEF Cleanup
  <2>2. active' \subseteq Bundles /\ queue' \subseteq Bundles
    BY <1>Cleanup DEF Cleanup
  <2> QED
    BY <1>Cleanup, <2>1, <2>2 DEF Cleanup
<1> QED
  BY <1>CycleBegins, <1>CycleEnds, <1>CheckPasses, <1>CheckRefuses, <1>AcceptJournal,
     <1>AcceptMove, <1>Refuse, <1>Cleanup DEF Cycle

LEMMA TypedApply == ASSUME TInv, Apply PROVE TInv'
<1> USE DEF TInv, TypeOK, Control, OnTrial, Switched, Journalled, Databases, Journals, Saved, Copies, Phases,
           Step, files, device, process, bounds, history, NoUploads, Steps, Working, ApplySteps, Loaded,
           Trying, RollbackSteps, UndoSteps, RecoverSteps, ProcessSteps
<1>TagImage. ASSUME NEW i \in Images, TagImage(i) PROVE TInv'
  BY <1>TagImage DEF TagImage
<1>LoadImage. ASSUME NEW i \in Images, LoadImage(i) PROVE TInv'
  BY <1>LoadImage DEF LoadImage
<1>JournalTagged. ASSUME JournalTagged PROVE TInv'
  BY <1>JournalTagged DEF JournalTagged, JournalPhase
<1>JournalLoaded. ASSUME JournalLoaded PROVE TInv'
  BY <1>JournalLoaded DEF JournalLoaded, JournalPhase, AllAt
<1>StopWriters. ASSUME StopWriters PROVE TInv'
  BY <1>StopWriters DEF StopWriters
<1>CopyFiles. ASSUME CopyFiles PROVE TInv'
  BY <1>CopyFiles DEF CopyFiles
<1>SavePrevious. ASSUME SavePrevious PROVE TInv'
  BY <1>SavePrevious DEF SavePrevious
<1>JournalSaved. ASSUME JournalSaved PROVE TInv'
  BY <1>JournalSaved DEF JournalSaved, JournalPhase
<1>JournalSwitched. ASSUME JournalSwitched PROVE TInv'
  BY <1>JournalSwitched DEF JournalSwitched, JournalPhase
<1>MigrateBack. ASSUME MigrateBack PROVE TInv'
  BY <1>MigrateBack DEF MigrateBack
<1>SwitchCompose. ASSUME SwitchCompose PROVE TInv'
  BY <1>SwitchCompose DEF SwitchCompose
<1>SwitchInstall. ASSUME SwitchInstall PROVE TInv'
  BY <1>SwitchInstall DEF SwitchInstall
<1>StartNew. ASSUME StartNew PROVE TInv'
  BY <1>StartNew DEF StartNew, ComposeUp
<1>NewAnswers. ASSUME NewAnswers PROVE TInv'
  BY <1>NewAnswers DEF NewAnswers
<1>RecordInstalled. ASSUME RecordInstalled PROVE TInv'
  BY <1>RecordInstalled DEF RecordInstalled
<1>Commit. ASSUME Commit PROVE TInv'
  BY <1>Commit DEF Commit
<1>Forget. ASSUME Forget PROVE TInv'
  BY <1>Forget DEF Forget, ForgetPrevious
<1>FinishDone. ASSUME FinishDone PROVE TInv'
  BY <1>FinishDone DEF FinishDone
<1> QED
  BY <1>TagImage, <1>LoadImage, <1>JournalTagged, <1>JournalLoaded, <1>StopWriters,
     <1>CopyFiles, <1>SavePrevious, <1>JournalSaved, <1>JournalSwitched, <1>MigrateBack,
     <1>SwitchCompose, <1>SwitchInstall, <1>StartNew, <1>NewAnswers, <1>RecordInstalled,
     <1>Commit, <1>Forget, <1>FinishDone DEF Apply

LEMMA TypedUndo == ASSUME TInv, Undo PROVE TInv'
<1> USE DEF TInv, TypeOK, Control, OnTrial, Switched, Journalled, Databases, Journals, Saved, Copies, Phases,
           Step, files, device, process, bounds, history, NoUploads, Steps, Working, ApplySteps, Loaded,
           Trying, RollbackSteps, UndoSteps, RecoverSteps, ProcessSteps
<1>RetagImage. ASSUME NEW i \in Images, RetagImage(i) PROVE TInv'
  BY <1>RetagImage DEF RetagImage
<1>JournalNoRetry. ASSUME JournalNoRetry PROVE TInv'
  <2>1. journal' \in Journals
    BY <1>JournalNoRetry DEF JournalNoRetry
  <2>2. journal # NONE => journal'.phase = journal.phase
    BY <1>JournalNoRetry DEF JournalNoRetry
  <2>3. journal = NONE => journal'.phase = "accepted"
    BY <1>JournalNoRetry DEF JournalNoRetry
  <2>4. OnTrial' <=> OnTrial
    BY <1>JournalNoRetry, <2>1, <2>2, <2>3 DEF JournalNoRetry
  <2>5. journal' # NONE /\ pc' = "undo" /\ copies' = copies /\ prevTag' = prevTag /\ pc = "except"
    BY <1>JournalNoRetry, <2>1 DEF JournalNoRetry
  <2>6. (OnTrial => copies # NONE)'
    BY <2>4, <2>5
  <2>7. (Journalled /\ journal.phase # "accepted" => prevTag \in [Images -> Versions])'
    BY <2>2, <2>3, <2>5
  <2>8. Control'
    BY <2>5, <2>6, <2>7
  <2> QED
    BY <1>JournalNoRetry, <2>1, <2>8 DEF JournalNoRetry
<1>UndoBegins. ASSUME UndoBegins PROVE TInv'
  BY <1>UndoBegins DEF UndoBegins
<1>Retagged. ASSUME Retagged PROVE TInv'
  BY <1>Retagged DEF Retagged
<1>DropPrevious. ASSUME DropPrevious PROVE TInv'
  BY <1>DropPrevious DEF DropPrevious
<1>RestoreCompose. ASSUME RestoreCompose PROVE TInv'
  BY <1>RestoreCompose DEF RestoreCompose
<1>RestoreInstall. ASSUME RestoreInstall PROVE TInv'
  BY <1>RestoreInstall DEF RestoreInstall
<1>StopForRollback. ASSUME StopForRollback PROVE TInv'
  BY <1>StopForRollback DEF StopForRollback
<1>LoadDatabase. ASSUME LoadDatabase PROVE TInv'
  BY <1>LoadDatabase DEF LoadDatabase
<1>StartOld. ASSUME StartOld PROVE TInv'
  BY <1>StartOld DEF StartOld, ComposeUp
<1>OldAnswers. ASSUME OldAnswers PROVE TInv'
  BY <1>OldAnswers DEF OldAnswers
<1>RestoreInstalled. ASSUME RestoreInstalled PROVE TInv'
  BY <1>RestoreInstalled DEF RestoreInstalled
<1>ProcessUndone. ASSUME ProcessUndone PROVE TInv'
  BY <1>ProcessUndone DEF ProcessUndone
<1>FinishRolledBack. ASSUME FinishRolledBack PROVE TInv'
  BY <1>FinishRolledBack DEF FinishRolledBack
<1> QED
  BY <1>RetagImage, <1>JournalNoRetry, <1>UndoBegins, <1>Retagged, <1>DropPrevious,
     <1>RestoreCompose, <1>RestoreInstall, <1>StopForRollback, <1>LoadDatabase, <1>StartOld,
     <1>OldAnswers, <1>RestoreInstalled, <1>ProcessUndone, <1>FinishRolledBack DEF Undo

LEMMA TypedRecover == ASSUME TInv, Recover PROVE TInv'
<1> USE DEF TInv, TypeOK, Control, OnTrial, Switched, Journalled, Databases, Journals, Saved, Copies, Phases,
           Step, files, device, process, bounds, history, NoUploads, Steps, Working, ApplySteps, Loaded,
           Trying, RollbackSteps, UndoSteps, RecoverSteps, ProcessSteps
<1>RecoverNothing. ASSUME RecoverNothing PROVE TInv'
  BY <1>RecoverNothing DEF RecoverNothing, ForgetPrevious
<1>RecoverBegins. ASSUME RecoverBegins PROVE TInv'
  BY <1>RecoverBegins DEF RecoverBegins
<1>Requeue. ASSUME Requeue PROVE TInv'
  <2>1. journal \in Journals /\ journal.attempt + 1 \in Nat
    BY <1>Requeue DEF Requeue, RequeueUpTo
  <2>2. incoming' \in [Bundles -> Nat]
    BY <1>Requeue, <2>1 DEF Requeue, RequeueUpTo
  <2>3. active' \subseteq Bundles
    BY <1>Requeue DEF Requeue, RequeueUpTo
  <2> QED
    BY <1>Requeue, <2>2, <2>3 DEF Requeue, RequeueUpTo
<1>RecoverUnlink. ASSUME RecoverUnlink PROVE TInv'
  BY <1>RecoverUnlink DEF RecoverUnlink
<1>RecoverFinish. ASSUME RecoverFinish PROVE TInv'
  BY <1>RecoverFinish DEF RecoverFinish, LeaveRecover, AfterRecover
<1>BootWithoutJournal. ASSUME BootWithoutJournal PROVE TInv'
  BY <1>BootWithoutJournal DEF BootWithoutJournal
<1>StackStarts. ASSUME StackStarts PROVE TInv'
  BY <1>StackStarts DEF StackStarts, StackUp, ComposeUp
<1> QED
  BY <1>RecoverNothing, <1>RecoverBegins, <1>Requeue, <1>RecoverUnlink, <1>RecoverFinish,
     <1>BootWithoutJournal, <1>StackStarts DEF Recover

LEMMA TypedTake == ASSUME TInv, Take PROVE TInv'
<1> USE DEF TInv, TypeOK, Control, OnTrial, Switched, Journalled, Databases, Journals, Saved, Copies, Phases,
           Step, files, device, process, bounds, history, NoUploads, Steps, Working, ApplySteps, Loaded,
           Trying, RollbackSteps, UndoSteps, RecoverSteps, ProcessSteps
<1>TakeBundle. ASSUME NEW b \in Bundles, TakeBundle(b) PROVE TInv'
  BY <1>TakeBundle DEF TakeBundle
<1> QED
  BY <1>TakeBundle DEF Take

LEMMA TypedWait == ASSUME TInv, Wait PROVE TInv'
<1> USE DEF TInv, TypeOK, Control, OnTrial, Switched, Journalled, Databases, Journals, Saved, Copies, Phases,
           Step, files, device, process, bounds, history, NoUploads, Steps, Working, ApplySteps, Loaded,
           Trying, RollbackSteps, UndoSteps, RecoverSteps, ProcessSteps
<1>WaitForOthers. ASSUME NEW b \in Bundles, WaitForOthers(b) PROVE TInv'
  BY <1>WaitForOthers DEF WaitForOthers
<1> QED
  BY <1>WaitForOthers DEF Wait

LEMMA TypedFaults == ASSUME TInv, Faults PROVE TInv'
<1> USE DEF TInv, TypeOK, Control, OnTrial, Switched, Journalled, Databases, Journals, Saved, Copies, Phases,
           Step, files, device, process, bounds, history, NoUploads, Steps, Working, ApplySteps, Loaded,
           Trying, RollbackSteps, UndoSteps, RecoverSteps, ProcessSteps
<1>AcceptFails. ASSUME AcceptFails PROVE TInv'
  BY <1>AcceptFails DEF AcceptFails
<1>ApplyFails. ASSUME ApplyFails PROVE TInv'
  BY <1>ApplyFails DEF ApplyFails
<1>StopUnnoticed. ASSUME StopUnnoticed PROVE TInv'
  BY <1>StopUnnoticed DEF StopUnnoticed
<1>CycleAborts. ASSUME CycleAborts PROVE TInv'
  BY <1>CycleAborts DEF CycleAborts
<1>ProcessUndoFails. ASSUME ProcessUndoFails PROVE TInv'
  BY <1>ProcessUndoFails DEF ProcessUndoFails
<1>RecoverNothingFails. ASSUME RecoverNothingFails PROVE TInv'
  BY <1>RecoverNothingFails DEF RecoverNothingFails
<1>RecoverUndoFails. ASSUME RecoverUndoFails PROVE TInv'
  BY <1>RecoverUndoFails DEF RecoverUndoFails, LeaveRecover, AfterRecover
<1>RecoverAborts. ASSUME RecoverAborts PROVE TInv'
  BY <1>RecoverAborts DEF RecoverAborts, LeaveRecover, AfterRecover
<1>PowerCut. ASSUME PowerCut PROVE TInv'
  BY <1>PowerCut DEF PowerCut
<1>Kill. ASSUME Kill PROVE TInv'
  BY <1>Kill DEF Kill
<1>StackFails. ASSUME StackFails PROVE TInv'
  BY <1>StackFails DEF StackFails
<1>WatchdogRestarts. ASSUME WatchdogRestarts PROVE TInv'
  BY <1>WatchdogRestarts DEF WatchdogRestarts, StackUp, ComposeUp
<1> QED
  BY <1>AcceptFails, <1>ApplyFails, <1>StopUnnoticed, <1>CycleAborts, <1>ProcessUndoFails,
     <1>RecoverNothingFails, <1>RecoverUndoFails, <1>RecoverAborts, <1>PowerCut, <1>Kill,
     <1>StackFails, <1>WatchdogRestarts DEF Faults

LEMMA TypedNext == TInv /\ [Next]_vars => TInv'
<1> SUFFICES ASSUME TInv, [Next]_vars PROVE TInv'
  OBVIOUS
<1>1. CASE Next
  BY <1>1, TypedDashboard, TypedCycle, TypedApply, TypedUndo, TypedRecover, TypedTake, TypedWait, TypedFaults DEF Next
<1>2. CASE UNCHANGED vars
  BY <1>2 DEF vars, files, device, process, bounds, history, TInv, TypeOK, Control, OnTrial, Switched,
              Journalled
<1> QED
  BY <1>1, <1>2

\* The types of the state, and with them that no step of the watcher reads a journal, a
\* previous.json or a copy that is not there.
THEOREM TypeCorrect == Spec => []TypeOK
<1>1. TInv => TypeOK
  BY DEF TInv
<1> QED
  BY InitTyped, TypedNext, <1>1, PTL DEF Spec

LEMMA Typed == Spec => []TInv
BY InitTyped, TypedNext, PTL DEF Spec

-----------------------------------------------------------------------------
(* Bookings, and what the device stands for.                               *)

\* The bookings nobody may take back.
Kept(rows) == (1..booked) \ trial \subseteq rows

\* The dump previous.json names is as safe as the database it will replace.
KInv ==
  /\ Kept(db.rows)
  /\ OnTrial \/ pc \in {"saved", "switch"} => Kept(previous.db.rows)

Checked == {"accept", "move", "tag", "load", "stop", "copy", "save", "saved", "switch"}

\* How the dump, installed.json and the bundle at hand belong together.
PInv ==
  /\ OnTrial => /\ previous.db.rows \subseteq db.rows
                /\ \/ installed = previous.installed
                   \/ Acceptable(installed, previous.installed)
  /\ pc \in {"saved", "switch"} => previous.installed = installed /\ previous.db.rows = db.rows
  /\ pc \in Checked => Acceptable(cur, installed)
  /\ pc \in Trying => Acceptable(cur, previous.installed)
  /\ pc = "commit" => installed = cur
  /\ pc = "rb_previous" => installed = previous.installed

\* How often a bundle was accepted, what its options or its journal say about that, and where
\* it is meanwhile.
Counts(b) ==
  /\ accepts[b] <= MaxAttempts /\ incoming[b] <= MaxAttempts
  /\ Journalled /\ journal.bundle = b => accepts[b] <= journal.attempt
  /\ incoming[b] > 0 => \/ accepts[b] < incoming[b]
                        \/ Journalled /\ journal.bundle = b /\ b \notin active /\ pc # "rec_unlink"

\* The list cycle() goes through holds bundles that are in incoming/.
Queued ==
  /\ \A b \in queue : incoming[b] > 0
  /\ pc \in Working => cur \notin queue
  /\ pc \in {"check", "accept", "move"} => incoming[cur] > 0
  /\ pc \in {"boot", "stack", "start", "idle"} \cup RecoverSteps => queue = {}
  /\ pc \in UndoSteps \cup {"except"} /\ caller # "process" => queue = {}

AInv ==
  "overrun" \notin gaps =>
    /\ Journalled => journal.attempt <= MaxAttempts
    /\ pc \in {"idle", "loop", "check", "accept", "rec_finish"} /\ ~Journalled => active = {}
    /\ pc \in ApplySteps /\ Journalled => journal.bundle \in active
    /\ pc \in UndoSteps \cup {"except"} /\ caller = "process" /\ Journalled =>
         journal.bundle \in active \cup {NONE}
    /\ \A b \in Bundles : Counts(b)
    /\ Queued

LEMMA KeptInit == Init => KInv
BY DEF Init, KInv, Kept, OnTrial, Switched, Journalled

LEMMA KeptDashboard == ASSUME TInv, TInv', KInv, Dashboard PROVE KInv'
<1> USE DEF KInv, Kept, TInv, TypeOK, Databases, Saved, Journals, Control, OnTrial, Switched, Journalled, Step, Steps,
           files, device, process, bounds, history, Working, ApplySteps, Trying,
           RollbackSteps, UndoSteps, RecoverSteps, ProcessSteps
<1>UploadBegins. ASSUME NEW u \in Uploaders, NEW b \in Bundles, UploadBegins(u, b) PROVE KInv'
  BY <1>UploadBegins DEF UploadBegins, Pending
<1>UploadEnds. ASSUME NEW u \in Uploaders, UploadEnds(u) PROVE KInv'
  BY <1>UploadEnds DEF UploadEnds
<1>Book. ASSUME Book PROVE KInv'
  BY <1>Book DEF Book
<1> QED
  BY <1>UploadBegins, <1>UploadEnds, <1>Book DEF Dashboard

LEMMA KeptCycle == ASSUME TInv, TInv', KInv, Cycle PROVE KInv'
<1> USE DEF KInv, Kept, TInv, TypeOK, Databases, Saved, Journals, Control, OnTrial, Switched, Journalled, Step, Steps,
           files, device, process, bounds, history, Working, ApplySteps, Trying,
           RollbackSteps, UndoSteps, RecoverSteps, ProcessSteps
<1>CycleBegins. ASSUME CycleBegins PROVE KInv'
  BY <1>CycleBegins DEF CycleBegins, Pending
<1>CycleEnds. ASSUME CycleEnds PROVE KInv'
  BY <1>CycleEnds DEF CycleEnds
<1>CheckPasses. ASSUME CheckPasses PROVE KInv'
  BY <1>CheckPasses DEF CheckPasses
<1>CheckRefuses. ASSUME CheckRefuses PROVE KInv'
  BY <1>CheckRefuses DEF CheckRefuses
<1>AcceptJournal. ASSUME AcceptJournal PROVE KInv'
  BY <1>AcceptJournal DEF AcceptJournal
<1>AcceptMove. ASSUME AcceptMove PROVE KInv'
  BY <1>AcceptMove DEF AcceptMove
<1>Refuse. ASSUME Refuse PROVE KInv'
  BY <1>Refuse DEF Refuse
<1>Cleanup. ASSUME Cleanup PROVE KInv'
  BY <1>Cleanup DEF Cleanup
<1> QED
  BY <1>CycleBegins, <1>CycleEnds, <1>CheckPasses, <1>CheckRefuses, <1>AcceptJournal,
     <1>AcceptMove, <1>Refuse, <1>Cleanup DEF Cycle

LEMMA KeptApply == ASSUME TInv, TInv', KInv, Apply PROVE KInv'
<1> USE DEF KInv, Kept, TInv, TypeOK, Databases, Saved, Journals, Control, OnTrial, Switched, Journalled, Step, Steps,
           files, device, process, bounds, history, Working, ApplySteps, Trying,
           RollbackSteps, UndoSteps, RecoverSteps, ProcessSteps
<1>TagImage. ASSUME NEW i \in Images, TagImage(i) PROVE KInv'
  BY <1>TagImage DEF TagImage
<1>LoadImage. ASSUME NEW i \in Images, LoadImage(i) PROVE KInv'
  BY <1>LoadImage DEF LoadImage
<1>JournalTagged. ASSUME JournalTagged PROVE KInv'
  BY <1>JournalTagged DEF JournalTagged, JournalPhase
<1>JournalLoaded. ASSUME JournalLoaded PROVE KInv'
  BY <1>JournalLoaded DEF JournalLoaded, JournalPhase, AllAt
<1>StopWriters. ASSUME StopWriters PROVE KInv'
  BY <1>StopWriters DEF StopWriters
<1>CopyFiles. ASSUME CopyFiles PROVE KInv'
  BY <1>CopyFiles DEF CopyFiles
<1>SavePrevious. ASSUME SavePrevious PROVE KInv'
  BY <1>SavePrevious DEF SavePrevious
<1>JournalSaved. ASSUME JournalSaved PROVE KInv'
  BY <1>JournalSaved DEF JournalSaved, JournalPhase
<1>JournalSwitched. ASSUME JournalSwitched PROVE KInv'
  BY <1>JournalSwitched DEF JournalSwitched, JournalPhase
<1>MigrateBack. ASSUME MigrateBack PROVE KInv'
  BY <1>MigrateBack DEF MigrateBack
<1>SwitchCompose. ASSUME SwitchCompose PROVE KInv'
  BY <1>SwitchCompose DEF SwitchCompose
<1>SwitchInstall. ASSUME SwitchInstall PROVE KInv'
  BY <1>SwitchInstall DEF SwitchInstall
<1>StartNew. ASSUME StartNew PROVE KInv'
  BY <1>StartNew DEF StartNew, ComposeUp
<1>NewAnswers. ASSUME NewAnswers PROVE KInv'
  BY <1>NewAnswers DEF NewAnswers
<1>RecordInstalled. ASSUME RecordInstalled PROVE KInv'
  BY <1>RecordInstalled DEF RecordInstalled
<1>Commit. ASSUME Commit PROVE KInv'
  BY <1>Commit DEF Commit
<1>Forget. ASSUME Forget PROVE KInv'
  BY <1>Forget DEF Forget, ForgetPrevious
<1>FinishDone. ASSUME FinishDone PROVE KInv'
  BY <1>FinishDone DEF FinishDone
<1> QED
  BY <1>TagImage, <1>LoadImage, <1>JournalTagged, <1>JournalLoaded, <1>StopWriters,
     <1>CopyFiles, <1>SavePrevious, <1>JournalSaved, <1>JournalSwitched, <1>MigrateBack,
     <1>SwitchCompose, <1>SwitchInstall, <1>StartNew, <1>NewAnswers, <1>RecordInstalled,
     <1>Commit, <1>Forget, <1>FinishDone DEF Apply

LEMMA KeptUndo == ASSUME TInv, TInv', KInv, Undo PROVE KInv'
<1> USE DEF KInv, Kept, TInv, TypeOK, Databases, Saved, Journals, Control, OnTrial, Switched, Journalled, Step, Steps,
           files, device, process, bounds, history, Working, ApplySteps, Trying,
           RollbackSteps, UndoSteps, RecoverSteps, ProcessSteps
<1>RetagImage. ASSUME NEW i \in Images, RetagImage(i) PROVE KInv'
  BY <1>RetagImage DEF RetagImage
<1>JournalNoRetry. ASSUME JournalNoRetry PROVE KInv'
  BY <1>JournalNoRetry DEF JournalNoRetry
<1>UndoBegins. ASSUME UndoBegins PROVE KInv'
  BY <1>UndoBegins DEF UndoBegins
<1>Retagged. ASSUME Retagged PROVE KInv'
  BY <1>Retagged DEF Retagged
<1>DropPrevious. ASSUME DropPrevious PROVE KInv'
  BY <1>DropPrevious DEF DropPrevious
<1>RestoreCompose. ASSUME RestoreCompose PROVE KInv'
  BY <1>RestoreCompose DEF RestoreCompose
<1>RestoreInstall. ASSUME RestoreInstall PROVE KInv'
  BY <1>RestoreInstall DEF RestoreInstall
<1>StopForRollback. ASSUME StopForRollback PROVE KInv'
  BY <1>StopForRollback DEF StopForRollback
<1>LoadDatabase. ASSUME LoadDatabase PROVE KInv'
  BY <1>LoadDatabase DEF LoadDatabase
<1>StartOld. ASSUME StartOld PROVE KInv'
  BY <1>StartOld DEF StartOld, ComposeUp
<1>OldAnswers. ASSUME OldAnswers PROVE KInv'
  BY <1>OldAnswers DEF OldAnswers
<1>RestoreInstalled. ASSUME RestoreInstalled PROVE KInv'
  BY <1>RestoreInstalled DEF RestoreInstalled
<1>ProcessUndone. ASSUME ProcessUndone PROVE KInv'
  BY <1>ProcessUndone DEF ProcessUndone
<1>FinishRolledBack. ASSUME FinishRolledBack PROVE KInv'
  BY <1>FinishRolledBack DEF FinishRolledBack
<1> QED
  BY <1>RetagImage, <1>JournalNoRetry, <1>UndoBegins, <1>Retagged, <1>DropPrevious,
     <1>RestoreCompose, <1>RestoreInstall, <1>StopForRollback, <1>LoadDatabase, <1>StartOld,
     <1>OldAnswers, <1>RestoreInstalled, <1>ProcessUndone, <1>FinishRolledBack DEF Undo

LEMMA KeptRecover == ASSUME TInv, TInv', KInv, Recover PROVE KInv'
<1> USE DEF KInv, Kept, TInv, TypeOK, Databases, Saved, Journals, Control, OnTrial, Switched, Journalled, Step, Steps,
           files, device, process, bounds, history, Working, ApplySteps, Trying,
           RollbackSteps, UndoSteps, RecoverSteps, ProcessSteps
<1>RecoverNothing. ASSUME RecoverNothing PROVE KInv'
  BY <1>RecoverNothing DEF RecoverNothing, ForgetPrevious
<1>RecoverBegins. ASSUME RecoverBegins PROVE KInv'
  BY <1>RecoverBegins DEF RecoverBegins
<1>Requeue. ASSUME Requeue PROVE KInv'
  BY <1>Requeue DEF Requeue, RequeueUpTo
<1>RecoverUnlink. ASSUME RecoverUnlink PROVE KInv'
  BY <1>RecoverUnlink DEF RecoverUnlink
<1>RecoverFinish. ASSUME RecoverFinish PROVE KInv'
  BY <1>RecoverFinish DEF RecoverFinish, LeaveRecover, AfterRecover
<1>BootWithoutJournal. ASSUME BootWithoutJournal PROVE KInv'
  BY <1>BootWithoutJournal DEF BootWithoutJournal
<1>StackStarts. ASSUME StackStarts PROVE KInv'
  BY <1>StackStarts DEF StackStarts, StackUp, ComposeUp
<1> QED
  BY <1>RecoverNothing, <1>RecoverBegins, <1>Requeue, <1>RecoverUnlink, <1>RecoverFinish,
     <1>BootWithoutJournal, <1>StackStarts DEF Recover

LEMMA KeptTake == ASSUME TInv, TInv', KInv, Take PROVE KInv'
<1> USE DEF KInv, Kept, TInv, TypeOK, Databases, Saved, Journals, Control, OnTrial, Switched, Journalled, Step, Steps,
           files, device, process, bounds, history, Working, ApplySteps, Trying,
           RollbackSteps, UndoSteps, RecoverSteps, ProcessSteps
<1>TakeBundle. ASSUME NEW b \in Bundles, TakeBundle(b) PROVE KInv'
  BY <1>TakeBundle DEF TakeBundle
<1> QED
  BY <1>TakeBundle DEF Take

LEMMA KeptWait == ASSUME TInv, TInv', KInv, Wait PROVE KInv'
<1> USE DEF KInv, Kept, TInv, TypeOK, Databases, Saved, Journals, Control, OnTrial, Switched, Journalled, Step, Steps,
           files, device, process, bounds, history, Working, ApplySteps, Trying,
           RollbackSteps, UndoSteps, RecoverSteps, ProcessSteps
<1>WaitForOthers. ASSUME NEW b \in Bundles, WaitForOthers(b) PROVE KInv'
  BY <1>WaitForOthers DEF WaitForOthers
<1> QED
  BY <1>WaitForOthers DEF Wait

LEMMA KeptFaults == ASSUME TInv, TInv', KInv, Faults PROVE KInv'
<1> USE DEF KInv, Kept, TInv, TypeOK, Databases, Saved, Journals, Control, OnTrial, Switched, Journalled, Step, Steps,
           files, device, process, bounds, history, Working, ApplySteps, Trying,
           RollbackSteps, UndoSteps, RecoverSteps, ProcessSteps
<1>AcceptFails. ASSUME AcceptFails PROVE KInv'
  BY <1>AcceptFails DEF AcceptFails
<1>ApplyFails. ASSUME ApplyFails PROVE KInv'
  BY <1>ApplyFails DEF ApplyFails
<1>StopUnnoticed. ASSUME StopUnnoticed PROVE KInv'
  BY <1>StopUnnoticed DEF StopUnnoticed
<1>CycleAborts. ASSUME CycleAborts PROVE KInv'
  BY <1>CycleAborts DEF CycleAborts
<1>ProcessUndoFails. ASSUME ProcessUndoFails PROVE KInv'
  BY <1>ProcessUndoFails DEF ProcessUndoFails
<1>RecoverNothingFails. ASSUME RecoverNothingFails PROVE KInv'
  BY <1>RecoverNothingFails DEF RecoverNothingFails
<1>RecoverUndoFails. ASSUME RecoverUndoFails PROVE KInv'
  BY <1>RecoverUndoFails DEF RecoverUndoFails, LeaveRecover, AfterRecover
<1>RecoverAborts. ASSUME RecoverAborts PROVE KInv'
  BY <1>RecoverAborts DEF RecoverAborts, LeaveRecover, AfterRecover
<1>PowerCut. ASSUME PowerCut PROVE KInv'
  BY <1>PowerCut DEF PowerCut
<1>Kill. ASSUME Kill PROVE KInv'
  BY <1>Kill DEF Kill
<1>StackFails. ASSUME StackFails PROVE KInv'
  BY <1>StackFails DEF StackFails
<1>WatchdogRestarts. ASSUME WatchdogRestarts PROVE KInv'
  BY <1>WatchdogRestarts DEF WatchdogRestarts, StackUp, ComposeUp
<1> QED
  BY <1>AcceptFails, <1>ApplyFails, <1>StopUnnoticed, <1>CycleAborts, <1>ProcessUndoFails,
     <1>RecoverNothingFails, <1>RecoverUndoFails, <1>RecoverAborts, <1>PowerCut, <1>Kill,
     <1>StackFails, <1>WatchdogRestarts DEF Faults

LEMMA KeptNext == TInv /\ KInv /\ [Next]_vars => KInv'
<1> SUFFICES ASSUME TInv, KInv, [Next]_vars PROVE KInv'
  OBVIOUS
<1>1. CASE Next
  BY <1>1, TypedNext, KeptDashboard, KeptCycle, KeptApply, KeptUndo, KeptRecover, KeptTake,
     KeptWait, KeptFaults DEF Next
<1>2. CASE UNCHANGED vars
  BY <1>2 DEF vars, files, device, process, bounds, history, KInv, Kept, OnTrial, Switched, Journalled
<1> QED
  BY <1>1, <1>2

\* Whatever was booked while no update was on trial stays in the database: no power cut, no
\* failing command and no rollback takes it back (save(), rollback(), undo()).
THEOREM BookingsKept == Spec => []KeptBookings
<1>1. KInv => KeptBookings
  BY DEF KInv, Kept, KeptBookings
<1> QED
  BY KeptInit, KeptNext, Typed, <1>1, PTL DEF Spec

LEMMA HeldInit == Init => PInv
BY DEF Init, PInv, Checked, Trying, Acceptable, OnTrial, Switched, Journalled

LEMMA HeldDashboard == ASSUME TInv, TInv', PInv, Dashboard PROVE PInv'
<1> USE DEF PInv, Checked, Acceptable, TInv, TypeOK, Databases, Saved, Journals, Control, OnTrial, Switched, Journalled, Step, Steps,
           files, device, process, bounds, history, Working, ApplySteps, Trying,
           RollbackSteps, UndoSteps, RecoverSteps, ProcessSteps
<1>UploadBegins. ASSUME NEW u \in Uploaders, NEW b \in Bundles, UploadBegins(u, b) PROVE PInv'
  BY <1>UploadBegins DEF UploadBegins, Pending
<1>UploadEnds. ASSUME NEW u \in Uploaders, UploadEnds(u) PROVE PInv'
  BY <1>UploadEnds DEF UploadEnds
<1>Book. ASSUME Book PROVE PInv'
  BY <1>Book DEF Book
<1> QED
  BY <1>UploadBegins, <1>UploadEnds, <1>Book DEF Dashboard

LEMMA HeldCycle == ASSUME TInv, TInv', PInv, Cycle PROVE PInv'
<1> USE DEF PInv, Checked, Acceptable, TInv, TypeOK, Databases, Saved, Journals, Control, OnTrial, Switched, Journalled, Step, Steps,
           files, device, process, bounds, history, Working, ApplySteps, Trying,
           RollbackSteps, UndoSteps, RecoverSteps, ProcessSteps
<1>CycleBegins. ASSUME CycleBegins PROVE PInv'
  BY <1>CycleBegins DEF CycleBegins, Pending
<1>CycleEnds. ASSUME CycleEnds PROVE PInv'
  BY <1>CycleEnds DEF CycleEnds
<1>CheckPasses. ASSUME CheckPasses PROVE PInv'
  BY <1>CheckPasses DEF CheckPasses
<1>CheckRefuses. ASSUME CheckRefuses PROVE PInv'
  BY <1>CheckRefuses DEF CheckRefuses
<1>AcceptJournal. ASSUME AcceptJournal PROVE PInv'
  BY <1>AcceptJournal DEF AcceptJournal
<1>AcceptMove. ASSUME AcceptMove PROVE PInv'
  BY <1>AcceptMove DEF AcceptMove
<1>Refuse. ASSUME Refuse PROVE PInv'
  BY <1>Refuse DEF Refuse
<1>Cleanup. ASSUME Cleanup PROVE PInv'
  BY <1>Cleanup DEF Cleanup
<1> QED
  BY <1>CycleBegins, <1>CycleEnds, <1>CheckPasses, <1>CheckRefuses, <1>AcceptJournal,
     <1>AcceptMove, <1>Refuse, <1>Cleanup DEF Cycle

LEMMA HeldApply == ASSUME TInv, TInv', PInv, Apply PROVE PInv'
<1> USE DEF PInv, Checked, Acceptable, TInv, TypeOK, Databases, Saved, Journals, Control, OnTrial, Switched, Journalled, Step, Steps,
           files, device, process, bounds, history, Working, ApplySteps, Trying,
           RollbackSteps, UndoSteps, RecoverSteps, ProcessSteps
<1>TagImage. ASSUME NEW i \in Images, TagImage(i) PROVE PInv'
  BY <1>TagImage DEF TagImage
<1>LoadImage. ASSUME NEW i \in Images, LoadImage(i) PROVE PInv'
  BY <1>LoadImage DEF LoadImage
<1>JournalTagged. ASSUME JournalTagged PROVE PInv'
  BY <1>JournalTagged DEF JournalTagged, JournalPhase
<1>JournalLoaded. ASSUME JournalLoaded PROVE PInv'
  BY <1>JournalLoaded DEF JournalLoaded, JournalPhase, AllAt
<1>StopWriters. ASSUME StopWriters PROVE PInv'
  BY <1>StopWriters DEF StopWriters
<1>CopyFiles. ASSUME CopyFiles PROVE PInv'
  BY <1>CopyFiles DEF CopyFiles
<1>SavePrevious. ASSUME SavePrevious PROVE PInv'
  BY <1>SavePrevious DEF SavePrevious
<1>JournalSaved. ASSUME JournalSaved PROVE PInv'
  BY <1>JournalSaved DEF JournalSaved, JournalPhase
<1>JournalSwitched. ASSUME JournalSwitched PROVE PInv'
  BY <1>JournalSwitched DEF JournalSwitched, JournalPhase
<1>MigrateBack. ASSUME MigrateBack PROVE PInv'
  BY <1>MigrateBack DEF MigrateBack
<1>SwitchCompose. ASSUME SwitchCompose PROVE PInv'
  BY <1>SwitchCompose DEF SwitchCompose
<1>SwitchInstall. ASSUME SwitchInstall PROVE PInv'
  BY <1>SwitchInstall DEF SwitchInstall
<1>StartNew. ASSUME StartNew PROVE PInv'
  BY <1>StartNew DEF StartNew, ComposeUp
<1>NewAnswers. ASSUME NewAnswers PROVE PInv'
  BY <1>NewAnswers DEF NewAnswers
<1>RecordInstalled. ASSUME RecordInstalled PROVE PInv'
  BY <1>RecordInstalled DEF RecordInstalled
<1>Commit. ASSUME Commit PROVE PInv'
  BY <1>Commit DEF Commit
<1>Forget. ASSUME Forget PROVE PInv'
  BY <1>Forget DEF Forget, ForgetPrevious
<1>FinishDone. ASSUME FinishDone PROVE PInv'
  BY <1>FinishDone DEF FinishDone
<1> QED
  BY <1>TagImage, <1>LoadImage, <1>JournalTagged, <1>JournalLoaded, <1>StopWriters,
     <1>CopyFiles, <1>SavePrevious, <1>JournalSaved, <1>JournalSwitched, <1>MigrateBack,
     <1>SwitchCompose, <1>SwitchInstall, <1>StartNew, <1>NewAnswers, <1>RecordInstalled,
     <1>Commit, <1>Forget, <1>FinishDone DEF Apply

LEMMA HeldUndo == ASSUME TInv, TInv', PInv, Undo PROVE PInv'
<1> USE DEF PInv, Checked, Acceptable, TInv, TypeOK, Databases, Saved, Journals, Control, OnTrial, Switched, Journalled, Step, Steps,
           files, device, process, bounds, history, Working, ApplySteps, Trying,
           RollbackSteps, UndoSteps, RecoverSteps, ProcessSteps
<1>RetagImage. ASSUME NEW i \in Images, RetagImage(i) PROVE PInv'
  BY <1>RetagImage DEF RetagImage
<1>JournalNoRetry. ASSUME JournalNoRetry PROVE PInv'
  BY <1>JournalNoRetry DEF JournalNoRetry
<1>UndoBegins. ASSUME UndoBegins PROVE PInv'
  BY <1>UndoBegins DEF UndoBegins
<1>Retagged. ASSUME Retagged PROVE PInv'
  BY <1>Retagged DEF Retagged
<1>DropPrevious. ASSUME DropPrevious PROVE PInv'
  BY <1>DropPrevious DEF DropPrevious
<1>RestoreCompose. ASSUME RestoreCompose PROVE PInv'
  BY <1>RestoreCompose DEF RestoreCompose
<1>RestoreInstall. ASSUME RestoreInstall PROVE PInv'
  BY <1>RestoreInstall DEF RestoreInstall
<1>StopForRollback. ASSUME StopForRollback PROVE PInv'
  BY <1>StopForRollback DEF StopForRollback
<1>LoadDatabase. ASSUME LoadDatabase PROVE PInv'
  BY <1>LoadDatabase DEF LoadDatabase
<1>StartOld. ASSUME StartOld PROVE PInv'
  BY <1>StartOld DEF StartOld, ComposeUp
<1>OldAnswers. ASSUME OldAnswers PROVE PInv'
  BY <1>OldAnswers DEF OldAnswers
<1>RestoreInstalled. ASSUME RestoreInstalled PROVE PInv'
  BY <1>RestoreInstalled DEF RestoreInstalled
<1>ProcessUndone. ASSUME ProcessUndone PROVE PInv'
  BY <1>ProcessUndone DEF ProcessUndone
<1>FinishRolledBack. ASSUME FinishRolledBack PROVE PInv'
  BY <1>FinishRolledBack DEF FinishRolledBack
<1> QED
  BY <1>RetagImage, <1>JournalNoRetry, <1>UndoBegins, <1>Retagged, <1>DropPrevious,
     <1>RestoreCompose, <1>RestoreInstall, <1>StopForRollback, <1>LoadDatabase, <1>StartOld,
     <1>OldAnswers, <1>RestoreInstalled, <1>ProcessUndone, <1>FinishRolledBack DEF Undo

LEMMA HeldRecover == ASSUME TInv, TInv', PInv, Recover PROVE PInv'
<1> USE DEF PInv, Checked, Acceptable, TInv, TypeOK, Databases, Saved, Journals, Control, OnTrial, Switched, Journalled, Step, Steps,
           files, device, process, bounds, history, Working, ApplySteps, Trying,
           RollbackSteps, UndoSteps, RecoverSteps, ProcessSteps
<1>RecoverNothing. ASSUME RecoverNothing PROVE PInv'
  BY <1>RecoverNothing DEF RecoverNothing, ForgetPrevious
<1>RecoverBegins. ASSUME RecoverBegins PROVE PInv'
  BY <1>RecoverBegins DEF RecoverBegins
<1>Requeue. ASSUME Requeue PROVE PInv'
  BY <1>Requeue DEF Requeue, RequeueUpTo
<1>RecoverUnlink. ASSUME RecoverUnlink PROVE PInv'
  BY <1>RecoverUnlink DEF RecoverUnlink
<1>RecoverFinish. ASSUME RecoverFinish PROVE PInv'
  BY <1>RecoverFinish DEF RecoverFinish, LeaveRecover, AfterRecover
<1>BootWithoutJournal. ASSUME BootWithoutJournal PROVE PInv'
  BY <1>BootWithoutJournal DEF BootWithoutJournal
<1>StackStarts. ASSUME StackStarts PROVE PInv'
  BY <1>StackStarts DEF StackStarts, StackUp, ComposeUp
<1> QED
  BY <1>RecoverNothing, <1>RecoverBegins, <1>Requeue, <1>RecoverUnlink, <1>RecoverFinish,
     <1>BootWithoutJournal, <1>StackStarts DEF Recover

LEMMA HeldTake == ASSUME TInv, TInv', PInv, Take PROVE PInv'
<1> USE DEF PInv, Checked, Acceptable, TInv, TypeOK, Databases, Saved, Journals, Control, OnTrial, Switched, Journalled, Step, Steps,
           files, device, process, bounds, history, Working, ApplySteps, Trying,
           RollbackSteps, UndoSteps, RecoverSteps, ProcessSteps
<1>TakeBundle. ASSUME NEW b \in Bundles, TakeBundle(b) PROVE PInv'
  BY <1>TakeBundle DEF TakeBundle
<1> QED
  BY <1>TakeBundle DEF Take

LEMMA HeldWait == ASSUME TInv, TInv', PInv, Wait PROVE PInv'
<1> USE DEF PInv, Checked, Acceptable, TInv, TypeOK, Databases, Saved, Journals, Control, OnTrial, Switched, Journalled, Step, Steps,
           files, device, process, bounds, history, Working, ApplySteps, Trying,
           RollbackSteps, UndoSteps, RecoverSteps, ProcessSteps
<1>WaitForOthers. ASSUME NEW b \in Bundles, WaitForOthers(b) PROVE PInv'
  BY <1>WaitForOthers DEF WaitForOthers
<1> QED
  BY <1>WaitForOthers DEF Wait

LEMMA HeldFaults == ASSUME TInv, TInv', PInv, Faults PROVE PInv'
<1> USE DEF PInv, Checked, Acceptable, TInv, TypeOK, Databases, Saved, Journals, Control, OnTrial, Switched, Journalled, Step, Steps,
           files, device, process, bounds, history, Working, ApplySteps, Trying,
           RollbackSteps, UndoSteps, RecoverSteps, ProcessSteps
<1>AcceptFails. ASSUME AcceptFails PROVE PInv'
  BY <1>AcceptFails DEF AcceptFails
<1>ApplyFails. ASSUME ApplyFails PROVE PInv'
  BY <1>ApplyFails DEF ApplyFails
<1>StopUnnoticed. ASSUME StopUnnoticed PROVE PInv'
  BY <1>StopUnnoticed DEF StopUnnoticed
<1>CycleAborts. ASSUME CycleAborts PROVE PInv'
  BY <1>CycleAborts DEF CycleAborts
<1>ProcessUndoFails. ASSUME ProcessUndoFails PROVE PInv'
  BY <1>ProcessUndoFails DEF ProcessUndoFails
<1>RecoverNothingFails. ASSUME RecoverNothingFails PROVE PInv'
  BY <1>RecoverNothingFails DEF RecoverNothingFails
<1>RecoverUndoFails. ASSUME RecoverUndoFails PROVE PInv'
  BY <1>RecoverUndoFails DEF RecoverUndoFails, LeaveRecover, AfterRecover
<1>RecoverAborts. ASSUME RecoverAborts PROVE PInv'
  BY <1>RecoverAborts DEF RecoverAborts, LeaveRecover, AfterRecover
<1>PowerCut. ASSUME PowerCut PROVE PInv'
  BY <1>PowerCut DEF PowerCut
<1>Kill. ASSUME Kill PROVE PInv'
  BY <1>Kill DEF Kill
<1>StackFails. ASSUME StackFails PROVE PInv'
  BY <1>StackFails DEF StackFails
<1>WatchdogRestarts. ASSUME WatchdogRestarts PROVE PInv'
  BY <1>WatchdogRestarts DEF WatchdogRestarts, StackUp, ComposeUp
<1> QED
  BY <1>AcceptFails, <1>ApplyFails, <1>StopUnnoticed, <1>CycleAborts, <1>ProcessUndoFails,
     <1>RecoverNothingFails, <1>RecoverUndoFails, <1>RecoverAborts, <1>PowerCut, <1>Kill,
     <1>StackFails, <1>WatchdogRestarts DEF Faults

LEMMA HeldNext == TInv /\ PInv /\ [Next]_vars => PInv'
<1> SUFFICES ASSUME TInv, PInv, [Next]_vars PROVE PInv'
  OBVIOUS
<1>1. CASE Next
  BY <1>1, TypedNext, HeldDashboard, HeldCycle, HeldApply, HeldUndo, HeldRecover, HeldTake,
     HeldWait, HeldFaults DEF Next
<1>2. CASE UNCHANGED vars
  BY <1>2 DEF vars, files, device, process, bounds, history, PInv, Checked, Trying, Acceptable, OnTrial, Switched, Journalled
<1> QED
  BY <1>1, <1>2

-----------------------------------------------------------------------------
(* The device implements AtomicUpdate.                                     *)

Mapped == Promise!Next \/ UNCHANGED <<StandsFor, Ledger>>

LEMMA InstallMaps ==
  ASSUME StandsFor' \in Versions, Acceptable(StandsFor', StandsFor), Ledger \subseteq Ledger'
  PROVE  Mapped
BY DEF Mapped, Promise!Next, Promise!Install

LEMMA BookMaps == ASSUME StandsFor' = StandsFor, Ledger \subseteq Ledger' PROVE Mapped
BY DEF Mapped, Promise!Next, Promise!Book

LEMMA MapsDashboard == ASSUME TInv, TInv', PInv, PInv', Dashboard PROVE Mapped
<1> USE DEF PInv, Checked, Acceptable, TInv, TypeOK, Control, OnTrial, Switched, Journalled, Databases,
           Saved, Journals, Step, Steps, files, device, process, bounds, history, Working, ApplySteps,
           Trying, RollbackSteps, UndoSteps, RecoverSteps, ProcessSteps, Mapped, StandsFor, Ledger
<1>UploadBegins. ASSUME NEW u \in Uploaders, NEW b \in Bundles, UploadBegins(u, b) PROVE Mapped
  BY <1>UploadBegins DEF UploadBegins, Pending
<1>UploadEnds. ASSUME NEW u \in Uploaders, UploadEnds(u) PROVE Mapped
  BY <1>UploadEnds DEF UploadEnds
<1>Book. ASSUME Book PROVE Mapped
  <2>1. StandsFor' = StandsFor /\ Ledger \subseteq Ledger'
    BY <1>Book DEF Book
  <2> QED
    BY <2>1, BookMaps
<1> QED
  BY <1>UploadBegins, <1>UploadEnds, <1>Book DEF Dashboard

LEMMA MapsCycle == ASSUME TInv, TInv', PInv, PInv', Cycle PROVE Mapped
<1> USE DEF PInv, Checked, Acceptable, TInv, TypeOK, Control, OnTrial, Switched, Journalled, Databases,
           Saved, Journals, Step, Steps, files, device, process, bounds, history, Working, ApplySteps,
           Trying, RollbackSteps, UndoSteps, RecoverSteps, ProcessSteps, Mapped, StandsFor, Ledger
<1>CycleBegins. ASSUME CycleBegins PROVE Mapped
  BY <1>CycleBegins DEF CycleBegins, Pending
<1>CycleEnds. ASSUME CycleEnds PROVE Mapped
  BY <1>CycleEnds DEF CycleEnds
<1>CheckPasses. ASSUME CheckPasses PROVE Mapped
  BY <1>CheckPasses DEF CheckPasses
<1>CheckRefuses. ASSUME CheckRefuses PROVE Mapped
  BY <1>CheckRefuses DEF CheckRefuses
<1>AcceptJournal. ASSUME AcceptJournal PROVE Mapped
  <2>1. ~OnTrial' /\ StandsFor' = installed /\ Ledger' = db.rows
    BY <1>AcceptJournal DEF AcceptJournal
  <2>2. CASE ~OnTrial
    BY <2>1, <2>2
  <2>3. CASE OnTrial /\ installed = previous.installed
    <3>1. StandsFor' = StandsFor /\ Ledger \subseteq Ledger'
      BY <2>1, <2>3
    <3> QED
      BY <3>1, BookMaps
  <2>4. CASE OnTrial /\ Acceptable(installed, previous.installed)
    <3>1. StandsFor' \in Versions /\ Acceptable(StandsFor', StandsFor) /\ Ledger \subseteq Ledger'
      BY <2>1, <2>4
    <3> QED
      BY <3>1, InstallMaps
  <2> QED
    BY <2>2, <2>3, <2>4
<1>AcceptMove. ASSUME AcceptMove PROVE Mapped
  BY <1>AcceptMove DEF AcceptMove
<1>Refuse. ASSUME Refuse PROVE Mapped
  BY <1>Refuse DEF Refuse
<1>Cleanup. ASSUME Cleanup PROVE Mapped
  BY <1>Cleanup DEF Cleanup
<1> QED
  BY <1>CycleBegins, <1>CycleEnds, <1>CheckPasses, <1>CheckRefuses, <1>AcceptJournal,
     <1>AcceptMove, <1>Refuse, <1>Cleanup DEF Cycle

LEMMA MapsApply == ASSUME TInv, TInv', PInv, PInv', Apply PROVE Mapped
<1> USE DEF PInv, Checked, Acceptable, TInv, TypeOK, Control, OnTrial, Switched, Journalled, Databases,
           Saved, Journals, Step, Steps, files, device, process, bounds, history, Working, ApplySteps,
           Trying, RollbackSteps, UndoSteps, RecoverSteps, ProcessSteps, Mapped, StandsFor, Ledger
<1>TagImage. ASSUME NEW i \in Images, TagImage(i) PROVE Mapped
  BY <1>TagImage DEF TagImage
<1>LoadImage. ASSUME NEW i \in Images, LoadImage(i) PROVE Mapped
  BY <1>LoadImage DEF LoadImage
<1>JournalTagged. ASSUME JournalTagged PROVE Mapped
  BY <1>JournalTagged DEF JournalTagged, JournalPhase
<1>JournalLoaded. ASSUME JournalLoaded PROVE Mapped
  BY <1>JournalLoaded DEF JournalLoaded, JournalPhase, AllAt
<1>StopWriters. ASSUME StopWriters PROVE Mapped
  BY <1>StopWriters DEF StopWriters
<1>CopyFiles. ASSUME CopyFiles PROVE Mapped
  BY <1>CopyFiles DEF CopyFiles
<1>SavePrevious. ASSUME SavePrevious PROVE Mapped
  <2>1. ~OnTrial /\ ~OnTrial'
    BY <1>SavePrevious DEF SavePrevious, Loaded
  <2>2. UNCHANGED <<installed, db>>
    BY <1>SavePrevious DEF SavePrevious
  <2> QED
    BY <2>1, <2>2
<1>JournalSaved. ASSUME JournalSaved PROVE Mapped
  BY <1>JournalSaved DEF JournalSaved, JournalPhase
<1>JournalSwitched. ASSUME JournalSwitched PROVE Mapped
  BY <1>JournalSwitched DEF JournalSwitched, JournalPhase
<1>MigrateBack. ASSUME MigrateBack PROVE Mapped
  BY <1>MigrateBack DEF MigrateBack
<1>SwitchCompose. ASSUME SwitchCompose PROVE Mapped
  BY <1>SwitchCompose DEF SwitchCompose
<1>SwitchInstall. ASSUME SwitchInstall PROVE Mapped
  BY <1>SwitchInstall DEF SwitchInstall
<1>StartNew. ASSUME StartNew PROVE Mapped
  BY <1>StartNew DEF StartNew, ComposeUp
<1>NewAnswers. ASSUME NewAnswers PROVE Mapped
  BY <1>NewAnswers DEF NewAnswers
<1>RecordInstalled. ASSUME RecordInstalled PROVE Mapped
  BY <1>RecordInstalled DEF RecordInstalled
<1>Commit. ASSUME Commit PROVE Mapped
  <2>1. StandsFor = previous.installed /\ StandsFor' = cur
    BY <1>Commit DEF Commit
  <2>2. Ledger \subseteq Ledger' /\ cur \in Versions /\ Acceptable(cur, previous.installed)
    BY <1>Commit DEF Commit
  <2> QED
    BY <2>1, <2>2, InstallMaps
<1>Forget. ASSUME Forget PROVE Mapped
  BY <1>Forget DEF Forget, ForgetPrevious
<1>FinishDone. ASSUME FinishDone PROVE Mapped
  BY <1>FinishDone DEF FinishDone
<1> QED
  BY <1>TagImage, <1>LoadImage, <1>JournalTagged, <1>JournalLoaded, <1>StopWriters,
     <1>CopyFiles, <1>SavePrevious, <1>JournalSaved, <1>JournalSwitched, <1>MigrateBack,
     <1>SwitchCompose, <1>SwitchInstall, <1>StartNew, <1>NewAnswers, <1>RecordInstalled,
     <1>Commit, <1>Forget, <1>FinishDone DEF Apply

LEMMA MapsUndo == ASSUME TInv, TInv', PInv, PInv', Undo PROVE Mapped
<1> USE DEF PInv, Checked, Acceptable, TInv, TypeOK, Control, OnTrial, Switched, Journalled, Databases,
           Saved, Journals, Step, Steps, files, device, process, bounds, history, Working, ApplySteps,
           Trying, RollbackSteps, UndoSteps, RecoverSteps, ProcessSteps, Mapped, StandsFor, Ledger
<1>RetagImage. ASSUME NEW i \in Images, RetagImage(i) PROVE Mapped
  BY <1>RetagImage DEF RetagImage
<1>JournalNoRetry. ASSUME JournalNoRetry PROVE Mapped
  BY <1>JournalNoRetry DEF JournalNoRetry
<1>UndoBegins. ASSUME UndoBegins PROVE Mapped
  BY <1>UndoBegins DEF UndoBegins
<1>Retagged. ASSUME Retagged PROVE Mapped
  BY <1>Retagged DEF Retagged
<1>DropPrevious. ASSUME DropPrevious PROVE Mapped
  <2>1. StandsFor' = StandsFor /\ Ledger \subseteq Ledger'
    BY <1>DropPrevious DEF DropPrevious
  <2> QED
    BY <2>1, BookMaps
<1>RestoreCompose. ASSUME RestoreCompose PROVE Mapped
  BY <1>RestoreCompose DEF RestoreCompose
<1>RestoreInstall. ASSUME RestoreInstall PROVE Mapped
  BY <1>RestoreInstall DEF RestoreInstall
<1>StopForRollback. ASSUME StopForRollback PROVE Mapped
  BY <1>StopForRollback DEF StopForRollback
<1>LoadDatabase. ASSUME LoadDatabase PROVE Mapped
  BY <1>LoadDatabase DEF LoadDatabase
<1>StartOld. ASSUME StartOld PROVE Mapped
  BY <1>StartOld DEF StartOld, ComposeUp
<1>OldAnswers. ASSUME OldAnswers PROVE Mapped
  BY <1>OldAnswers DEF OldAnswers
<1>RestoreInstalled. ASSUME RestoreInstalled PROVE Mapped
  BY <1>RestoreInstalled DEF RestoreInstalled
<1>ProcessUndone. ASSUME ProcessUndone PROVE Mapped
  BY <1>ProcessUndone DEF ProcessUndone
<1>FinishRolledBack. ASSUME FinishRolledBack PROVE Mapped
  BY <1>FinishRolledBack DEF FinishRolledBack
<1> QED
  BY <1>RetagImage, <1>JournalNoRetry, <1>UndoBegins, <1>Retagged, <1>DropPrevious,
     <1>RestoreCompose, <1>RestoreInstall, <1>StopForRollback, <1>LoadDatabase, <1>StartOld,
     <1>OldAnswers, <1>RestoreInstalled, <1>ProcessUndone, <1>FinishRolledBack DEF Undo

LEMMA MapsRecover == ASSUME TInv, TInv', PInv, PInv', Recover PROVE Mapped
<1> USE DEF PInv, Checked, Acceptable, TInv, TypeOK, Control, OnTrial, Switched, Journalled, Databases,
           Saved, Journals, Step, Steps, files, device, process, bounds, history, Working, ApplySteps,
           Trying, RollbackSteps, UndoSteps, RecoverSteps, ProcessSteps, Mapped, StandsFor, Ledger
<1>RecoverNothing. ASSUME RecoverNothing PROVE Mapped
  BY <1>RecoverNothing DEF RecoverNothing, ForgetPrevious
<1>RecoverBegins. ASSUME RecoverBegins PROVE Mapped
  BY <1>RecoverBegins DEF RecoverBegins
<1>Requeue. ASSUME Requeue PROVE Mapped
  BY <1>Requeue DEF Requeue, RequeueUpTo
<1>RecoverUnlink. ASSUME RecoverUnlink PROVE Mapped
  BY <1>RecoverUnlink DEF RecoverUnlink
<1>RecoverFinish. ASSUME RecoverFinish PROVE Mapped
  BY <1>RecoverFinish DEF RecoverFinish, LeaveRecover, AfterRecover
<1>BootWithoutJournal. ASSUME BootWithoutJournal PROVE Mapped
  BY <1>BootWithoutJournal DEF BootWithoutJournal
<1>StackStarts. ASSUME StackStarts PROVE Mapped
  BY <1>StackStarts DEF StackStarts, StackUp, ComposeUp
<1> QED
  BY <1>RecoverNothing, <1>RecoverBegins, <1>Requeue, <1>RecoverUnlink, <1>RecoverFinish,
     <1>BootWithoutJournal, <1>StackStarts DEF Recover

LEMMA MapsTake == ASSUME TInv, TInv', PInv, PInv', Take PROVE Mapped
<1> USE DEF PInv, Checked, Acceptable, TInv, TypeOK, Control, OnTrial, Switched, Journalled, Databases,
           Saved, Journals, Step, Steps, files, device, process, bounds, history, Working, ApplySteps,
           Trying, RollbackSteps, UndoSteps, RecoverSteps, ProcessSteps, Mapped, StandsFor, Ledger
<1>TakeBundle. ASSUME NEW b \in Bundles, TakeBundle(b) PROVE Mapped
  BY <1>TakeBundle DEF TakeBundle
<1> QED
  BY <1>TakeBundle DEF Take

LEMMA MapsWait == ASSUME TInv, TInv', PInv, PInv', Wait PROVE Mapped
<1> USE DEF PInv, Checked, Acceptable, TInv, TypeOK, Control, OnTrial, Switched, Journalled, Databases,
           Saved, Journals, Step, Steps, files, device, process, bounds, history, Working, ApplySteps,
           Trying, RollbackSteps, UndoSteps, RecoverSteps, ProcessSteps, Mapped, StandsFor, Ledger
<1>WaitForOthers. ASSUME NEW b \in Bundles, WaitForOthers(b) PROVE Mapped
  BY <1>WaitForOthers DEF WaitForOthers
<1> QED
  BY <1>WaitForOthers DEF Wait

LEMMA MapsFaults == ASSUME TInv, TInv', PInv, PInv', Faults PROVE Mapped
<1> USE DEF PInv, Checked, Acceptable, TInv, TypeOK, Control, OnTrial, Switched, Journalled, Databases,
           Saved, Journals, Step, Steps, files, device, process, bounds, history, Working, ApplySteps,
           Trying, RollbackSteps, UndoSteps, RecoverSteps, ProcessSteps, Mapped, StandsFor, Ledger
<1>AcceptFails. ASSUME AcceptFails PROVE Mapped
  BY <1>AcceptFails DEF AcceptFails
<1>ApplyFails. ASSUME ApplyFails PROVE Mapped
  BY <1>ApplyFails DEF ApplyFails
<1>StopUnnoticed. ASSUME StopUnnoticed PROVE Mapped
  BY <1>StopUnnoticed DEF StopUnnoticed
<1>CycleAborts. ASSUME CycleAborts PROVE Mapped
  BY <1>CycleAborts DEF CycleAborts
<1>ProcessUndoFails. ASSUME ProcessUndoFails PROVE Mapped
  BY <1>ProcessUndoFails DEF ProcessUndoFails
<1>RecoverNothingFails. ASSUME RecoverNothingFails PROVE Mapped
  BY <1>RecoverNothingFails DEF RecoverNothingFails
<1>RecoverUndoFails. ASSUME RecoverUndoFails PROVE Mapped
  BY <1>RecoverUndoFails DEF RecoverUndoFails, LeaveRecover, AfterRecover
<1>RecoverAborts. ASSUME RecoverAborts PROVE Mapped
  BY <1>RecoverAborts DEF RecoverAborts, LeaveRecover, AfterRecover
<1>PowerCut. ASSUME PowerCut PROVE Mapped
  BY <1>PowerCut DEF PowerCut
<1>Kill. ASSUME Kill PROVE Mapped
  BY <1>Kill DEF Kill
<1>StackFails. ASSUME StackFails PROVE Mapped
  BY <1>StackFails DEF StackFails
<1>WatchdogRestarts. ASSUME WatchdogRestarts PROVE Mapped
  BY <1>WatchdogRestarts DEF WatchdogRestarts, StackUp, ComposeUp
<1> QED
  BY <1>AcceptFails, <1>ApplyFails, <1>StopUnnoticed, <1>CycleAborts, <1>ProcessUndoFails,
     <1>RecoverNothingFails, <1>RecoverUndoFails, <1>RecoverAborts, <1>PowerCut, <1>Kill,
     <1>StackFails, <1>WatchdogRestarts DEF Faults

LEMMA MapsNext == TInv /\ PInv /\ [Next]_vars => [Promise!Next]_<<StandsFor, Ledger>>
<1> SUFFICES ASSUME TInv, PInv, [Next]_vars PROVE Mapped
  BY DEF Mapped
<1>1. CASE Next
  BY <1>1, TypedNext, HeldNext, MapsDashboard, MapsCycle, MapsApply, MapsUndo, MapsRecover,
     MapsTake, MapsWait, MapsFaults DEF Next
<1>2. CASE UNCHANGED vars
  BY <1>2 DEF vars, files, device, process, bounds, history, Mapped, StandsFor, Ledger, OnTrial,
              Switched, Journalled
<1> QED
  BY <1>1, <1>2

\* The watcher, with every power cut and failure, implements AtomicUpdate: the version the device
\* stands for changes only at the commit (JOURNAL_FILE.unlink() in process_bundle, or when a
\* later update finds the journal of a rollback that failed), only to a version check_bundle()
\* accepts over it, and a booking in the ledger stays there.
THEOREM Implements == Spec => PromiseKept
<1>1. Init => Promise!Init
  BY DEF Init, Promise!Init, StandsFor, Ledger, OnTrial, Switched, Journalled
<1>2. Spec => []PInv
  BY HeldInit, HeldNext, Typed, PTL DEF Spec
<1> QED
  BY <1>1, <1>2, Typed, MapsNext, PTL DEF Spec, PromiseKept, Promise!Spec

-----------------------------------------------------------------------------
(* How often a bundle runs.                                                *)

LEMMA CountedInit == Init => AInv
BY DEF Init, AInv, Counts, Queued, Working, ApplySteps, Journalled

LEMMA CountedDashboard == ASSUME TInv, TInv', AInv, Dashboard PROVE AInv'
<1> USE DEF AInv, Counts, Queued, TInv, TypeOK, Control, OnTrial, Switched, Journalled, Journals, Step, files, device,
           process, bounds, history, Working, ApplySteps, Steps, ProcessSteps, UndoSteps, RollbackSteps, Trying, Loaded,
           RecoverSteps
<1>UploadBegins. ASSUME NEW u \in Uploaders, NEW b \in Bundles, UploadBegins(u, b) PROVE AInv'
  BY <1>UploadBegins DEF UploadBegins, Pending
<1>UploadEnds. ASSUME NEW u \in Uploaders, UploadEnds(u) PROVE AInv'
  BY <1>UploadEnds DEF UploadEnds
<1>Book. ASSUME Book PROVE AInv'
  BY <1>Book DEF Book
<1> QED
  BY <1>UploadBegins, <1>UploadEnds, <1>Book DEF Dashboard

LEMMA CountedCycle == ASSUME TInv, TInv', AInv, Cycle PROVE AInv'
<1> USE DEF AInv, Counts, Queued, TInv, TypeOK, Control, OnTrial, Switched, Journalled, Journals, Step, files, device,
           process, bounds, history, Working, ApplySteps, Steps, ProcessSteps, UndoSteps, RollbackSteps, Trying, Loaded,
           RecoverSteps
<1>CycleBegins. ASSUME CycleBegins PROVE AInv'
  BY <1>CycleBegins DEF CycleBegins, Pending
<1>CycleEnds. ASSUME CycleEnds PROVE AInv'
  BY <1>CycleEnds DEF CycleEnds
<1>CheckPasses. ASSUME CheckPasses PROVE AInv'
  BY <1>CheckPasses DEF CheckPasses
<1>CheckRefuses. ASSUME CheckRefuses PROVE AInv'
  BY <1>CheckRefuses DEF CheckRefuses
<1>AcceptJournal. ASSUME AcceptJournal PROVE AInv'
  <2> SUFFICES ASSUME "overrun" \notin gaps' PROVE AInv'
    BY DEF AInv
  <2>1. ~Journalled /\ "overrun" \notin gaps /\ active = {} /\ cur \in Bundles /\ incoming[cur] > 0
    BY <1>AcceptJournal DEF AcceptJournal
  <2>2. /\ Journalled' /\ journal'.bundle = cur /\ journal'.attempt = incoming[cur]
        /\ accepts' = [accepts EXCEPT ![cur] = @ + 1] /\ incoming' = incoming /\ active' = {}
        /\ pc = "accept" /\ pc' = "move" /\ queue' = queue /\ cur' = cur
    BY <1>AcceptJournal, <2>1 DEF AcceptJournal
  <2>3. incoming[cur] <= MaxAttempts /\ accepts[cur] < incoming[cur]
    BY <2>1
  <2>4. ASSUME NEW b \in Bundles PROVE Counts(b)'
    BY <2>1, <2>2, <2>3
  <2> QED
    BY <2>1, <2>2, <2>3, <2>4
<1>AcceptMove. ASSUME AcceptMove PROVE AInv'
  BY <1>AcceptMove DEF AcceptMove
<1>Refuse. ASSUME Refuse PROVE AInv'
  BY <1>Refuse DEF Refuse
<1>Cleanup. ASSUME Cleanup PROVE AInv'
  BY <1>Cleanup DEF Cleanup
<1> QED
  BY <1>CycleBegins, <1>CycleEnds, <1>CheckPasses, <1>CheckRefuses, <1>AcceptJournal,
     <1>AcceptMove, <1>Refuse, <1>Cleanup DEF Cycle

LEMMA CountedApply == ASSUME TInv, TInv', AInv, Apply PROVE AInv'
<1> USE DEF AInv, Counts, Queued, TInv, TypeOK, Control, OnTrial, Switched, Journalled, Journals, Step, files, device,
           process, bounds, history, Working, ApplySteps, Steps, ProcessSteps, UndoSteps, RollbackSteps, Trying, Loaded,
           RecoverSteps
<1>TagImage. ASSUME NEW i \in Images, TagImage(i) PROVE AInv'
  BY <1>TagImage DEF TagImage
<1>LoadImage. ASSUME NEW i \in Images, LoadImage(i) PROVE AInv'
  BY <1>LoadImage DEF LoadImage
<1>JournalTagged. ASSUME JournalTagged PROVE AInv'
  BY <1>JournalTagged DEF JournalTagged, JournalPhase
<1>JournalLoaded. ASSUME JournalLoaded PROVE AInv'
  BY <1>JournalLoaded DEF JournalLoaded, JournalPhase, AllAt
<1>StopWriters. ASSUME StopWriters PROVE AInv'
  BY <1>StopWriters DEF StopWriters
<1>CopyFiles. ASSUME CopyFiles PROVE AInv'
  BY <1>CopyFiles DEF CopyFiles
<1>SavePrevious. ASSUME SavePrevious PROVE AInv'
  BY <1>SavePrevious DEF SavePrevious
<1>JournalSaved. ASSUME JournalSaved PROVE AInv'
  BY <1>JournalSaved DEF JournalSaved, JournalPhase
<1>JournalSwitched. ASSUME JournalSwitched PROVE AInv'
  BY <1>JournalSwitched DEF JournalSwitched, JournalPhase
<1>MigrateBack. ASSUME MigrateBack PROVE AInv'
  BY <1>MigrateBack DEF MigrateBack
<1>SwitchCompose. ASSUME SwitchCompose PROVE AInv'
  BY <1>SwitchCompose DEF SwitchCompose
<1>SwitchInstall. ASSUME SwitchInstall PROVE AInv'
  BY <1>SwitchInstall DEF SwitchInstall
<1>StartNew. ASSUME StartNew PROVE AInv'
  BY <1>StartNew DEF StartNew, ComposeUp
<1>NewAnswers. ASSUME NewAnswers PROVE AInv'
  BY <1>NewAnswers DEF NewAnswers
<1>RecordInstalled. ASSUME RecordInstalled PROVE AInv'
  BY <1>RecordInstalled DEF RecordInstalled
<1>Commit. ASSUME Commit PROVE AInv'
  BY <1>Commit DEF Commit
<1>Forget. ASSUME Forget PROVE AInv'
  BY <1>Forget DEF Forget, ForgetPrevious
<1>FinishDone. ASSUME FinishDone PROVE AInv'
  BY <1>FinishDone DEF FinishDone
<1> QED
  BY <1>TagImage, <1>LoadImage, <1>JournalTagged, <1>JournalLoaded, <1>StopWriters,
     <1>CopyFiles, <1>SavePrevious, <1>JournalSaved, <1>JournalSwitched, <1>MigrateBack,
     <1>SwitchCompose, <1>SwitchInstall, <1>StartNew, <1>NewAnswers, <1>RecordInstalled,
     <1>Commit, <1>Forget, <1>FinishDone DEF Apply

LEMMA CountedUndo == ASSUME TInv, TInv', AInv, Undo PROVE AInv'
<1> USE DEF AInv, Counts, Queued, TInv, TypeOK, Control, OnTrial, Switched, Journalled, Journals, Step, files, device,
           process, bounds, history, Working, ApplySteps, Steps, ProcessSteps, UndoSteps, RollbackSteps, Trying, Loaded,
           RecoverSteps
<1>RetagImage. ASSUME NEW i \in Images, RetagImage(i) PROVE AInv'
  BY <1>RetagImage DEF RetagImage
<1>JournalNoRetry. ASSUME JournalNoRetry PROVE AInv'
  <2> SUFFICES ASSUME "overrun" \notin gaps' PROVE AInv'
    BY DEF AInv
  <2>1. /\ Journalled' /\ pc = "except" /\ pc' = "undo" /\ gaps' = gaps
        /\ UNCHANGED <<incoming, active, accepts, queue, cur, caller>>
    BY <1>JournalNoRetry DEF JournalNoRetry
  <2>2. CASE Journalled
    <3>1. journal'.bundle = journal.bundle /\ journal'.attempt = journal.attempt
      BY <1>JournalNoRetry, <2>2 DEF JournalNoRetry
    <3> QED
      BY <2>1, <2>2, <3>1
  <2>3. CASE ~Journalled
    <3>1. journal'.bundle = NONE /\ journal'.attempt = 1
      BY <1>JournalNoRetry, <2>3 DEF JournalNoRetry
    <3>2. ASSUME NEW b \in Bundles PROVE Counts(b)'
      BY <2>1, <2>3, <3>1
    <3> QED
      BY <2>1, <2>3, <3>1, <3>2
  <2> QED
    BY <2>2, <2>3
<1>UndoBegins. ASSUME UndoBegins PROVE AInv'
  BY <1>UndoBegins DEF UndoBegins
<1>Retagged. ASSUME Retagged PROVE AInv'
  BY <1>Retagged DEF Retagged
<1>DropPrevious. ASSUME DropPrevious PROVE AInv'
  BY <1>DropPrevious DEF DropPrevious
<1>RestoreCompose. ASSUME RestoreCompose PROVE AInv'
  BY <1>RestoreCompose DEF RestoreCompose
<1>RestoreInstall. ASSUME RestoreInstall PROVE AInv'
  BY <1>RestoreInstall DEF RestoreInstall
<1>StopForRollback. ASSUME StopForRollback PROVE AInv'
  BY <1>StopForRollback DEF StopForRollback
<1>LoadDatabase. ASSUME LoadDatabase PROVE AInv'
  BY <1>LoadDatabase DEF LoadDatabase
<1>StartOld. ASSUME StartOld PROVE AInv'
  BY <1>StartOld DEF StartOld, ComposeUp
<1>OldAnswers. ASSUME OldAnswers PROVE AInv'
  BY <1>OldAnswers DEF OldAnswers
<1>RestoreInstalled. ASSUME RestoreInstalled PROVE AInv'
  BY <1>RestoreInstalled DEF RestoreInstalled
<1>ProcessUndone. ASSUME ProcessUndone PROVE AInv'
  BY <1>ProcessUndone DEF ProcessUndone
<1>FinishRolledBack. ASSUME FinishRolledBack PROVE AInv'
  BY <1>FinishRolledBack DEF FinishRolledBack
<1> QED
  BY <1>RetagImage, <1>JournalNoRetry, <1>UndoBegins, <1>Retagged, <1>DropPrevious,
     <1>RestoreCompose, <1>RestoreInstall, <1>StopForRollback, <1>LoadDatabase, <1>StartOld,
     <1>OldAnswers, <1>RestoreInstalled, <1>ProcessUndone, <1>FinishRolledBack DEF Undo

LEMMA CountedRecover == ASSUME TInv, TInv', AInv, Recover PROVE AInv'
<1> USE DEF AInv, Counts, Queued, TInv, TypeOK, Control, OnTrial, Switched, Journalled, Journals, Step, files, device,
           process, bounds, history, Working, ApplySteps, Steps, ProcessSteps, UndoSteps, RollbackSteps, Trying, Loaded,
           RecoverSteps
<1>RecoverNothing. ASSUME RecoverNothing PROVE AInv'
  BY <1>RecoverNothing DEF RecoverNothing, ForgetPrevious
<1>RecoverBegins. ASSUME RecoverBegins PROVE AInv'
  BY <1>RecoverBegins DEF RecoverBegins
<1>Requeue. ASSUME Requeue PROVE AInv'
  BY <1>Requeue DEF Requeue, RequeueUpTo
<1>RecoverUnlink. ASSUME RecoverUnlink PROVE AInv'
  BY <1>RecoverUnlink DEF RecoverUnlink
<1>RecoverFinish. ASSUME RecoverFinish PROVE AInv'
  BY <1>RecoverFinish DEF RecoverFinish, LeaveRecover, AfterRecover
<1>BootWithoutJournal. ASSUME BootWithoutJournal PROVE AInv'
  BY <1>BootWithoutJournal DEF BootWithoutJournal
<1>StackStarts. ASSUME StackStarts PROVE AInv'
  BY <1>StackStarts DEF StackStarts, StackUp, ComposeUp
<1> QED
  BY <1>RecoverNothing, <1>RecoverBegins, <1>Requeue, <1>RecoverUnlink, <1>RecoverFinish,
     <1>BootWithoutJournal, <1>StackStarts DEF Recover

LEMMA CountedTake == ASSUME TInv, TInv', AInv, Take PROVE AInv'
<1> USE DEF AInv, Counts, Queued, TInv, TypeOK, Control, OnTrial, Switched, Journalled, Journals, Step, files, device,
           process, bounds, history, Working, ApplySteps, Steps, ProcessSteps, UndoSteps, RollbackSteps, Trying, Loaded,
           RecoverSteps
<1>TakeBundle. ASSUME NEW b \in Bundles, TakeBundle(b) PROVE AInv'
  BY <1>TakeBundle DEF TakeBundle
<1> QED
  BY <1>TakeBundle DEF Take

LEMMA CountedWait == ASSUME TInv, TInv', AInv, Wait PROVE AInv'
<1> USE DEF AInv, Counts, Queued, TInv, TypeOK, Control, OnTrial, Switched, Journalled, Journals, Step, files, device,
           process, bounds, history, Working, ApplySteps, Steps, ProcessSteps, UndoSteps, RollbackSteps, Trying, Loaded,
           RecoverSteps
<1>WaitForOthers. ASSUME NEW b \in Bundles, WaitForOthers(b) PROVE AInv'
  BY <1>WaitForOthers DEF WaitForOthers
<1> QED
  BY <1>WaitForOthers DEF Wait

LEMMA CountedFaults == ASSUME TInv, TInv', AInv, Faults PROVE AInv'
<1> USE DEF AInv, Counts, Queued, TInv, TypeOK, Control, OnTrial, Switched, Journalled, Journals, Step, files, device,
           process, bounds, history, Working, ApplySteps, Steps, ProcessSteps, UndoSteps, RollbackSteps, Trying, Loaded,
           RecoverSteps
<1>AcceptFails. ASSUME AcceptFails PROVE AInv'
  BY <1>AcceptFails DEF AcceptFails
<1>ApplyFails. ASSUME ApplyFails PROVE AInv'
  BY <1>ApplyFails DEF ApplyFails
<1>StopUnnoticed. ASSUME StopUnnoticed PROVE AInv'
  BY <1>StopUnnoticed DEF StopUnnoticed
<1>CycleAborts. ASSUME CycleAborts PROVE AInv'
  BY <1>CycleAborts DEF CycleAborts
<1>ProcessUndoFails. ASSUME ProcessUndoFails PROVE AInv'
  BY <1>ProcessUndoFails DEF ProcessUndoFails
<1>RecoverNothingFails. ASSUME RecoverNothingFails PROVE AInv'
  BY <1>RecoverNothingFails DEF RecoverNothingFails
<1>RecoverUndoFails. ASSUME RecoverUndoFails PROVE AInv'
  BY <1>RecoverUndoFails DEF RecoverUndoFails, LeaveRecover, AfterRecover
<1>RecoverAborts. ASSUME RecoverAborts PROVE AInv'
  BY <1>RecoverAborts DEF RecoverAborts, LeaveRecover, AfterRecover
<1>PowerCut. ASSUME PowerCut PROVE AInv'
  BY <1>PowerCut DEF PowerCut
<1>Kill. ASSUME Kill PROVE AInv'
  BY <1>Kill DEF Kill
<1>StackFails. ASSUME StackFails PROVE AInv'
  BY <1>StackFails DEF StackFails
<1>WatchdogRestarts. ASSUME WatchdogRestarts PROVE AInv'
  BY <1>WatchdogRestarts DEF WatchdogRestarts, StackUp, ComposeUp
<1> QED
  BY <1>AcceptFails, <1>ApplyFails, <1>StopUnnoticed, <1>CycleAborts, <1>ProcessUndoFails,
     <1>RecoverNothingFails, <1>RecoverUndoFails, <1>RecoverAborts, <1>PowerCut, <1>Kill,
     <1>StackFails, <1>WatchdogRestarts DEF Faults

LEMMA CountedNext == TInv /\ AInv /\ [Next]_vars => AInv'
<1> SUFFICES ASSUME TInv, AInv, [Next]_vars PROVE AInv'
  OBVIOUS
<1>1. CASE Next
  BY <1>1, TypedNext, CountedDashboard, CountedCycle, CountedApply, CountedUndo, CountedRecover,
     CountedTake, CountedWait, CountedFaults DEF Next
<1>2. CASE UNCHANGED vars
  BY <1>2 DEF vars, files, device, process, bounds, history, AInv, Counts, Queued, Working, ApplySteps, Journalled
<1> QED
  BY <1>1, <1>2

\* An update that keeps being cut short runs at most MAX_ATTEMPTS times for one upload
\* (accept(), recover()).
THEOREM Bounded == Spec => []AttemptsBounded
<1>1. AInv => AttemptsBounded
  BY DEF AInv, Counts, AttemptsBounded
<1> QED
  BY CountedInit, CountedNext, Typed, <1>1, PTL DEF Spec

-----------------------------------------------------------------------------
(* The bundle of an update that may run again.                             *)

\* Only a bundle that was accepted may.
ThereInv == BundleKept /\ (Journalled /\ journal.retry => journal.bundle \in Bundles)

LEMMA StaysInit == Init => ThereInv
BY DEF Init, ThereInv, BundleKept, Journalled

LEMMA StaysDashboard == ASSUME TInv, TInv', AInv, ThereInv, Dashboard PROVE ThereInv'
<1> USE DEF ThereInv, BundleKept, AInv, Queued, Working, ApplySteps, TInv, TypeOK, Journals, Control, OnTrial, Switched,
           Journalled, Step, Steps, files, device, process, bounds, history, Loaded, Trying,
           RollbackSteps, UndoSteps, RecoverSteps, ProcessSteps
<1>UploadBegins. ASSUME NEW u \in Uploaders, NEW b \in Bundles, UploadBegins(u, b) PROVE ThereInv'
  BY <1>UploadBegins DEF UploadBegins, Pending
<1>UploadEnds. ASSUME NEW u \in Uploaders, UploadEnds(u) PROVE ThereInv'
  BY <1>UploadEnds DEF UploadEnds
<1>Book. ASSUME Book PROVE ThereInv'
  BY <1>Book DEF Book
<1> QED
  BY <1>UploadBegins, <1>UploadEnds, <1>Book DEF Dashboard

LEMMA StaysCycle == ASSUME TInv, TInv', AInv, ThereInv, Cycle PROVE ThereInv'
<1> USE DEF ThereInv, BundleKept, AInv, Queued, Working, ApplySteps, TInv, TypeOK, Journals, Control, OnTrial, Switched,
           Journalled, Step, Steps, files, device, process, bounds, history, Loaded, Trying,
           RollbackSteps, UndoSteps, RecoverSteps, ProcessSteps
<1>CycleBegins. ASSUME CycleBegins PROVE ThereInv'
  BY <1>CycleBegins DEF CycleBegins, Pending
<1>CycleEnds. ASSUME CycleEnds PROVE ThereInv'
  BY <1>CycleEnds DEF CycleEnds
<1>CheckPasses. ASSUME CheckPasses PROVE ThereInv'
  BY <1>CheckPasses DEF CheckPasses
<1>CheckRefuses. ASSUME CheckRefuses PROVE ThereInv'
  BY <1>CheckRefuses DEF CheckRefuses
<1>AcceptJournal. ASSUME AcceptJournal PROVE ThereInv'
  BY <1>AcceptJournal DEF AcceptJournal
<1>AcceptMove. ASSUME AcceptMove PROVE ThereInv'
  BY <1>AcceptMove DEF AcceptMove
<1>Refuse. ASSUME Refuse PROVE ThereInv'
  BY <1>Refuse DEF Refuse
<1>Cleanup. ASSUME Cleanup PROVE ThereInv'
  BY <1>Cleanup DEF Cleanup
<1> QED
  BY <1>CycleBegins, <1>CycleEnds, <1>CheckPasses, <1>CheckRefuses, <1>AcceptJournal,
     <1>AcceptMove, <1>Refuse, <1>Cleanup DEF Cycle

LEMMA StaysApply == ASSUME TInv, TInv', AInv, ThereInv, Apply PROVE ThereInv'
<1> USE DEF ThereInv, BundleKept, AInv, Queued, Working, ApplySteps, TInv, TypeOK, Journals, Control, OnTrial, Switched,
           Journalled, Step, Steps, files, device, process, bounds, history, Loaded, Trying,
           RollbackSteps, UndoSteps, RecoverSteps, ProcessSteps
<1>TagImage. ASSUME NEW i \in Images, TagImage(i) PROVE ThereInv'
  BY <1>TagImage DEF TagImage
<1>LoadImage. ASSUME NEW i \in Images, LoadImage(i) PROVE ThereInv'
  BY <1>LoadImage DEF LoadImage
<1>JournalTagged. ASSUME JournalTagged PROVE ThereInv'
  BY <1>JournalTagged DEF JournalTagged, JournalPhase
<1>JournalLoaded. ASSUME JournalLoaded PROVE ThereInv'
  BY <1>JournalLoaded DEF JournalLoaded, JournalPhase, AllAt
<1>StopWriters. ASSUME StopWriters PROVE ThereInv'
  BY <1>StopWriters DEF StopWriters
<1>CopyFiles. ASSUME CopyFiles PROVE ThereInv'
  BY <1>CopyFiles DEF CopyFiles
<1>SavePrevious. ASSUME SavePrevious PROVE ThereInv'
  BY <1>SavePrevious DEF SavePrevious
<1>JournalSaved. ASSUME JournalSaved PROVE ThereInv'
  BY <1>JournalSaved DEF JournalSaved, JournalPhase
<1>JournalSwitched. ASSUME JournalSwitched PROVE ThereInv'
  BY <1>JournalSwitched DEF JournalSwitched, JournalPhase
<1>MigrateBack. ASSUME MigrateBack PROVE ThereInv'
  BY <1>MigrateBack DEF MigrateBack
<1>SwitchCompose. ASSUME SwitchCompose PROVE ThereInv'
  BY <1>SwitchCompose DEF SwitchCompose
<1>SwitchInstall. ASSUME SwitchInstall PROVE ThereInv'
  BY <1>SwitchInstall DEF SwitchInstall
<1>StartNew. ASSUME StartNew PROVE ThereInv'
  BY <1>StartNew DEF StartNew, ComposeUp
<1>NewAnswers. ASSUME NewAnswers PROVE ThereInv'
  BY <1>NewAnswers DEF NewAnswers
<1>RecordInstalled. ASSUME RecordInstalled PROVE ThereInv'
  BY <1>RecordInstalled DEF RecordInstalled
<1>Commit. ASSUME Commit PROVE ThereInv'
  BY <1>Commit DEF Commit
<1>Forget. ASSUME Forget PROVE ThereInv'
  BY <1>Forget DEF Forget, ForgetPrevious
<1>FinishDone. ASSUME FinishDone PROVE ThereInv'
  BY <1>FinishDone DEF FinishDone
<1> QED
  BY <1>TagImage, <1>LoadImage, <1>JournalTagged, <1>JournalLoaded, <1>StopWriters,
     <1>CopyFiles, <1>SavePrevious, <1>JournalSaved, <1>JournalSwitched, <1>MigrateBack,
     <1>SwitchCompose, <1>SwitchInstall, <1>StartNew, <1>NewAnswers, <1>RecordInstalled,
     <1>Commit, <1>Forget, <1>FinishDone DEF Apply

LEMMA StaysUndo == ASSUME TInv, TInv', AInv, ThereInv, Undo PROVE ThereInv'
<1> USE DEF ThereInv, BundleKept, AInv, Queued, Working, ApplySteps, TInv, TypeOK, Journals, Control, OnTrial, Switched,
           Journalled, Step, Steps, files, device, process, bounds, history, Loaded, Trying,
           RollbackSteps, UndoSteps, RecoverSteps, ProcessSteps
<1>RetagImage. ASSUME NEW i \in Images, RetagImage(i) PROVE ThereInv'
  BY <1>RetagImage DEF RetagImage
<1>JournalNoRetry. ASSUME JournalNoRetry PROVE ThereInv'
  BY <1>JournalNoRetry DEF JournalNoRetry
<1>UndoBegins. ASSUME UndoBegins PROVE ThereInv'
  BY <1>UndoBegins DEF UndoBegins
<1>Retagged. ASSUME Retagged PROVE ThereInv'
  BY <1>Retagged DEF Retagged
<1>DropPrevious. ASSUME DropPrevious PROVE ThereInv'
  BY <1>DropPrevious DEF DropPrevious
<1>RestoreCompose. ASSUME RestoreCompose PROVE ThereInv'
  BY <1>RestoreCompose DEF RestoreCompose
<1>RestoreInstall. ASSUME RestoreInstall PROVE ThereInv'
  BY <1>RestoreInstall DEF RestoreInstall
<1>StopForRollback. ASSUME StopForRollback PROVE ThereInv'
  BY <1>StopForRollback DEF StopForRollback
<1>LoadDatabase. ASSUME LoadDatabase PROVE ThereInv'
  BY <1>LoadDatabase DEF LoadDatabase
<1>StartOld. ASSUME StartOld PROVE ThereInv'
  BY <1>StartOld DEF StartOld, ComposeUp
<1>OldAnswers. ASSUME OldAnswers PROVE ThereInv'
  BY <1>OldAnswers DEF OldAnswers
<1>RestoreInstalled. ASSUME RestoreInstalled PROVE ThereInv'
  BY <1>RestoreInstalled DEF RestoreInstalled
<1>ProcessUndone. ASSUME ProcessUndone PROVE ThereInv'
  BY <1>ProcessUndone DEF ProcessUndone
<1>FinishRolledBack. ASSUME FinishRolledBack PROVE ThereInv'
  BY <1>FinishRolledBack DEF FinishRolledBack
<1> QED
  BY <1>RetagImage, <1>JournalNoRetry, <1>UndoBegins, <1>Retagged, <1>DropPrevious,
     <1>RestoreCompose, <1>RestoreInstall, <1>StopForRollback, <1>LoadDatabase, <1>StartOld,
     <1>OldAnswers, <1>RestoreInstalled, <1>ProcessUndone, <1>FinishRolledBack DEF Undo

LEMMA StaysRecover == ASSUME TInv, TInv', AInv, ThereInv, Recover PROVE ThereInv'
<1> USE DEF ThereInv, BundleKept, AInv, Queued, Working, ApplySteps, TInv, TypeOK, Journals, Control, OnTrial, Switched,
           Journalled, Step, Steps, files, device, process, bounds, history, Loaded, Trying,
           RollbackSteps, UndoSteps, RecoverSteps, ProcessSteps
<1>RecoverNothing. ASSUME RecoverNothing PROVE ThereInv'
  BY <1>RecoverNothing DEF RecoverNothing, ForgetPrevious
<1>RecoverBegins. ASSUME RecoverBegins PROVE ThereInv'
  BY <1>RecoverBegins DEF RecoverBegins
<1>Requeue. ASSUME Requeue PROVE ThereInv'
  <2> SUFFICES ASSUME gaps = {}, Journalled, journal.retry, journal.attempt < MaxAttempts PROVE incoming'[journal.bundle] > 0
    BY <1>Requeue DEF Requeue, RequeueUpTo
  <2>1. journal.bundle \in Bundles /\ (journal.bundle \in active \/ incoming[journal.bundle] > 0)
    OBVIOUS
  <2>2. incoming'[journal.bundle] = journal.attempt + 1
    BY <1>Requeue, <2>1 DEF Requeue, RequeueUpTo
  <2> QED
    BY <2>2
<1>RecoverUnlink. ASSUME RecoverUnlink PROVE ThereInv'
  BY <1>RecoverUnlink DEF RecoverUnlink
<1>RecoverFinish. ASSUME RecoverFinish PROVE ThereInv'
  BY <1>RecoverFinish DEF RecoverFinish, LeaveRecover, AfterRecover
<1>BootWithoutJournal. ASSUME BootWithoutJournal PROVE ThereInv'
  BY <1>BootWithoutJournal DEF BootWithoutJournal
<1>StackStarts. ASSUME StackStarts PROVE ThereInv'
  BY <1>StackStarts DEF StackStarts, StackUp, ComposeUp
<1> QED
  BY <1>RecoverNothing, <1>RecoverBegins, <1>Requeue, <1>RecoverUnlink, <1>RecoverFinish,
     <1>BootWithoutJournal, <1>StackStarts DEF Recover

LEMMA StaysTake == ASSUME TInv, TInv', AInv, ThereInv, Take PROVE ThereInv'
<1> USE DEF ThereInv, BundleKept, AInv, Queued, Working, ApplySteps, TInv, TypeOK, Journals, Control, OnTrial, Switched,
           Journalled, Step, Steps, files, device, process, bounds, history, Loaded, Trying,
           RollbackSteps, UndoSteps, RecoverSteps, ProcessSteps
<1>TakeBundle. ASSUME NEW b \in Bundles, TakeBundle(b) PROVE ThereInv'
  BY <1>TakeBundle DEF TakeBundle
<1> QED
  BY <1>TakeBundle DEF Take

LEMMA StaysWait == ASSUME TInv, TInv', AInv, ThereInv, Wait PROVE ThereInv'
<1> USE DEF ThereInv, BundleKept, AInv, Queued, Working, ApplySteps, TInv, TypeOK, Journals, Control, OnTrial, Switched,
           Journalled, Step, Steps, files, device, process, bounds, history, Loaded, Trying,
           RollbackSteps, UndoSteps, RecoverSteps, ProcessSteps
<1>WaitForOthers. ASSUME NEW b \in Bundles, WaitForOthers(b) PROVE ThereInv'
  BY <1>WaitForOthers DEF WaitForOthers
<1> QED
  BY <1>WaitForOthers DEF Wait

LEMMA StaysFaults == ASSUME TInv, TInv', AInv, ThereInv, Faults PROVE ThereInv'
<1> USE DEF ThereInv, BundleKept, AInv, Queued, Working, ApplySteps, TInv, TypeOK, Journals, Control, OnTrial, Switched,
           Journalled, Step, Steps, files, device, process, bounds, history, Loaded, Trying,
           RollbackSteps, UndoSteps, RecoverSteps, ProcessSteps
<1>AcceptFails. ASSUME AcceptFails PROVE ThereInv'
  BY <1>AcceptFails DEF AcceptFails
<1>ApplyFails. ASSUME ApplyFails PROVE ThereInv'
  BY <1>ApplyFails DEF ApplyFails
<1>StopUnnoticed. ASSUME StopUnnoticed PROVE ThereInv'
  BY <1>StopUnnoticed DEF StopUnnoticed
<1>CycleAborts. ASSUME CycleAborts PROVE ThereInv'
  BY <1>CycleAborts DEF CycleAborts
<1>ProcessUndoFails. ASSUME ProcessUndoFails PROVE ThereInv'
  BY <1>ProcessUndoFails DEF ProcessUndoFails
<1>RecoverNothingFails. ASSUME RecoverNothingFails PROVE ThereInv'
  BY <1>RecoverNothingFails DEF RecoverNothingFails
<1>RecoverUndoFails. ASSUME RecoverUndoFails PROVE ThereInv'
  BY <1>RecoverUndoFails DEF RecoverUndoFails, LeaveRecover, AfterRecover
<1>RecoverAborts. ASSUME RecoverAborts PROVE ThereInv'
  BY <1>RecoverAborts DEF RecoverAborts, LeaveRecover, AfterRecover
<1>PowerCut. ASSUME PowerCut PROVE ThereInv'
  BY <1>PowerCut DEF PowerCut
<1>Kill. ASSUME Kill PROVE ThereInv'
  BY <1>Kill DEF Kill
<1>StackFails. ASSUME StackFails PROVE ThereInv'
  BY <1>StackFails DEF StackFails
<1>WatchdogRestarts. ASSUME WatchdogRestarts PROVE ThereInv'
  BY <1>WatchdogRestarts DEF WatchdogRestarts, StackUp, ComposeUp
<1> QED
  BY <1>AcceptFails, <1>ApplyFails, <1>StopUnnoticed, <1>CycleAborts, <1>ProcessUndoFails,
     <1>RecoverNothingFails, <1>RecoverUndoFails, <1>RecoverAborts, <1>PowerCut, <1>Kill,
     <1>StackFails, <1>WatchdogRestarts DEF Faults

LEMMA StaysNext == TInv /\ AInv /\ ThereInv /\ [Next]_vars => ThereInv'
<1> SUFFICES ASSUME TInv, AInv, ThereInv, [Next]_vars PROVE ThereInv'
  OBVIOUS
<1>1. CASE Next
  BY <1>1, TypedNext, StaysDashboard, StaysCycle, StaysApply, StaysUndo, StaysRecover,
     StaysTake, StaysWait, StaysFaults DEF Next
<1>2. CASE UNCHANGED vars
  BY <1>2 DEF vars, files, device, process, bounds, history, ThereInv, BundleKept, Journalled
<1> QED
  BY <1>1, <1>2

\* While the journal says the update may run again, its bundle is on the card: in active/, or requeued in
\* incoming/ - accept(), recover() and the finally of process_bundle() hand it to each other without a gap.
THEOREM NeverForgotten == Spec => []BundleKept
<1>1. ThereInv => BundleKept
  BY DEF ThereInv
<1> QED
  BY StaysInit, StaysNext, CountedInit, CountedNext, Typed, <1>1, PTL DEF Spec

-----------------------------------------------------------------------------
(* One version throughout, whenever no update is under way.                *)

\* The device is one version throughout.
Whole ==
  /\ AllAt(tag, installed) /\ AllAt(running, installed) /\ writers
  /\ composeFile = installed /\ installDir = installed /\ db.schema = installed

\* What the journal's phase says about the device and about the way back.
ByPhase ==
  /\ ~Journalled \/ journal.phase = "accepted" => Whole
  /\ Journalled /\ journal.phase \in {"tagged", "loaded", "saved"} =>
       /\ AllAt(prevTag, installed)
       /\ composeFile = installed /\ installDir = installed /\ db.schema = installed
  /\ Switched /\ previous = NONE => Whole /\ AllAt(prevTag, installed)
  /\ OnTrial => /\ AllAt(prevTag, previous.installed) /\ previous.db.schema = previous.installed
                /\ copies.compose = previous.installed /\ copies.install = previous.installed

\* How far apply() has got with the new version ...
Forward ==
  /\ pc \in Loaded \cup {"switch"} \cup Trying => AllAt(tag, cur)
  /\ pc \in {"save", "saved", "switch"} => copies.compose = installed /\ copies.install = installed
  /\ pc \in {"saved", "switch"} => previous.installed = installed /\ previous.db.schema = installed
  /\ pc \in Trying \ {"migrate"} => db.schema <= cur
  /\ pc \in Trying \ {"migrate", "compose"} => composeFile = cur
  /\ pc \in Trying \ {"migrate", "compose", "install"} => installDir = cur
  /\ pc \in {"verify", "services", "record", "commit"} => AllAt(running, cur) /\ writers /\ db.schema = cur
  /\ pc = "commit" => installed = cur

\* ... and undo() with the old one.
Back ==
  /\ pc \in {"un_previous", "un_up", "un_verify", "undone", "rec_unlink"} => AllAt(tag, installed)
  /\ pc \in {"un_verify", "undone", "rec_unlink"} => Whole
  /\ pc \in RollbackSteps \ {"rb_tags"} => AllAt(tag, previous.installed)
  /\ pc \in RollbackSteps \ {"rb_tags", "rb_compose"} => composeFile = previous.installed
  /\ pc \in RollbackSteps \ {"rb_tags", "rb_compose", "rb_install"} => installDir = previous.installed
  /\ pc \in {"rb_up", "rb_verify", "rb_installed", "rb_previous"} => db.schema = previous.installed
  /\ pc \in {"rb_verify", "rb_installed", "rb_previous"} => AllAt(running, previous.installed) /\ writers
  /\ pc = "rb_previous" => installed = previous.installed

WInv == gaps = {} => ByPhase /\ Forward /\ Back

LEMMA OneInit == Init => WInv
BY DEF Init, WInv, ByPhase, Forward, Back, Whole, AllAt, OnTrial, Switched,
              Journalled, Loaded, Trying, RollbackSteps

LEMMA OneDashboard == ASSUME TInv, TInv', WInv, Dashboard PROVE WInv'
<1> USE DEF WInv, ByPhase, Forward, Back, Whole, AllAt, TInv, TypeOK, Databases, Saved, Copies, Journals, Control, OnTrial, Switched,
           Journalled, Step, Steps, files, device, process, bounds, history, Working, ApplySteps, Loaded, Trying,
           RollbackSteps, UndoSteps, RecoverSteps, ProcessSteps
<1>UploadBegins. ASSUME NEW u \in Uploaders, NEW b \in Bundles, UploadBegins(u, b) PROVE WInv'
  BY <1>UploadBegins DEF UploadBegins, Pending
<1>UploadEnds. ASSUME NEW u \in Uploaders, UploadEnds(u) PROVE WInv'
  BY <1>UploadEnds DEF UploadEnds
<1>Book. ASSUME Book PROVE WInv'
  BY <1>Book DEF Book
<1> QED
  BY <1>UploadBegins, <1>UploadEnds, <1>Book DEF Dashboard

LEMMA OneCycle == ASSUME TInv, TInv', WInv, Cycle PROVE WInv'
<1> USE DEF WInv, ByPhase, Forward, Back, Whole, AllAt, TInv, TypeOK, Databases, Saved, Copies, Journals, Control, OnTrial, Switched,
           Journalled, Step, Steps, files, device, process, bounds, history, Working, ApplySteps, Loaded, Trying,
           RollbackSteps, UndoSteps, RecoverSteps, ProcessSteps
<1>CycleBegins. ASSUME CycleBegins PROVE WInv'
  BY <1>CycleBegins DEF CycleBegins, Pending
<1>CycleEnds. ASSUME CycleEnds PROVE WInv'
  BY <1>CycleEnds DEF CycleEnds
<1>CheckPasses. ASSUME CheckPasses PROVE WInv'
  BY <1>CheckPasses DEF CheckPasses
<1>CheckRefuses. ASSUME CheckRefuses PROVE WInv'
  BY <1>CheckRefuses DEF CheckRefuses
<1>AcceptJournal. ASSUME AcceptJournal PROVE WInv'
  BY <1>AcceptJournal DEF AcceptJournal
<1>AcceptMove. ASSUME AcceptMove PROVE WInv'
  BY <1>AcceptMove DEF AcceptMove
<1>Refuse. ASSUME Refuse PROVE WInv'
  BY <1>Refuse DEF Refuse
<1>Cleanup. ASSUME Cleanup PROVE WInv'
  BY <1>Cleanup DEF Cleanup
<1> QED
  BY <1>CycleBegins, <1>CycleEnds, <1>CheckPasses, <1>CheckRefuses, <1>AcceptJournal,
     <1>AcceptMove, <1>Refuse, <1>Cleanup DEF Cycle

LEMMA OneApply == ASSUME TInv, TInv', WInv, Apply PROVE WInv'
<1> USE DEF WInv, ByPhase, Forward, Back, Whole, AllAt, TInv, TypeOK, Databases, Saved, Copies, Journals, Control, OnTrial, Switched,
           Journalled, Step, Steps, files, device, process, bounds, history, Working, ApplySteps, Loaded, Trying,
           RollbackSteps, UndoSteps, RecoverSteps, ProcessSteps
<1>TagImage. ASSUME NEW i \in Images, TagImage(i) PROVE WInv'
  BY <1>TagImage DEF TagImage
<1>LoadImage. ASSUME NEW i \in Images, LoadImage(i) PROVE WInv'
  BY <1>LoadImage DEF LoadImage
<1>JournalTagged. ASSUME JournalTagged PROVE WInv'
  BY <1>JournalTagged DEF JournalTagged, JournalPhase
<1>JournalLoaded. ASSUME JournalLoaded PROVE WInv'
  BY <1>JournalLoaded DEF JournalLoaded, JournalPhase, AllAt
<1>StopWriters. ASSUME StopWriters PROVE WInv'
  BY <1>StopWriters DEF StopWriters
<1>CopyFiles. ASSUME CopyFiles PROVE WInv'
  BY <1>CopyFiles DEF CopyFiles
<1>SavePrevious. ASSUME SavePrevious PROVE WInv'
  BY <1>SavePrevious DEF SavePrevious
<1>JournalSaved. ASSUME JournalSaved PROVE WInv'
  BY <1>JournalSaved DEF JournalSaved, JournalPhase
<1>JournalSwitched. ASSUME JournalSwitched PROVE WInv'
  BY <1>JournalSwitched DEF JournalSwitched, JournalPhase
<1>MigrateBack. ASSUME MigrateBack PROVE WInv'
  BY <1>MigrateBack DEF MigrateBack
<1>SwitchCompose. ASSUME SwitchCompose PROVE WInv'
  BY <1>SwitchCompose DEF SwitchCompose
<1>SwitchInstall. ASSUME SwitchInstall PROVE WInv'
  BY <1>SwitchInstall DEF SwitchInstall
<1>StartNew. ASSUME StartNew PROVE WInv'
  BY <1>StartNew DEF StartNew, ComposeUp
<1>NewAnswers. ASSUME NewAnswers PROVE WInv'
  BY <1>NewAnswers DEF NewAnswers
<1>RecordInstalled. ASSUME RecordInstalled PROVE WInv'
  BY <1>RecordInstalled DEF RecordInstalled
<1>Commit. ASSUME Commit PROVE WInv'
  BY <1>Commit DEF Commit
<1>Forget. ASSUME Forget PROVE WInv'
  BY <1>Forget DEF Forget, ForgetPrevious
<1>FinishDone. ASSUME FinishDone PROVE WInv'
  BY <1>FinishDone DEF FinishDone
<1> QED
  BY <1>TagImage, <1>LoadImage, <1>JournalTagged, <1>JournalLoaded, <1>StopWriters,
     <1>CopyFiles, <1>SavePrevious, <1>JournalSaved, <1>JournalSwitched, <1>MigrateBack,
     <1>SwitchCompose, <1>SwitchInstall, <1>StartNew, <1>NewAnswers, <1>RecordInstalled,
     <1>Commit, <1>Forget, <1>FinishDone DEF Apply

LEMMA OneUndo == ASSUME TInv, TInv', WInv, Undo PROVE WInv'
<1> USE DEF WInv, ByPhase, Forward, Back, Whole, AllAt, TInv, TypeOK, Databases, Saved, Copies, Journals, Control, OnTrial, Switched,
           Journalled, Step, Steps, files, device, process, bounds, history, Working, ApplySteps, Loaded, Trying,
           RollbackSteps, UndoSteps, RecoverSteps, ProcessSteps
<1>RetagImage. ASSUME NEW i \in Images, RetagImage(i) PROVE WInv'
  BY <1>RetagImage DEF RetagImage
<1>JournalNoRetry. ASSUME JournalNoRetry PROVE WInv'
  BY <1>JournalNoRetry DEF JournalNoRetry
<1>UndoBegins. ASSUME UndoBegins PROVE WInv'
  BY <1>UndoBegins DEF UndoBegins
<1>Retagged. ASSUME Retagged PROVE WInv'
  <2> SUFFICES ASSUME gaps = {} PROVE WInv'
    BY <1>Retagged DEF Retagged
  <2>1. UNCHANGED <<files, device, cur, gaps>>
    BY <1>Retagged DEF Retagged
  <2>2. ByPhase'
    BY <2>1
  <2>3. CASE Step("rb_tags", "rb_compose") /\ tag = prevTag
    BY <2>1, <2>2, <2>3
  <2>4. CASE Step("un_tags", "un_previous") /\ (journal.phase = "accepted" \/ tag = prevTag)
    <3>1. AllAt(tag, installed)
      BY <2>4 DEF Phases
    <3> QED
      BY <2>1, <2>2, <2>4, <3>1
  <2> QED
    BY <1>Retagged, <2>3, <2>4 DEF Retagged
<1>DropPrevious. ASSUME DropPrevious PROVE WInv'
  BY <1>DropPrevious DEF DropPrevious
<1>RestoreCompose. ASSUME RestoreCompose PROVE WInv'
  BY <1>RestoreCompose DEF RestoreCompose
<1>RestoreInstall. ASSUME RestoreInstall PROVE WInv'
  BY <1>RestoreInstall DEF RestoreInstall
<1>StopForRollback. ASSUME StopForRollback PROVE WInv'
  BY <1>StopForRollback DEF StopForRollback
<1>LoadDatabase. ASSUME LoadDatabase PROVE WInv'
  BY <1>LoadDatabase DEF LoadDatabase
<1>StartOld. ASSUME StartOld PROVE WInv'
  <2> SUFFICES ASSUME gaps = {} PROVE WInv'
    BY <1>StartOld DEF StartOld
  <2>1. CASE pc = "rb_up"
    <3>1. pc' = "rb_verify" /\ UNCHANGED <<files, installed, tag, prevTag, composeFile, installDir, cur, gaps>>
      BY <1>StartOld, <2>1 DEF StartOld
    <3>2. running' = tag /\ writers' /\ db'.schema = previous.installed
      BY <1>StartOld, <2>1 DEF StartOld, ComposeUp
    <3> QED
      BY <2>1, <3>1, <3>2
  <2>2. CASE pc = "un_up"
    <3>1. pc' = "un_verify" /\ UNCHANGED <<files, installed, tag, prevTag, composeFile, installDir, cur, gaps>>
      BY <1>StartOld, <2>2 DEF StartOld
    <3>2. AllAt(tag, installed) /\ composeFile = installed /\ installDir = installed /\ db.schema = installed
      BY <2>2 DEF Phases
    <3>3. running' = tag /\ writers' /\ db'.schema = installed
      BY <1>StartOld, <3>2 DEF StartOld, ComposeUp
    <3>4. Whole'
      BY <3>1, <3>2, <3>3
    <3> QED
      BY <2>2, <3>1, <3>4
  <2> QED
    BY <1>StartOld, <2>1, <2>2 DEF StartOld
<1>OldAnswers. ASSUME OldAnswers PROVE WInv'
  BY <1>OldAnswers DEF OldAnswers
<1>RestoreInstalled. ASSUME RestoreInstalled PROVE WInv'
  BY <1>RestoreInstalled DEF RestoreInstalled
<1>ProcessUndone. ASSUME ProcessUndone PROVE WInv'
  BY <1>ProcessUndone DEF ProcessUndone
<1>FinishRolledBack. ASSUME FinishRolledBack PROVE WInv'
  BY <1>FinishRolledBack DEF FinishRolledBack
<1> QED
  BY <1>RetagImage, <1>JournalNoRetry, <1>UndoBegins, <1>Retagged, <1>DropPrevious,
     <1>RestoreCompose, <1>RestoreInstall, <1>StopForRollback, <1>LoadDatabase, <1>StartOld,
     <1>OldAnswers, <1>RestoreInstalled, <1>ProcessUndone, <1>FinishRolledBack DEF Undo

LEMMA OneRecover == ASSUME TInv, TInv', WInv, Recover PROVE WInv'
<1> USE DEF WInv, ByPhase, Forward, Back, Whole, AllAt, TInv, TypeOK, Databases, Saved, Copies, Journals, Control, OnTrial, Switched,
           Journalled, Step, Steps, files, device, process, bounds, history, Working, ApplySteps, Loaded, Trying,
           RollbackSteps, UndoSteps, RecoverSteps, ProcessSteps
<1>RecoverNothing. ASSUME RecoverNothing PROVE WInv'
  BY <1>RecoverNothing DEF RecoverNothing, ForgetPrevious
<1>RecoverBegins. ASSUME RecoverBegins PROVE WInv'
  BY <1>RecoverBegins DEF RecoverBegins
<1>Requeue. ASSUME Requeue PROVE WInv'
  BY <1>Requeue DEF Requeue, RequeueUpTo
<1>RecoverUnlink. ASSUME RecoverUnlink PROVE WInv'
  BY <1>RecoverUnlink DEF RecoverUnlink
<1>RecoverFinish. ASSUME RecoverFinish PROVE WInv'
  BY <1>RecoverFinish DEF RecoverFinish, LeaveRecover, AfterRecover
<1>BootWithoutJournal. ASSUME BootWithoutJournal PROVE WInv'
  BY <1>BootWithoutJournal DEF BootWithoutJournal
<1>StackStarts. ASSUME StackStarts PROVE WInv'
  BY <1>StackStarts DEF StackStarts, StackUp, ComposeUp
<1> QED
  BY <1>RecoverNothing, <1>RecoverBegins, <1>Requeue, <1>RecoverUnlink, <1>RecoverFinish,
     <1>BootWithoutJournal, <1>StackStarts DEF Recover

LEMMA OneTake == ASSUME TInv, TInv', WInv, Take PROVE WInv'
<1> USE DEF WInv, ByPhase, Forward, Back, Whole, AllAt, TInv, TypeOK, Databases, Saved, Copies, Journals, Control, OnTrial, Switched,
           Journalled, Step, Steps, files, device, process, bounds, history, Working, ApplySteps, Loaded, Trying,
           RollbackSteps, UndoSteps, RecoverSteps, ProcessSteps
<1>TakeBundle. ASSUME NEW b \in Bundles, TakeBundle(b) PROVE WInv'
  BY <1>TakeBundle DEF TakeBundle
<1> QED
  BY <1>TakeBundle DEF Take

LEMMA OneWait == ASSUME TInv, TInv', WInv, Wait PROVE WInv'
<1> USE DEF WInv, ByPhase, Forward, Back, Whole, AllAt, TInv, TypeOK, Databases, Saved, Copies, Journals, Control, OnTrial, Switched,
           Journalled, Step, Steps, files, device, process, bounds, history, Working, ApplySteps, Loaded, Trying,
           RollbackSteps, UndoSteps, RecoverSteps, ProcessSteps
<1>WaitForOthers. ASSUME NEW b \in Bundles, WaitForOthers(b) PROVE WInv'
  BY <1>WaitForOthers DEF WaitForOthers
<1> QED
  BY <1>WaitForOthers DEF Wait

LEMMA OneFaults == ASSUME TInv, TInv', WInv, Faults PROVE WInv'
<1> USE DEF WInv, ByPhase, Forward, Back, Whole, AllAt, TInv, TypeOK, Databases, Saved, Copies, Journals, Control, OnTrial, Switched,
           Journalled, Step, Steps, files, device, process, bounds, history, Working, ApplySteps, Loaded, Trying,
           RollbackSteps, UndoSteps, RecoverSteps, ProcessSteps
<1>AcceptFails. ASSUME AcceptFails PROVE WInv'
  BY <1>AcceptFails DEF AcceptFails
<1>ApplyFails. ASSUME ApplyFails PROVE WInv'
  BY <1>ApplyFails DEF ApplyFails
<1>StopUnnoticed. ASSUME StopUnnoticed PROVE WInv'
  BY <1>StopUnnoticed DEF StopUnnoticed
<1>CycleAborts. ASSUME CycleAborts PROVE WInv'
  BY <1>CycleAborts DEF CycleAborts
<1>ProcessUndoFails. ASSUME ProcessUndoFails PROVE WInv'
  BY <1>ProcessUndoFails DEF ProcessUndoFails
<1>RecoverNothingFails. ASSUME RecoverNothingFails PROVE WInv'
  BY <1>RecoverNothingFails DEF RecoverNothingFails
<1>RecoverUndoFails. ASSUME RecoverUndoFails PROVE WInv'
  BY <1>RecoverUndoFails DEF RecoverUndoFails, LeaveRecover, AfterRecover
<1>RecoverAborts. ASSUME RecoverAborts PROVE WInv'
  BY <1>RecoverAborts DEF RecoverAborts, LeaveRecover, AfterRecover
<1>PowerCut. ASSUME PowerCut PROVE WInv'
  BY <1>PowerCut DEF PowerCut
<1>Kill. ASSUME Kill PROVE WInv'
  BY <1>Kill DEF Kill
<1>StackFails. ASSUME StackFails PROVE WInv'
  BY <1>StackFails DEF StackFails
<1>WatchdogRestarts. ASSUME WatchdogRestarts PROVE WInv'
  <2> SUFFICES ASSUME gaps' = {} PROVE WInv'
    OBVIOUS
  <2>1. /\ UNCHANGED <<files, installed, tag, prevTag, composeFile, installDir, pc, cur>> /\ running' = tag /\ writers'
        /\ db'.schema = IF tag[WebImage] > db.schema THEN tag[WebImage] ELSE db.schema
    BY <1>WatchdogRestarts DEF WatchdogRestarts, StackUp, ComposeUp
  <2>2. gaps = {} /\ (Journalled /\ ~Switched => tag[WebImage] = installed)
    BY <1>WatchdogRestarts DEF WatchdogRestarts, StackUp
  <2>3. ByPhase /\ Forward /\ Back
    BY <2>2
  <2>4. Whole => Whole'
    BY <2>1
  <2>5. ByPhase'
    BY <2>1, <2>2, <2>3, <2>4
  <2>6. Forward'
    BY <2>1, <2>3
  <2>7. Back'
    BY <2>1, <2>3, <2>4
  <2> QED
    BY <2>5, <2>6, <2>7
<1> QED
  BY <1>AcceptFails, <1>ApplyFails, <1>StopUnnoticed, <1>CycleAborts, <1>ProcessUndoFails,
     <1>RecoverNothingFails, <1>RecoverUndoFails, <1>RecoverAborts, <1>PowerCut, <1>Kill,
     <1>StackFails, <1>WatchdogRestarts DEF Faults

LEMMA OneNext == TInv /\ WInv /\ [Next]_vars => WInv'
<1> SUFFICES ASSUME TInv, WInv, [Next]_vars PROVE WInv'
  OBVIOUS
<1>1. CASE Next
  BY <1>1, TypedNext, OneDashboard, OneCycle, OneApply, OneUndo, OneRecover, OneTake, OneWait,
     OneFaults DEF Next
<1>2. CASE UNCHANGED vars
  BY <1>2 DEF vars, files, device, process, bounds, history, WInv, ByPhase, Forward, Back, Whole, AllAt, OnTrial, Switched,
              Journalled, Loaded, Trying, RollbackSteps
<1> QED
  BY <1>1, <1>2

\* With no update under way, image names, containers, compose file, install/, database schema and
\* installed.json agree, whatever was cut short or failed before: process_bundle()'s own undo() and
\* recover()'s both put back everything that apply() had moved by then.
THEOREM SameThroughout == Spec => []OneVersion
<1>1. WInv => OneVersion
  BY DEF WInv, ByPhase, Whole, OneVersion
<1> QED
  BY OneInit, OneNext, Typed, <1>1, PTL DEF Spec
=============================================================================
