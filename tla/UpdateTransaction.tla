------------------------- MODULE UpdateTransaction -------------------------
(***************************************************************************)
(* The update worker's transaction over an installation (updater/          *)
(* transaction.go, engine.go, process.go) together with the write gate of  *)
(* the running program (features/updates.py, main.py).                     *)
(*                                                                         *)
(* Every durable effect of the worker is one step, so that the worker or   *)
(* the machine may stop between any two of them, and every step has its    *)
(* error path.  What a file holds is abstracted to the version it belongs  *)
(* to, and DATA to its schema version and the business writes it holds.    *)
(***************************************************************************)
EXTENDS Integers, FiniteSets

CONSTANTS
  Writes,        \* business writes clients may send
  MaxVersion,    \* released versions are 1..MaxVersion
  MaxJobs,       \* bound: installations that reach the transaction
  MaxFaults,     \* bound: failing file operations, stops and starts
  MaxCrashes,    \* bound: deaths of the worker or of the machine
  Oversized,     \* jobs at whose time DATA has so many files that transaction.json
                 \* and snapshot.json exceed the 8 MiB that readJSON accepts
  Mishaps        \* the circumstances of this instance, out of AllMishaps

ASSUME VersionAssumption == MaxVersion \in Nat \ {0}
ASSUME BoundAssumption ==
  MaxJobs \in Nat /\ MaxFaults \in Nat /\ MaxCrashes \in Nat

\* "fresh": DATA may be missing when the history begins.
\* "by_hand": somebody may start the program while the worker is at work.
\* "unreadable": reading transaction.json may fail in update.exe --check.
AllMishaps == {"fresh", "by_hand", "unreadable"}
ASSUME MishapAssumption == Mishaps \subseteq AllMishaps

VARIABLES
  tx,        \* .updates/transaction.json
  install,   \* phase in .updates/install.json
  active,    \* .updates/status.json is busy with an install phase
  files,     \* version of SunYu_ERP.exe, update.exe; last writer of config.json
  data,      \* DATA: complete or half restored, schema version, writes held
  backup,    \* .updates/backup/<job>: the published snapshot of each job
  svc,       \* version of the running program, 0 when none runs
  inflight,  \* writes the gate admitted and the handler has not committed
  acked,     \* history: writes acknowledged to a client
  pc,        \* the worker's next step, "off" when no worker runs
  mem,       \* the worker's Transaction in memory, but for its state
  todo,      \* program files the worker has still to restore
  faults, crashes

disk == <<tx, install, active, files, data, backup>>
service == <<svc, inflight, acked>>
worker == <<pc, mem, todo>>
budget == <<faults, crashes>>
vars == <<disk, service, worker, budget>>

Versions == 1..MaxVersion
Jobs == 0..MaxJobs
FileNames == {"exe", "upd", "cfg"}
Files == [FileNames -> 0..MaxVersion]
NoTx == [job |-> 0, old |-> 0, new |-> 0]
NoBackup == [done |-> FALSE, schema |-> 0, writes |-> {},
             files |-> [f \in FileNames |-> 0]]

Restorable == {"backed_up", "replacing", "starting", "restoring"}
Committed == {"verified", "complete"}
States == {"none", "preparing", "rolled_back"} \cup Restorable \cup Committed

\* Mutation: only the status is consulted, not the durable marker.
GateIgnoringMarker == svc # 0 /\ ~active

\* writes_blocked: the marker first, then an active install phase.
GateOpen == svc # 0 /\ install # "installing" /\ ~active

Snap == backup[mem.job]

Init ==
  /\ \E v \in Versions :
       /\ files \in {[exe |-> v, upd |-> u, cfg |-> 0] : u \in {0, v}}
       /\ data \in {[whole |-> TRUE, schema |-> s, writes |-> {}] :
                      s \in IF "fresh" \in Mishaps THEN {0, v} ELSE {v}}
  /\ tx = [job |-> 0, state |-> "none", old |-> 0, new |-> 0]
  /\ install = "absent"
  /\ active = FALSE
  /\ backup = [j \in Jobs |-> NoBackup]
  /\ svc = 0 /\ inflight = {} /\ acked = {}
  /\ pc = "off" /\ mem = NoTx /\ todo = {}
  /\ faults = 0 /\ crashes = 0

-----------------------------------------------------------------------------
(* The program: start, migration, the write gate, exit.                    *)

\* Startup runs the migrations and may complete config.json; a program that
\* is older than the schema refuses to run.
Boot ==
  /\ svc = 0
  /\ data.schema <= files.exe
  /\ svc' = files.exe
  /\ data' = [data EXCEPT !.schema = files.exe]
  /\ files' \in {files, [files EXCEPT !.cfg = files.exe]}

StartByHand ==
  /\ "by_hand" \in Mishaps \/ pc = "off" \/ install # "installing"
  /\ Boot
  /\ UNCHANGED <<tx, install, active, backup, inflight, acked, worker, budget>>

\* The program exits; requests that were running end unacknowledged.
ProgramExits ==
  /\ svc # 0
  /\ svc' = 0 /\ inflight' = {}
  /\ UNCHANGED <<disk, acked, worker, budget>>

\* business_write: the gate is read once, on entry.
Admit(w) ==
  /\ GateOpen
  /\ w \notin inflight \cup acked
  /\ inflight' = inflight \cup {w}
  /\ UNCHANGED <<disk, svc, acked, worker, budget>>

CommitWrite(w) ==
  /\ w \in inflight
  /\ inflight' = inflight \ {w}
  /\ data' = [data EXCEPT !.writes = @ \cup {w}]
  /\ acked' = acked \cup {w}
  /\ UNCHANGED <<tx, install, active, files, backup, svc, worker, budget>>

\* state(): a busy status is turned into a failure when nobody works on it for
\* 30 seconds, and when the entry this program started exits with an error,
\* though its worker may be alive.  That the worker's next progress raises it
\* again is left out: the model's gate is open at least where the code's is.
StatusExpires ==
  /\ svc # 0 /\ active
  /\ active' = FALSE
  /\ UNCHANGED <<tx, install, files, data, backup, service, worker, budget>>

-----------------------------------------------------------------------------
(* The worker.  A step that fails and leaves the disk as it was follows    *)
(* StepFails; a failure that leaves something behind has its own action.   *)

ToFailing == {"recover", "ready", "save_preparing", "barrier", "stop", "save_verified",
              "commit_barrier", "commit_save", "commit_report", "undo_save",
              "resume_save", "resume_start", "resume_barrier", "rb_stop",
              "rb_mark", "rb_wipe", "rb_copy", "rb_files", "rb_done"}
ToResume == {"backup", "backup_save"}
ToRollback == {"save_replacing", "copy_exe", "copy_upd", "save_starting",
               "start", "check_config"}
Steps == ToFailing \cup ToResume \cup ToRollback
         \cup {"off", "undo_barrier", "failing"}

ErrorExit(p) == IF p \in ToFailing THEN "failing"
                ELSE IF p \in ToResume THEN "resume_save" ELSE "rb_stop"

Fault == faults < MaxFaults /\ faults' = faults + 1 /\ UNCHANGED crashes

StepFails ==
  /\ pc \in ToFailing \cup ToResume \cup ToRollback
  /\ Fault
  /\ pc' = ErrorExit(pc)
  /\ UNCHANGED <<disk, service, mem, todo>>

\* install(): progress("stopping") and stop() fail at the same point, but only
\* a failed stop lowers the barrier again; stop may have ended the program.
StopFails ==
  /\ pc \in {"stop", "rb_stop"}
  /\ Fault
  /\ pc' = IF pc = "stop" THEN "undo_barrier" ELSE "failing"
  /\ \/ UNCHANGED <<svc, inflight>>
     \/ svc # 0 /\ svc' = 0 /\ inflight' = {}
  /\ UNCHANGED <<disk, acked, mem, todo>>

\* A replacement meets a program that runs: Windows refuses it.
ReplaceRefused ==
  /\ \/ pc \in {"copy_exe", "rb_wipe", "rb_copy"}
     \/ pc = "rb_files" /\ "exe" \in todo
  /\ svc # 0
  /\ pc' = ErrorExit(pc)
  /\ data' \in {data} \cup
       IF pc \in {"rb_wipe", "rb_copy"} THEN {[data EXCEPT !.whole = FALSE]} ELSE {}
  /\ UNCHANGED <<tx, install, active, files, backup, service, mem, todo, budget>>

\* start(): the program came up far enough to migrate, then failed its check.
StartUnhealthy ==
  /\ pc \in {"start", "resume_start"}
  /\ Fault
  /\ svc = 0 /\ data.schema <= files.exe
  /\ svc' \in {0, files.exe}
  /\ data' = [data EXCEPT !.schema = files.exe]
  /\ files' \in {files, [files EXCEPT !.cfg = files.exe]}
  /\ pc' = ErrorExit(pc)
  /\ UNCHANGED <<tx, install, active, backup, inflight, acked, mem, todo>>

Saved(state) == [job |-> mem.job, state |-> state, old |-> mem.old, new |-> mem.new]

\* One saveTx that succeeds and leads to the next step.
SaveTx(from, state, to) ==
  /\ pc = from /\ pc' = to
  /\ tx' = Saved(state)
  /\ UNCHANGED <<install, active, files, data, backup, service, mem, todo, budget>>

\* One barrier() that succeeds and leads to the next step.
Barrier(from, phase, to) ==
  /\ pc = from /\ pc' = to
  /\ install' = phase
  /\ UNCHANGED <<tx, active, files, data, backup, service, mem, todo, budget>>

\* start(expected) passes its health check.
Start(from, expected, to) ==
  /\ pc = from /\ pc' = to
  /\ \/ svc = expected /\ UNCHANGED <<svc, data, files>>
     \/ Boot /\ svc' = expected
  /\ UNCHANGED <<tx, install, active, backup, inflight, acked, mem, todo, budget>>

\* What runs, or what would run, can never pass the check for expected.  It
\* concerns the old program only: what was just copied is the new one.
StartImpossible(from, expected) ==
  /\ pc = from /\ pc' = ErrorExit(from)
  /\ svc # expected
  /\ svc # 0 \/ data.schema > files.exe \/ files.exe # expected
  /\ UNCHANGED <<disk, service, mem, todo, budget>>

\* runWorker: progress("checking") is not an install phase.
Launch ==
  /\ pc = "off"
  /\ pc' = "recover"
  /\ active' = FALSE
  /\ UNCHANGED <<tx, install, files, data, backup, service, mem, todo, budget>>

\* Mutation: a verified upgrade is recovered like an interrupted one.
RecoverVerifiedByRollback ==
  IF tx.state \in {"none", "complete"} THEN "ready"
  ELSE IF tx.state = "preparing" THEN "resume_save"
  ELSE IF tx.state \in Restorable \cup {"verified"} THEN "rb_stop"
  ELSE IF install = "verified" THEN "ready" ELSE "resume_start"

\* Mutation: an interrupted replacement is taken for an untouched program.
RecoverByResuming ==
  IF tx.state \in {"none", "complete"} THEN "ready"
  ELSE IF tx.state = "verified" THEN "commit_barrier"
  ELSE IF tx.state \in Restorable \cup {"preparing"} THEN "resume_save"
  ELSE IF install = "verified" THEN "ready" ELSE "resume_start"

\* Mutation: a rolled back transaction counts as finished with its barrier up.
RecoverForgettingBarrier ==
  IF tx.state \in {"none", "complete", "rolled_back"} THEN "ready"
  ELSE IF tx.state = "verified" THEN "commit_barrier"
  ELSE IF tx.state = "preparing" THEN "resume_save" ELSE "rb_stop"

\* recoverPending: which way the persisted state leads.
RecoverStep ==
  IF tx.state \in {"none", "complete"} THEN "ready"
  ELSE IF tx.state = "verified" THEN "commit_barrier"
  ELSE IF tx.state = "preparing" THEN "resume_save"
  ELSE IF tx.state \in Restorable THEN "rb_stop"
  ELSE IF install = "verified" THEN "ready" ELSE "resume_start"

\* A transaction that carries its snapshot is as large as the snapshot.
Readable == ~(tx.job \in Oversized /\ tx.state # "preparing" /\ backup[tx.job].done)

RecoverPending ==
  /\ pc = "recover" /\ Readable
  /\ pc' = RecoverStep
  /\ mem' = [job |-> tx.job, old |-> tx.old, new |-> tx.new]
  /\ UNCHANGED <<disk, service, todo, budget>>

RecoverUnreadable ==
  /\ pc = "recover" /\ ~Readable
  /\ pc' = "failing"
  /\ UNCHANGED <<disk, service, mem, todo, budget>>

\* cleanup(keep): snapshots of other jobs go, when their snapshot.json can be
\* read; it may stop half way.
Cleanup(keep) ==
  \E gone \in SUBSET {j \in Jobs \ Oversized : j # keep /\ backup[j].done} :
    backup' = [j \in Jobs |-> IF j \in gone THEN NoBackup ELSE backup[j]]

\* update.exe --check: run(false) cleans up without looking at the transaction
\* first; when it cannot read it, it keeps no snapshot at all.
CheckOnly ==
  /\ pc = "off"
  /\ active' = FALSE
  /\ \/ Cleanup(tx.job) /\ UNCHANGED budget
     \/ "unreadable" \in Mishaps /\ Fault /\ Cleanup(0)
  /\ UNCHANGED <<tx, install, files, data, service, worker>>

NothingToInstall ==
  /\ pc = "ready" /\ pc' = "off"
  /\ Cleanup(tx.job)
  /\ UNCHANGED <<tx, install, active, files, data, service, mem, todo, budget>>

\* A newer release v was found; progress("downloading") holds new writes off.
Download(v) ==
  /\ pc = "ready" /\ pc' = "save_preparing"
  /\ v > files.exe /\ tx.job < MaxJobs
  /\ Cleanup(tx.job)
  /\ active' = TRUE
  /\ mem' = [job |-> tx.job + 1, old |-> files.exe, new |-> v]
  /\ UNCHANGED <<tx, install, files, data, service, todo, budget>>

\* Mutation: stop() asks the program to exit and does not wait for it.
StopWithoutWaiting(from, to) ==
  /\ pc = from /\ pc' = to
  /\ UNCHANGED <<disk, service, mem, todo, budget>>

StopProgram(from, to) ==
  /\ pc = from /\ pc' = to
  /\ svc' = 0 /\ inflight' = {}
  /\ UNCHANGED <<disk, acked, mem, todo, budget>>

\* A failed stop: both writes of the way back are attempted, neither checked.
UndoBarrier ==
  /\ pc = "undo_barrier" /\ pc' = "undo_save"
  /\ \/ install' = "verified" /\ UNCHANGED budget
     \/ Fault /\ UNCHANGED install
  /\ UNCHANGED <<tx, active, files, data, backup, service, mem, todo>>

\* backup(): copied and verified under a .partial name, published by rename.
PublishBackup ==
  /\ pc = "backup" /\ pc' = "backup_save"
  /\ backup' = [backup EXCEPT ![mem.job] =
       [done |-> TRUE, schema |-> data.schema, writes |-> data.writes,
        files |-> files]]
  /\ UNCHANGED <<tx, install, active, files, data, service, mem, todo, budget>>

CopyNew(from, file, to) ==
  /\ pc = from /\ pc' = to
  /\ file = "exe" => svc = 0
  /\ files' = [files EXCEPT ![file] = mem.new]
  /\ UNCHANGED <<tx, install, active, data, backup, service, mem, todo, budget>>

\* The new program may not have rewritten config.json.
CheckConfig ==
  /\ pc = "check_config"
  /\ pc' = IF files.cfg = Snap.files.cfg THEN "save_verified" ELSE "rb_stop"
  /\ UNCHANGED <<disk, service, mem, todo, budget>>

\* commit(): cleanup is best effort, then progress("success").
CommitReport ==
  /\ pc = "commit_report" /\ pc' = "off"
  /\ Cleanup(mem.job)
  /\ active' = FALSE
  /\ UNCHANGED <<tx, install, files, data, service, mem, todo, budget>>

\* The deferred progress("failed"); it may fail itself.
ReportFailure ==
  /\ pc = "failing" /\ pc' = "off"
  /\ \/ active' = FALSE /\ UNCHANGED budget
     \/ Fault /\ UNCHANGED active
  /\ UNCHANGED <<tx, install, files, data, backup, service, mem, todo>>

-----------------------------------------------------------------------------
(* restore(): checks, the durable mark, DATA, the program files, config.   *)

Manual == Snap.schema = 0 /\ data.schema # 0

\* The snapshot cannot be read back, or DATA did not exist before and does
\* now: nothing is touched, ever.
RestoreByHand ==
  /\ pc = "rb_mark" /\ (Manual \/ mem.job \in Oversized)
  /\ pc' = "failing"
  /\ UNCHANGED <<disk, service, mem, todo, budget>>

MarkRestoring ==
  /\ pc = "rb_mark" /\ ~Manual /\ mem.job \notin Oversized
  /\ pc' = IF Snap.schema = 0 THEN "rb_files" ELSE "rb_wipe"
  /\ tx' = Saved("restoring")
  /\ todo' = {f \in FileNames : f = "upd" => Snap.files.upd # 0}
  /\ UNCHANGED <<install, active, files, data, backup, service, mem, budget>>

\* RemoveAll of every entry; it may stop half way.
WipeData ==
  /\ pc = "rb_wipe" /\ svc = 0
  /\ data' = [whole |-> FALSE, schema |-> 0, writes |-> {}]
  /\ \/ pc' = "rb_copy" /\ UNCHANGED budget
     \/ pc' = "failing" /\ Fault
  /\ UNCHANGED <<tx, install, active, files, backup, service, mem, todo>>

CopyDataBack ==
  /\ pc = "rb_copy" /\ svc = 0
  /\ pc' = "rb_files"
  /\ data' = [whole |-> TRUE, schema |-> Snap.schema, writes |-> Snap.writes]
  /\ UNCHANGED <<tx, install, active, files, backup, service, mem, todo, budget>>

\* The two programs in any order, config.json last.
CopyFileBack(f) ==
  /\ pc = "rb_files" /\ f \in todo
  /\ f = "cfg" => todo = {"cfg"}
  /\ f = "exe" => svc = 0
  /\ files' = [files EXCEPT ![f] = Snap.files[f]]
  /\ todo' = todo \ {f}
  /\ pc' = IF f = "cfg" THEN "rb_done" ELSE "rb_files"
  /\ UNCHANGED <<tx, install, active, data, backup, service, mem, budget>>

-----------------------------------------------------------------------------
(* Death of the worker, and of the machine with everything on it.          *)

Crash ==
  /\ crashes < MaxCrashes /\ crashes' = crashes + 1
  /\ pc # "off" /\ pc' = "off" /\ mem' = NoTx /\ todo' = {}
  /\ \/ UNCHANGED <<svc, inflight>>
     \/ svc # 0 /\ svc' = 0 /\ inflight' = {}
  /\ UNCHANGED <<disk, acked, faults>>

Saves ==
  \/ SaveTx("save_preparing", "preparing", "barrier")
  \/ SaveTx("undo_save", "rolled_back", "failing")
  \/ SaveTx("backup_save", "backed_up", "save_replacing")
  \/ SaveTx("save_replacing", "replacing", "copy_exe")
  \/ SaveTx("save_starting", "starting", "start")
  \/ SaveTx("save_verified", "verified", "commit_barrier")
  \/ SaveTx("commit_save", "complete", "commit_report")
  \/ SaveTx("resume_save", "rolled_back", "resume_start")
  \/ SaveTx("rb_done", "rolled_back", "resume_start")

Worker ==
  \/ Launch \/ RecoverPending \/ RecoverUnreadable \/ NothingToInstall
  \/ \E v \in Versions : Download(v)
  \/ Saves
  \/ Barrier("barrier", "installing", "stop")
  \/ Barrier("commit_barrier", "verified", "commit_save")
  \/ Barrier("resume_barrier", "verified", "failing")
  \/ StopProgram("stop", "backup") \/ StopProgram("rb_stop", "rb_mark")
  \/ UndoBarrier \/ PublishBackup
  \/ CopyNew("copy_exe", "exe", "copy_upd")
  \/ CopyNew("copy_upd", "upd", "save_starting")
  \/ Start("start", mem.new, "check_config")
  \/ Start("resume_start", mem.old, "resume_barrier")
  \/ StartImpossible("resume_start", mem.old)
  \/ CheckConfig \/ CommitReport \/ ReportFailure
  \/ RestoreByHand \/ MarkRestoring \/ WipeData \/ CopyDataBack
  \/ \E f \in FileNames : CopyFileBack(f)
  \/ ReplaceRefused

Failures == StepFails \/ StopFails \/ StartUnhealthy \/ Crash

Program ==
  \/ StartByHand \/ ProgramExits \/ StatusExpires \/ CheckOnly
  \/ \E w \in Writes : Admit(w) \/ CommitWrite(w)

Next == Worker \/ Failures \/ Program

Spec == Init /\ [][Next]_vars

\* The operating system runs the worker, and the user runs update.exe again
\* until nothing is pending: the message of every failure asks for it.
FairSpec == Spec /\ WF_vars(Worker)

-----------------------------------------------------------------------------
(* Properties.                                                             *)

TypeOK ==
  /\ tx \in [job : Jobs, state : States, old : 0..MaxVersion, new : 0..MaxVersion]
  /\ mem \in [job : Jobs, old : 0..MaxVersion, new : 0..MaxVersion]
  /\ install \in {"absent", "installing", "verified"}
  /\ active \in BOOLEAN
  /\ files \in Files
  /\ data \in [whole : BOOLEAN, schema : 0..MaxVersion, writes : SUBSET Writes]
  /\ backup \in [Jobs -> [done : BOOLEAN, schema : 0..MaxVersion,
                          writes : SUBSET Writes, files : Files]]
  /\ svc \in 0..MaxVersion
  /\ inflight \subseteq Writes /\ acked \subseteq Writes
  /\ pc \in Steps /\ todo \subseteq FileNames
  /\ faults \in 0..MaxFaults /\ crashes \in 0..MaxCrashes

\* What the installation holds: DATA, unless a snapshot still has to decide.
LogicalWrites ==
  IF tx.state \in Restorable THEN backup[tx.job].writes ELSE data.writes

LogicalVersion ==
  IF tx.state = "none" THEN files.exe
  ELSE IF tx.state \in Committed THEN tx.new ELSE tx.old

\* The snapshot of a transaction that may still have to be restored is kept:
\* the messages of every failed update ask for it ("please keep .updates").
SnapshotKept == tx.state \in Restorable => backup[tx.job].done

\* No acknowledged write is ever lost: DATA is complete and holds it, or the
\* published snapshot of the pending transaction does.  A failure needs a
\* write that slips past the gate, a snapshot cleaned too early, a rollback
\* after commit, or DATA reopened half restored.
NoAckedWriteLost ==
  /\ acked \subseteq LogicalWrites
  /\ tx.state \notin Restorable => data.whole
  /\ SnapshotKept

\* While the gate admits writes, or one is still running, DATA is complete and
\* the program that runs, the file on disk and the schema are one version.
GateConsistent ==
  GateOpen \/ inflight # {} =>
    /\ data.whole
    /\ svc = files.exe /\ data.schema = svc
    /\ svc = LogicalVersion

\* A rolled back installation is what it was before: the old program, DATA not
\* migrated beyond it, and the updater that was saved with it.
RolledBackIsRestored ==
  tx.state = "rolled_back" =>
    /\ data.whole
    /\ files.exe = tx.old /\ data.schema \in {0, tx.old}
    /\ backup[tx.job].done => files.upd = backup[tx.job].files.upd
                              \/ backup[tx.job].files.upd = 0

\* After an upgrade was verified it is never rolled back and DATA never goes
\* back: only the next job may open a new transaction.
CommitIsFinal ==
  [][tx.state \in Committed =>
       /\ data.writes \subseteq data'.writes /\ data'.whole
       /\ tx'.job = tx.job => tx'.state \in Committed]_vars

\* DATA is replaced only behind the barrier, with no admitted write left and,
\* where nobody starts the program by hand meanwhile, with no program alive.
\* (One that is started so may run while DATA is half restored: Windows then
\* refuses to remove what it holds open, ReplaceRefused.)
ReplacedBehindBarrier ==
  [][ data'.whole # data.whole \/ ~(data.writes \subseteq data'.writes) =>
        /\ install = "installing" /\ inflight = {}
        /\ svc = 0 \/ "by_hand" \in Mishaps ]_vars

\* Maintenance ends: a raised barrier is lowered again.
MaintenanceEnds == install = "installing" ~> install = "verified"

\* The transaction implements an upgrade that is atomic and loses nothing.
Serving == IF GateOpen \/ inflight # {} THEN svc ELSE 0
Upgrades == INSTANCE AtomicUpgrade WITH
  version <- LogicalVersion, serving <- Serving, ledger <- LogicalWrites
Refines == Upgrades!ASpec
=============================================================================
