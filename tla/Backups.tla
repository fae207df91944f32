------------------------------ MODULE Backups ------------------------------
(***************************************************************************)
(* The life of a backup (features/system.py, features/backups.py): tasks   *)
(* and direct calls that wait for one lock, write a stage, publish it by a *)
(* rename, record the run, prune old backups and report; every database    *)
(* and file operation may fail, the process may die at any step, a clock   *)
(* may stand still or go back, and a stored backup may be damaged.         *)
(*                                                                         *)
(* What a backup contains while documents are stored is in DocumentStore.  *)
(***************************************************************************)
EXTENDS Integers, FiniteSets

CONSTANTS
  Jobs,         \* the backups asked for
  Times,        \* what the clock may show, in the resolution of the names
  OldTimes,     \* times of backups that may be there at first
  Retention,    \* backup_retention_days, in the unit of Times
  MaxFaults, MaxCrashes, MaxDamage   \* bounds of an instance

NoJob == "none"
Earlier == "earlier"
ASSUME JobsAssumption == {NoJob, Earlier} \cap Jobs = {}
ASSUME TimesAssumption ==
  /\ Times \subseteq Nat /\ Times # {} /\ Retention \in Nat
  /\ OldTimes \subseteq Times /\ IsFiniteSet(OldTimes)

VARIABLES
  run,          \* backup_runs.status of each job
  task,         \* backup_tasks.status of each job
  disk,         \* the published backups: job, time of creation, whether it verifies
  stages,       \* jobs whose .incomplete directory is there
  up,           \* whether the service runs
  pc, at,       \* next step and time of each job
  kind,         \* "task": run by a thread; "call": by a request or the scheduler
  lock,         \* holder of _BACKUP_LOCK
  live, unrecorded,   \* live_tasks, unrecorded_success
  pruned,       \* history: jobs whose backup retention removed
  told,         \* history: jobs whose success was answered
  faults, crashes, damages

stored == <<run, task, disk, stages>>
memory == <<pc, at, kind, lock, live, unrecorded>>
history == <<pruned, told>>
counters == <<faults, crashes, damages>>
vars == <<stored, up, memory, history, counters>>

RunStates == {"none", "running", "success", "failed"}
TaskStates == RunStates \cup {"interrupted"}
Steps == {"idle", "wait", "insert", "stage", "publish", "record", "failed",
          "undo", "prune", "report", "late", "tell", "close", "done"}
Backup == [by : Jobs \cup {Earlier}, at : Times, ok : BOOLEAN]

Goto(j, step) == pc' = [pc EXCEPT ![j] = step]
Fault == faults < MaxFaults /\ faults' = faults + 1
NoFault == UNCHANGED faults
\* The rest of the state, for a step of the worker that holds the lock.
Rest == UNCHANGED <<up, at, kind, live, unrecorded, told, crashes, damages>>

Init ==
  /\ run = [j \in Jobs |-> "none"] /\ task = [j \in Jobs |-> "none"]
  /\ \E old \in SUBSET OldTimes :
       disk = {[by |-> Earlier, at |-> t, ok |-> TRUE] : t \in old}
  /\ stages = {} /\ up = TRUE
  /\ pc = [j \in Jobs |-> "idle"] /\ at = [j \in Jobs |-> CHOOSE t \in Times : TRUE]
  /\ kind = [j \in Jobs |-> "call"] /\ lock = NoJob
  /\ live = {} /\ unrecorded = {} /\ pruned = {} /\ told = {}
  /\ faults = 0 /\ crashes = 0 /\ damages = 0

-----------------------------------------------------------------------------
(* Asking for a backup. *)

Active == {k \in Jobs : task[k] = "running"}

\* start_backup_task: a running task whose worker is gone is interrupted first.
StartTask(j) ==
  /\ up /\ pc[j] = "idle"
  /\ Active \cap (live \cup unrecorded) = {}
  /\ task' = [k \in Jobs |-> IF k = j THEN "running"
                             ELSE IF k \in Active THEN "interrupted" ELSE task[k]]
  /\ kind' = [kind EXCEPT ![j] = "task"]
  /\ live' = live \cup {j}
  /\ Goto(j, "wait")
  /\ UNCHANGED <<run, disk, stages, up, at, lock, unrecorded, history, counters>>

\* The row is inserted but the thread cannot start; nor perhaps the row be updated.
StartTaskFails(j) ==
  /\ up /\ pc[j] = "idle" /\ Fault
  /\ Active \cap (live \cup unrecorded) = {}
  /\ \E end \in {"failed", "running"} :
       task' = [k \in Jobs |-> IF k = j THEN end
                               ELSE IF k \in Active THEN "interrupted" ELSE task[k]]
  /\ Goto(j, "done")
  /\ UNCHANGED <<run, disk, stages, up, at, kind, lock, live, unrecorded, history, crashes, damages>>

\* post_backup, and the scheduler when a backup is due.
Call(j) ==
  /\ up /\ pc[j] = "idle"
  /\ Goto(j, "wait")
  /\ UNCHANGED <<stored, up, at, kind, lock, live, unrecorded, history, counters>>

-----------------------------------------------------------------------------
(* The worker, under the lock. *)

Acquire(j) ==
  /\ pc[j] = "wait" /\ lock = NoJob
  /\ lock' = j
  /\ \E t \in Times : at' = [at EXCEPT ![j] = t]
  /\ Goto(j, "insert")
  /\ UNCHANGED <<stored, up, kind, live, unrecorded, history, counters>>

\* The job ends without success: the lock is released, a task is to be told so.
Ended(j) == Goto(j, IF kind[j] = "task" THEN "tell" ELSE "done") /\ lock' = NoJob

InsertRun(j) ==
  /\ pc[j] = "insert"
  /\ \/ NoFault /\ run' = [run EXCEPT ![j] = "running"] /\ Goto(j, "stage") /\ UNCHANGED lock
     \/ Fault /\ Ended(j) /\ UNCHANGED run
  /\ Rest /\ UNCHANGED <<task, disk, stages, pruned>>

NameTaken(j) == \E b \in disk : b.at = at[j]

Stage(j) ==
  /\ pc[j] = "stage"
  /\ \/ /\ NameTaken(j) /\ NoFault
        /\ Goto(j, "failed") /\ UNCHANGED stages
     \/ /\ ~NameTaken(j) /\ NoFault
        /\ stages' = stages \cup {j} /\ Goto(j, "publish")
     \/ /\ ~NameTaken(j) /\ Fault
        /\ stages' \in {stages, stages \cup {j}} /\ Goto(j, "failed")
  /\ Rest /\ UNCHANGED <<run, task, disk, lock, pruned>>

Made(j) == [by |-> j, at |-> at[j], ok |-> TRUE]

\* _publish_stage: a rename, and after a failure the removal of its result.
Publish(j) ==
  /\ pc[j] = "publish"
  /\ \/ NoFault /\ disk' = disk \cup {Made(j)} /\ stages' = stages \ {j} /\ Goto(j, "record")
     \/ Fault /\ UNCHANGED <<disk, stages>> /\ Goto(j, "failed")
     \/ /\ Fault /\ disk' \in {disk, disk \cup {Made(j)}}
        /\ stages' = stages \ {j} /\ Goto(j, "failed")
  /\ Rest /\ UNCHANGED <<run, task, lock, pruned>>

\* An update that raises may have taken effect.
RecordSuccess(j) ==
  /\ pc[j] = "record"
  /\ \/ NoFault /\ run' = [run EXCEPT ![j] = "success"] /\ Goto(j, "prune")
     \/ Fault /\ run' \in {run, [run EXCEPT ![j] = "success"]} /\ Goto(j, "undo")
  /\ Rest /\ UNCHANGED <<task, disk, stages, lock, pruned>>

\* _handle_failed_creation with nothing published.
HandleUnpublished(j) ==
  /\ pc[j] = "failed"
  /\ \/ NoFault /\ run' = [run EXCEPT ![j] = "failed"]
     \/ Fault /\ UNCHANGED run
  /\ stages' \in {stages, stages \ {j}}
  /\ Ended(j)
  /\ Rest /\ UNCHANGED <<task, disk, pruned>>

Own(j) == {b \in disk : b.by = j}

\* Mutation: the backup of a failed job is removed whatever is recorded.
HandlePublishedByRemoving(j) ==
  /\ pc[j] = "undo"
  /\ disk' = disk \ Own(j)
  /\ UNCHANGED <<run, faults>>
  /\ Ended(j)
  /\ Rest /\ UNCHANGED <<task, stages, pruned>>

\* ... and with a published backup: one recorded as a success and valid stays;
\* any other is removed, but only once its run is known to be recorded as failed.
HandlePublished(j) ==
  /\ pc[j] = "undo"
  /\ \/ NoFault /\ run[j] = "success" /\ (\E b \in Own(j) : b.ok) /\ UNCHANGED <<run, disk>>
     \/ /\ NoFault /\ ~(run[j] = "success" /\ \E b \in Own(j) : b.ok)
        /\ run' = [run EXCEPT ![j] = "failed"]
        /\ disk' \in {disk, disk \ Own(j)}
     \/ /\ Fault /\ run' \in {run, [run EXCEPT ![j] = "failed"]}
        /\ run[j] = "success" => \A b \in Own(j) : ~b.ok \/ run' = run
        /\ UNCHANGED disk
  /\ Ended(j)
  /\ Rest /\ UNCHANGED <<task, stages, pruned>>

\* prune_backups: of the backups that verify, the two newest stay, and those
\* made within the retention.
Newer(b) == {c \in disk : c.ok /\ c.at > b.at}
\* Mutation: the two newest are counted before they are verified.
ExpiredUnverified(now) ==
  {b \in disk : b.ok /\ Cardinality({c \in disk : c.at > b.at}) >= 2 /\ b.at < now - Retention}

Expired(now) ==
  {b \in disk : b.ok /\ Cardinality(Newer(b)) >= 2 /\ b.at < now - Retention}

\* Newest first; a failure leaves the rest, and the one it was at half removed.
Prune(j) ==
  /\ pc[j] = "prune"
  /\ \/ NoFault /\ disk' = disk \ Expired(at[j])
     \/ /\ Fault
        /\ \E b \in Expired(at[j]), half \in BOOLEAN :
             disk' = (disk \ {c \in Expired(at[j]) : c.at >= b.at})
                     \cup {[b EXCEPT !.ok = ~half]}
  /\ pruned' = pruned \cup ({b.by : b \in disk \ disk'} \ {Earlier})
  /\ Goto(j, "report")
  /\ Rest /\ UNCHANGED <<run, task, stages, lock>>

\* The call reads its run and answers; the task records, still under the lock.
Report(j) ==
  /\ pc[j] = "report"
  /\ lock' = NoJob
  /\ \/ /\ kind[j] = "call" /\ NoFault
        /\ told' = told \cup {j} /\ UNCHANGED task /\ Goto(j, "done")
     \/ /\ kind[j] = "call" /\ Fault
        /\ UNCHANGED <<task, told>> /\ Goto(j, "done")
     \/ /\ kind[j] = "task" /\ NoFault
        /\ task' = [task EXCEPT ![j] = "success"] /\ UNCHANGED told /\ Goto(j, "close")
     \/ /\ kind[j] = "task" /\ Fault
        /\ UNCHANGED <<task, told>> /\ Goto(j, "late")
  /\ UNCHANGED <<run, disk, stages, up, at, kind, live, unrecorded, pruned, crashes, damages>>

\* Mutation: it is not kept.
KeepNothing(j) ==
  /\ pc[j] = "late"
  /\ Goto(j, "close")
  /\ UNCHANGED <<stored, up, at, kind, lock, live, unrecorded, history, counters>>

\* The success is kept in memory, for the next request to record.
KeepUnrecorded(j) ==
  /\ pc[j] = "late"
  /\ unrecorded' = unrecorded \cup {j}
  /\ Goto(j, "close")
  /\ UNCHANGED <<stored, up, at, kind, lock, live, history, counters>>

TellFailed(j) ==
  /\ pc[j] = "tell"
  /\ \/ NoFault /\ task' = [task EXCEPT ![j] = "failed"]
     \/ Fault /\ UNCHANGED task
  /\ Goto(j, "close")
  /\ UNCHANGED <<run, disk, stages, up, at, kind, lock, live, unrecorded, history, crashes, damages>>

Close(j) ==
  /\ pc[j] = "close"
  /\ live' = live \ {j}
  /\ Goto(j, "done")
  /\ UNCHANGED <<stored, up, at, kind, lock, unrecorded, history, counters>>

-----------------------------------------------------------------------------
(* get_backup_task, with reconcile_task. *)

AskUnrecorded(j) ==
  /\ up /\ j \in unrecorded
  /\ told' = told \cup {j}
  /\ \/ /\ NoFault
        /\ task' = [task EXCEPT ![j] = "success"] /\ unrecorded' = unrecorded \ {j}
     \/ Fault /\ UNCHANGED <<task, unrecorded>>
  /\ UNCHANGED <<run, disk, stages, up, pc, at, kind, lock, live, pruned, crashes, damages>>

\* Mutation: the row is only read.
AskOnlyReads(j) == up /\ task[j] = "running" /\ UNCHANGED vars

\* A task that says it runs but has no worker is interrupted.
AskStopped(j) ==
  /\ up /\ j \notin unrecorded \cup live /\ task[j] = "running"
  /\ task' = [task EXCEPT ![j] = "interrupted"]
  /\ UNCHANGED <<run, disk, stages, up, memory, history, counters>>

AskFinished(j) ==
  /\ up /\ task[j] = "success" /\ j \notin unrecorded \cup told
  /\ told' = told \cup {j}
  /\ UNCHANGED <<stored, up, memory, pruned, counters>>

Ask(j) == AskUnrecorded(j) \/ AskStopped(j) \/ AskFinished(j)

-----------------------------------------------------------------------------
Crash ==
  /\ up /\ crashes < MaxCrashes
  /\ up' = FALSE /\ crashes' = crashes + 1
  /\ pc' = [j \in Jobs |-> IF pc[j] = "idle" THEN "idle" ELSE "done"]
  /\ lock' = NoJob /\ live' = {} /\ unrecorded' = {}
  /\ UNCHANGED <<stored, at, kind, history, faults, damages>>

\* recover_interrupted_backups
Restart ==
  /\ ~up /\ up' = TRUE
  /\ run' = [j \in Jobs |-> IF run[j] = "running" THEN "failed" ELSE run[j]]
  /\ task' = [j \in Jobs |-> IF task[j] = "running" THEN "interrupted" ELSE task[j]]
  /\ UNCHANGED <<disk, stages, memory, history, counters>>

\* Something outside the program damages a published backup.
Damage ==
  /\ damages < MaxDamage /\ damages' = damages + 1
  /\ \E b \in disk : b.ok /\ disk' = (disk \ {b}) \cup {[b EXCEPT !.ok = FALSE]}
  /\ UNCHANGED <<run, task, stages, up, memory, history, faults, crashes>>

Work(j) ==
  \/ Acquire(j) \/ InsertRun(j) \/ Stage(j) \/ Publish(j) \/ RecordSuccess(j)
  \/ HandleUnpublished(j) \/ HandlePublished(j) \/ Prune(j) \/ Report(j)
  \/ KeepUnrecorded(j) \/ TellFailed(j) \/ Close(j)

Next ==
  \/ \E j \in Jobs : StartTask(j) \/ StartTaskFails(j) \/ Call(j) \/ Work(j) \/ Ask(j)
  \/ Crash \/ Restart \/ Damage

Spec == Init /\ [][Next]_vars

\* Threads run, the service is started again, and a page that shows a task
\* goes on asking for it.
FairSpec ==
  Spec /\ WF_vars(Restart) /\ \A j \in Jobs : WF_vars(Work(j)) /\ WF_vars(Ask(j))

-----------------------------------------------------------------------------
\* Every variable has its type.
TypeOK ==
  /\ run \in [Jobs -> RunStates] /\ task \in [Jobs -> TaskStates]
  /\ disk \subseteq Backup /\ stages \subseteq Jobs /\ up \in BOOLEAN
  /\ pc \in [Jobs -> Steps] /\ at \in [Jobs -> Times]
  /\ kind \in [Jobs -> {"task", "call"}] /\ lock \in Jobs \cup {NoJob}
  /\ live \subseteq Jobs /\ unrecorded \subseteq Jobs
  /\ pruned \subseteq Jobs /\ told \subseteq Jobs

\* A run recorded as a success has its backup on the disk until retention
\* removes it, whatever failed while it was recorded, and only of such a run is
\* its owner told a success.
SuccessHasBackup ==
  \A j \in Jobs :
    /\ run[j] = "success" => j \in pruned \/ Own(j) # {}
    /\ j \in told => run[j] = "success"

\* A backup that verifies is removed only when two newer ones verify, or by
\* the job that made it and recorded it as failed: never another's backup.
TwoNewestKept ==
  [][\A b \in disk \ disk' :
       \/ ~b.ok \/ (b \notin disk' /\ [b EXCEPT !.ok = FALSE] \in disk')
       \/ b.by \in Jobs /\ run'[b.by] = "failed"
       \/ Cardinality({c \in disk' : c.ok /\ c.at > b.at}) >= 2]_vars

\* A task does not stay running for ever.
TaskEnds == \A j \in Jobs : task[j] = "running" ~> task[j] # "running"

\* Who asks for a task learns of its success, even if it could not be recorded
\* with the task, unless the process dies first.
SuccessIsTold ==
  \A j \in Jobs :
    pc[j] = "report" /\ kind[j] = "task" ~> j \in told \/ crashes > 0
=============================================================================
