--------------------------- MODULE UpdateDispatch ---------------------------
(***************************************************************************)
(* How an update job is dispatched: the service or a user starts the entry *)
(* of update.exe, which hands over to a worker running from a copy         *)
(* (bootstrap and runWorker in updater/main.go, start and state in         *)
(* features/updates.py).  Entry, worker and service are processes of their *)
(* own that share updater.lock, dispatch.json, the status and the          *)
(* handshake files.  What the worker then does is UpdateTransaction.       *)
(*                                                                         *)
(* Deadlines are choices: a wait may be given up whenever it lasts.        *)
(***************************************************************************)
EXTENDS Naturals

CONSTANTS
  JobIds,        \* each dispatched once
  Checks,        \* those that only check for a new version: the entry does it itself
  MaxKills       \* bound of an instance: processes killed and restarts of the service

ASSUME ChecksAssumption == Checks \subseteq JobIds

None == "none"
ASSUME NoneAssumption == None \notin JobIds

VARIABLES
  lock,          \* updater.lock: the process that holds it
  status,        \* status.json: job and phase
  dispatch,      \* dispatch.json: the job whose worker it names
  shaken,        \* the handshake files of each job
  entry, runner, \* the processes of each job
  request,       \* of the service: the job it is about to start
  started,       \* _started_job
  interrupted,   \* the job whose failure a thread of the service is about to write
  kills

dispatchFiles == <<lock, status, dispatch, shaken>>
serviceMemory == <<request, started, interrupted>>
dispatchVars == <<dispatchFiles, entry, runner, serviceMemory, kills>>

Free == <<"free", None>>
Entry(j) == <<"entry", j>>
Runner(j) == <<"worker", j>>
Says(j, phase) == [job |-> j, phase |-> phase]
Busy == status.phase \in {"starting", "checking", "installing"}

EntryAlive(j) ==
  entry[j] \in {"started", "locked", "begun", "spawned", "dispatched", "released", "running", "failing"}
WorkerAlive(j) == runner[j] \in {"started", "locking", "locked", "taken", "waiting", "running", "ending"}

\* activeDispatch: the process that the record names is still a worker of that job.
Active == dispatch # None /\ WorkerAlive(dispatch)

Freed(process) == IF lock = process THEN Free ELSE lock

DispatchInit ==
  /\ lock = Free /\ dispatch = None /\ status = Says(None, "idle")
  /\ shaken = [j \in JobIds |-> {}]
  /\ entry = [j \in JobIds |-> "idle"] /\ runner = [j \in JobIds |-> "none"]
  /\ request = None /\ started = None /\ interrupted = None /\ kills = 0

-----------------------------------------------------------------------------
(* The entry.                                                              *)

EntryGoes(j, from, to) == entry[j] = from /\ entry' = [entry EXCEPT ![j] = to]

StartEntry(j) ==
  /\ EntryGoes(j, "idle", "started") /\ j # request
  /\ UNCHANGED <<dispatchFiles, runner, serviceMemory, kills>>

EntryRefused(j) ==
  /\ lock # Free \/ Active
  /\ EntryGoes(j, "started", "failed")
  /\ UNCHANGED <<dispatchFiles, runner, serviceMemory, kills>>

EntryLock(j) ==
  /\ lock = Free /\ ~Active
  /\ EntryGoes(j, "started", "locked")
  /\ lock' = Entry(j)
  /\ UNCHANGED <<status, dispatch, shaken, runner, serviceMemory, kills>>

\* The job has ended already, as the service says: there is nothing to do.
EntryIdle(j) ==
  /\ j \notin Checks /\ status \in {Says(j, "success"), Says(j, "failed")}
  /\ EntryGoes(j, "locked", "done")
  /\ lock' = Free
  /\ UNCHANGED <<status, dispatch, shaken, runner, serviceMemory, kills>>

EntryBegin(j) ==
  /\ j \in Checks \/ status \notin {Says(j, "success"), Says(j, "failed")}
  /\ EntryGoes(j, "locked", IF j \in Checks THEN "running" ELSE "begun")
  /\ status' = Says(j, "checking")
  /\ UNCHANGED <<lock, dispatch, shaken, runner, serviceMemory, kills>>

EntryChecked(j) ==
  /\ EntryGoes(j, "running", "done")
  /\ \E phase \in {"success", "failed"} : status' = Says(j, phase)
  /\ lock' = Free
  /\ UNCHANGED <<dispatch, shaken, runner, serviceMemory, kills>>

EntrySpawn(j) ==
  /\ EntryGoes(j, "begun", "spawned")
  /\ runner' = [runner EXCEPT ![j] = "started"] /\ shaken' = [shaken EXCEPT ![j] = {}]
  /\ UNCHANGED <<lock, status, dispatch, serviceMemory, kills>>

EntryDispatch(j) ==
  /\ EntryGoes(j, "spawned", "dispatched")
  /\ dispatch' = j
  /\ UNCHANGED <<lock, status, shaken, runner, serviceMemory, kills>>

EntryRelease(j) ==
  /\ "ready" \in shaken[j]
  /\ EntryGoes(j, "dispatched", "released")
  /\ lock' = Free
  /\ UNCHANGED <<status, dispatch, shaken, runner, serviceMemory, kills>>

EntryDone(j) ==
  /\ "ack" \in shaken[j]
  /\ EntryGoes(j, "released", "done")
  /\ UNCHANGED <<dispatchFiles, runner, serviceMemory, kills>>

\* Mutation: a worker whose answer is late is left to itself.
Terminated(j) == IF entry[j] = "released" THEN runner[j] ELSE "dead"

Killed(j) == IF runner[j] = "none" THEN "none" ELSE "dead"

\* An error, the deadline of a wait or the end of the worker.  The lock goes before the
\* failure is written.
EntryGiveUp(j) ==
  /\ \E from \in {"begun", "spawned", "dispatched", "released"} : EntryGoes(j, from, "failing")
  /\ runner' = [runner EXCEPT ![j] = Killed(j)]
  /\ lock' = IF lock \in {Entry(j), Runner(j)} THEN Free ELSE lock
  /\ UNCHANGED <<status, dispatch, shaken, serviceMemory, kills>>

EntryFail(j) ==
  /\ EntryGoes(j, "failing", "failed")
  /\ status' = Says(j, "failed")
  /\ UNCHANGED <<lock, dispatch, shaken, runner, serviceMemory, kills>>

-----------------------------------------------------------------------------
(* The worker.                                                             *)

WorkerGoes(j, from, to) == runner[j] = from /\ runner' = [runner EXCEPT ![j] = to]
Shake(j, file) == shaken' = [shaken EXCEPT ![j] = @ \cup {file}]

WorkerReady(j) ==
  /\ WorkerGoes(j, "started", "locking") /\ Shake(j, "ready")
  /\ UNCHANGED <<lock, status, dispatch, entry, serviceMemory, kills>>

WorkerLock(j) ==
  /\ lock = Free /\ lock' = Runner(j)
  /\ WorkerGoes(j, "locking", "locked")
  /\ UNCHANGED <<status, dispatch, shaken, entry, serviceMemory, kills>>

\* The request does not fit, or the lock is not to be had: nothing is written.
WorkerQuit(j) ==
  /\ \E from \in {"started", "locking"} : WorkerGoes(j, from, "dead")
  /\ UNCHANGED <<dispatchFiles, entry, serviceMemory, kills>>

\* Mutation: the record is not looked at again.
AnyDispatched(j) == TRUE

Dispatched(j) == dispatch = j

WorkerTake(j) ==
  /\ Dispatched(j) /\ WorkerGoes(j, "locked", "taken")
  /\ status' = Says(j, "checking")
  /\ UNCHANGED <<lock, dispatch, shaken, entry, serviceMemory, kills>>

\* Another job was dispatched, or the entry ended before it wrote the record.
WorkerRefuse(j) ==
  /\ ~Dispatched(j) /\ WorkerGoes(j, "locked", "dead")
  /\ lock' = Free
  /\ UNCHANGED <<status, dispatch, shaken, entry, serviceMemory, kills>>

WorkerAck(j) ==
  /\ WorkerGoes(j, "taken", "waiting") /\ Shake(j, "ack")
  /\ UNCHANGED <<lock, status, dispatch, entry, serviceMemory, kills>>

WorkerRun(j) ==
  /\ ~EntryAlive(j) /\ WorkerGoes(j, "waiting", "running")
  /\ status' = Says(j, "installing")
  /\ UNCHANGED <<lock, dispatch, shaken, entry, serviceMemory, kills>>

\* The answer cannot be written, the entry does not go, or the installation has ended one
\* way or the other.
WorkerReport(j) ==
  /\ \/ WorkerGoes(j, "taken", "ending") /\ status' = Says(j, "failed")
     \/ WorkerGoes(j, "waiting", "ending") /\ EntryAlive(j) /\ status' = Says(j, "failed")
     \/ /\ WorkerGoes(j, "running", "ending")
        /\ \E phase \in {"success", "failed"} : status' = Says(j, phase)
  /\ UNCHANGED <<lock, dispatch, shaken, entry, serviceMemory, kills>>

WorkerEnd(j) ==
  /\ WorkerGoes(j, "ending", "dead")
  /\ dispatch' = IF dispatch = j THEN None ELSE dispatch
  /\ lock' = Free
  /\ UNCHANGED <<status, shaken, entry, serviceMemory, kills>>

-----------------------------------------------------------------------------
(* The service: its request is one thread, what state() writes another.    *)

\* start: the status and the lock are looked at ...
Accept(j) ==
  /\ request = None /\ entry[j] = "idle" /\ ~Busy /\ lock = Free
  /\ request' = j
  /\ UNCHANGED <<dispatchFiles, entry, runner, started, interrupted, kills>>

\* ... and then the job is reserved and the entry started, unless that fails.
Reserve(j) ==
  /\ request = j /\ request' = None
  /\ \/ /\ EntryGoes(j, "idle", "started")
        /\ started' = j /\ status' = Says(j, "starting")
     \/ EntryGoes(j, "idle", "failed") /\ started' = started /\ status' = Says(j, "failed")
  /\ UNCHANGED <<lock, dispatch, shaken, runner, interrupted, kills>>

\* Mutation: only the exit of an entry of this process is noticed.
EntryFailed == started = status.job /\ started # None /\ entry[started] \in {"failed", "dead"}

\* state: the entry failed, or nothing was written for long and nobody holds the lock.
Abandoned ==
  \/ EntryFailed
  \/ (started # None => ~EntryAlive(started)) /\ lock = Free

Notice ==
  /\ interrupted = None /\ Busy /\ Abandoned
  /\ interrupted' = status.job
  /\ UNCHANGED <<dispatchFiles, entry, runner, request, started, kills>>

\* The status is replaced, whatever it has become meanwhile.
DeclareFailed ==
  /\ interrupted # None
  /\ status' = Says(interrupted, "failed") /\ interrupted' = None
  /\ UNCHANGED <<lock, dispatch, shaken, entry, runner, request, started, kills>>

\* The worker stops the service and starts it again; a user may, too.
RestartService ==
  /\ serviceMemory # <<None, None, None>>
  /\ request' = None /\ started' = None /\ interrupted' = None
  /\ kills < MaxKills /\ kills' = kills + 1
  /\ UNCHANGED <<dispatchFiles, entry, runner>>

-----------------------------------------------------------------------------
(* A process is killed, or its window is closed.                           *)

KillEntry(j) ==
  /\ EntryAlive(j) /\ kills < MaxKills /\ kills' = kills + 1
  /\ entry' = [entry EXCEPT ![j] = "dead"] /\ lock' = Freed(Entry(j))
  /\ UNCHANGED <<status, dispatch, shaken, runner, serviceMemory>>

KillWorker(j) ==
  /\ WorkerAlive(j) /\ kills < MaxKills /\ kills' = kills + 1
  /\ runner' = [runner EXCEPT ![j] = "dead"] /\ lock' = Freed(Runner(j))
  /\ UNCHANGED <<status, dispatch, shaken, entry, serviceMemory>>

-----------------------------------------------------------------------------
EntryStep(j) ==
  \/ EntryRefused(j) \/ EntryLock(j) \/ EntryIdle(j) \/ EntryBegin(j) \/ EntryChecked(j)
  \/ EntrySpawn(j) \/ EntryDispatch(j) \/ EntryRelease(j) \/ EntryDone(j)
  \/ EntryGiveUp(j) \/ EntryFail(j)

WorkerStep(j) ==
  \/ WorkerReady(j) \/ WorkerLock(j) \/ WorkerQuit(j) \/ WorkerTake(j) \/ WorkerRefuse(j)
  \/ WorkerAck(j) \/ WorkerRun(j) \/ WorkerReport(j) \/ WorkerEnd(j)

DispatchNext ==
  \/ \E j \in JobIds :
       StartEntry(j) \/ EntryStep(j) \/ WorkerStep(j) \/ Accept(j) \/ Reserve(j)
         \/ KillEntry(j) \/ KillWorker(j)
  \/ Notice \/ DeclareFailed \/ RestartService

\* Processes go on, their waits have deadlines, and while anybody uses the service it
\* looks at the status, with every save and every view of the page.
Fairness ==
  /\ \A j \in JobIds : WF_dispatchVars(EntryStep(j)) /\ WF_dispatchVars(WorkerStep(j))
  /\ WF_dispatchVars(Notice) /\ WF_dispatchVars(DeclareFailed)

DispatchSpec == DispatchInit /\ [][DispatchNext]_dispatchVars /\ Fairness

-----------------------------------------------------------------------------
(* Properties.                                                             *)

EntryStates ==
  {"idle", "started", "locked", "begun", "spawned", "dispatched", "released", "running", "failing",
   "done", "failed", "dead"}
WorkerStates ==
  {"none", "started", "locking", "locked", "taken", "waiting", "running", "ending", "dead"}
Phases == {"idle", "starting", "checking", "installing", "success", "failed"}
MaybeJobs == JobIds \cup {None}

\* Files and processes are in states that main.go and updates.py know.
DispatchTypeOK ==
  /\ lock \in {Free} \cup {Entry(j) : j \in JobIds} \cup {Runner(j) : j \in JobIds}
  /\ status \in [job : MaybeJobs, phase : Phases] /\ dispatch \in MaybeJobs
  /\ shaken \in [JobIds -> SUBSET {"ready", "ack"}]
  /\ entry \in [JobIds -> EntryStates] /\ runner \in [JobIds -> WorkerStates]
  /\ request \in MaybeJobs /\ started \in MaybeJobs /\ interrupted \in MaybeJobs
  /\ kills \in Nat

\* Who installs, or checks, holds the lock, is alone, and is the one that dispatch.json
\* names, which keeps others out: entries that end between the start of a worker and the
\* record, and workers that come late included.
RunnerIsDispatched ==
  /\ \A j \in JobIds : runner[j] \in {"taken", "waiting", "running"} => lock = Runner(j) /\ dispatch = j
  /\ \A j \in JobIds : entry[j] = "running" => lock = Entry(j)

\* An entry that says it failed leaves nobody behind who would install all the same,
\* although the worker may take over at the very moment the entry gives up waiting.
RefusedNeverRuns ==
  \A j \in JobIds : entry[j] \in {"failing", "failed"} => ~WorkerAlive(j)

\* A job does not stay at work for ever in what the page shows, whoever was killed.
EveryJobIsReported ==
  \A j \in JobIds : (Busy /\ status.job = j) ~> ~(Busy /\ status.job = j)
=============================================================================
