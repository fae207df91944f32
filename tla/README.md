# Formal verification of SunYu ERP

This directory specifies SunYu ERP (v1.2.12) in TLA+. TLC model-checks small instances of each specification, TLAPS
proves its safety for every value of the constants. Paths are relative to the repository; `features/` is
`backend/app/features/`, `updater/` the Go updater.

Contents: [1 the system](#1-the-system) · [2 the modules](#2-the-modules) · [3 the runs](#3-the-runs) ·
[4 fairness](#4-fairness) · [5 the proofs](#5-the-proofs) · [6 what disagrees](#6-where-code-and-documentation-disagree) ·
[7 what is not modelled](#7-what-is-not-modelled) · [8 plan](#8-plan)

## 1. The system

SunYu ERP runs on one Windows machine: a Python service (FastAPI, one SQLite database and a tree of stored files,
together called DATA), a web front end, and a separate Go updater that replaces the program. Several users work at
once. Every request is handled in a thread of its own; a handler that writes does so in one immediate transaction, so
that SQLite's write lock orders the handlers of one kind. What is hard lies around that lock: files that the
transaction does not cover, backups that copy both, an updater that replaces the program under it, clients that repeat
requests, and long sequences of requests that one handler after another accepts.

| Part | State it keeps | Operations | What is hard | What makes it correct |
|---|---|---|---|---|
| Update transaction (`updater/transaction.go`, `engine.go`, `process.go`, `storage.go`) | `transaction.json`, `install.json` (the barrier), `status.json`, snapshots, program files, `config.json`, DATA | install, commit, rollback, restore, resume, recover, clean up | a death between any two file operations; each may fail; the program may be started at any time | no acknowledged write is lost; an update looks like one atomic step; the barrier goes down again |
| Write gate (`features/updates.py`, `main.py`) | writes under way, the updater's job | admit a write, start an update, read the state | a write admitted before the barrier | nothing is admitted while DATA or program are in pieces |
| Update dispatch (`updater/main.go`, `features/updates.py`) | `updater.lock`, `dispatch.json`, `status.json`, `ready.json`, `ack.json`; in the service the job it started | start by hand or from the page, hand over to a worker, take, give up, report, notice a failure | both sides have deadlines, two entries at once, anybody may be killed at any time | who installs holds the lock and is the one dispatched; a failed entry leaves nobody; no job stays at work for ever |
| Document storage (`features/documents.py`, `business_attachments.py`, `files.py`) | tables of documents, versions and answered requests; `Data/Temp`, `Data/Projects` | create, batch, new version, edit, archive, clean up, reconcile | files outside the transaction; retries; reuse of ids after a rollback | a committed version has its file; a retry gets the first answer |
| Version numbers (`features/files.py`) | names in a directory, reservations | store, complete, fail, delete | no lock, a listing that is not atomic, stale reservations | no number twice; newer than what was there; nobody waits |
| Backups (`features/backups.py`, `system.py`) | `backup_runs`, `backup_tasks`, published and staged backups, live tasks | ask, run, record, prune, report, recover | every step may fail; clocks; restarts | a success has a backup; two that verify stay; tasks end |
| Purchasing and stock (`features/procurement*.py`, `inventory.py`, `purchase_order_tax.py`) | orders, lines, receipts, issues, adjustments, payments, invoices, items | create, change, confirm, cancel, post, reverse | rounding; reversals in any order; stale pages | stock is its ledger; limits hold |
| Completion of projects (`features/projects.py`, `project_stages.py`, `commercial.py`, `delivery.py`) | projects, stages, contracts shared by projects, receipts, acceptances, warranties | close, restore, and all that moves those | the check reads what five groups of handlers write | what a project was closed on stays |
| Workforce (`features/workforce.py`) | workers, assignments of a worker to a project over days, labor entries with the pay they were recorded at | assign, change, transition; record, correct, void, save a page of a day | entries are voided and entered again under assignments that change their worker; pages overwrite what they find | one entry in force a worker, project and day; chains of corrections do not fork; pay stays |
| Site operations (`features/site_operations.py`) | daily reports and their versions; advances with items and repayments | write, confirm, reopen; record, change, repay, reverse, void | repayments name no revision; reports from before versions were kept | no more is repaid than was advanced; a confirmed report is its latest version |
| Other delivery records (`features/delivery.py`) | sign-offs, commissioning, changes, project invoices, the warranty's term, after-sales cases | put, create, change, transition, void | no index makes invoice numbers unique; the warranty changes under cases | numbers are unique over all projects; what was settled stays |
| Quotes; companies; procurement lists | rows with a status and a revision | create, edit, transition, void | sequences of legal calls; retries | each record obeys its status machine |
| Login (`features/auth.py`) | failures and attempts under way for each host | start, fail, succeed, cancel | attempts under way together | no more than five failures in a window |
| Migrations, configuration, start-up (`core/`, `main.py`) | schema ledger, `config.json` | migrate, load, start, stop | interruption | a migration happens once, wholly |
| Front end (`frontend/`) | pages, pending writes | requests | a lost answer | an uncertain write is repeated under its key |
| Release scripts | – | – | run by hand | – |

How they meet: the updater stops and starts the service and shares with it only files (`install.json`, `status.json`,
`service.lock`); the gate reads those files before every write. Document storage is called by every router that takes
attachments, inside their transactions. A backup copies the database first and the files after it, under no lock that
uploads take. The completion check calls the stage, commercial and delivery read models within the transaction that
closes a project. Idempotent routes look up and store their answer in the transaction that does the work.

## 2. The modules

Names are those of the source where there is one. An operator marked *Mutation* is a plausible mistake in the code; no
specification uses it, it serves to show that a property would notice.

### UpdateTransaction, AtomicUpgrade, UpdaterProofs

`pc` names the next durable effect of the worker. `tx`, `install`, `active`, `files`, `data` and `backup` are what is on
disk, `svc` and `inflight` the running program and the requests its gate admitted; `mem` and `todo` are lost with the
worker. Each step of `install()`, `commit()`, `rollback()`, `restore()`, `resumeUnchanged()` and `recoverPending()` that
changes a file is an action, and `ErrorExit` says where its failure leads. A file is abstracted to the version it belongs
to, DATA to its schema version, the writes it holds and whether it is whole. `AtomicUpgrade` is what an owner expects:
one version serves, an upgrade or its undoing is one step taken while nothing is served, and acknowledged writes stay.
`Refines` maps the transaction to it.

### DocumentStore, VersionHistory, StoredFilesProofs

A request passes through the states `new`, staged, holding the write lock, published, committed or failed; `tables` is
what is committed, `pending` what the open transaction sees, `tree` and `temp` the directory entries, each naming the
staged upload it links to (the inode). A failed request removes its files after it has released the lock, as the code
does. Crash, start-up (cleaning `Temp`) and reconciliation of a directory are actions, and a backup copies database and
files in two steps. `VersionHistory` is the archive the uploader sees: histories of documents that grow by whole requests
and never change; `Refines` maps what can be downloaded to it.

### UpdateDispatch, UpdaterProofs

Before UpdateTransaction's worker there is the way to it. `entry[j]` and `runner[j]` say how far `bootstrap` and
`runWorker` have come with job `j`; `lock`, `status`, `dispatch` and `shaken` are the files they share with each other
and with the service, whose request thread (`request`, `started`) and whose `state()` (`interrupted`) read, wait and
write in steps of their own. A deadline is a choice that is open as long as the wait lasts. Killing entry, worker or
service is an action, and the lock goes with its process, as the operating system sees to.

### FileVersions, StoredFilesProofs

The body of `_publish_in_bound_directory`, a call a process (its specification is `NumberingSpec`): list, try to reserve
the next number by a hard link, list again under the reservation, link the target, complete, with the error paths. A
listing is taken in two parts, `seen` at its beginning and the directory at its end, and returns anything between the
two.

### Backups, BackupsProofs

A job (a task with its thread, or a direct call or the scheduler) takes `_BACKUP_LOCK`, inserts its run, stages,
publishes by rename, records, prunes and reports; every database and file operation may fail before or after it took
effect. `live` and `unrecorded` are the dictionaries in memory, `Restart` is the recovery at start-up. Times come from
any clock, standing still and going back included.

### Purchasing, PurchasingProofs

Orders with their lines, the stock in quantity and value, and `facts`: every receipt, issue, adjustment, payment and
invoice as it was posted, with the value it was posted at, and whether it is in force. `seen` is the order as the page of
the user who will confirm it shows it. Costs are rounded as `_round_ratio` does, with `Scale` for the 1000 of the code.
What the code adds up with `SUM(...)` is a sum over the facts in force; what a request and a row may hold is what the
`CHECK` constraints of migration 008 admit (`StockAssumption`, `FormsAssumption`).

### ProjectCompletion, ProjectCompletionProofs

Projects with their stages, contracts with the shares of their projects, payment terms, receipts, acceptances and
warranties; the history variable `drafts` remembers which shared contracts were not signed when a project was closed.
`Ready` is `_project_completion_check`. One action stands for each handler that writes any of what it reads.

### Workforce, WorkforceProofs

`assignment` and `labor` are the tables, an entry is a record with the project, worker and pay it was saved with. Each
handler is an action: `CreateLabor`, `UpdateLabor`, `VoidLabor` and `SaveBatch`, which saves a page of one day, overwrites
what the assignment has there, replaces what was voided and adds the rest in the order of the page (any order, to the
model). The unique indexes of migration 021 are no guards: `OneEntryInForce` says that no handler runs into them.

### ProjectRows, SiteOperations, DeliveryRecords, ProjectRecords, ProjectRecordsProofs

Records of eight kinds are rows of one sequence, `rows`, each with the columns of its table. `ProjectRows` is what the
handlers share (`_require_active_project_row`, `_validate_documents`): a row is added or saved while its project is
active and may name no archived document. `SiteOperations` has the reports and advances, `DeliveryRecords` the rest,
`ProjectRecords` puts them together over the same projects and documents.

### SumTheorems

No part of the program: lemmas about totals (`SumFunction` of the community modules) for the proofs about money and
goods, section 5.

## 3. The runs

Every run that passes explores its instance completely; document_cleanup_race shows a disagreement of section 6. The type
invariant of each module is proved (section 5), so no run checks it again.

| Run | Question | Bounds and why they are enough |
|---|---|---|
| update_safety | Are acknowledged writes kept, is the gate consistent, is the transaction atomic to its users? | Two installations over three versions: the second may meet what the first left. Two failing operations and a crash: a failure while recovering from one. Two writes: one may be lost while another is kept. The second installation has too many files to be read back. |
| update_ends | Does a raised barrier go down again, is DATA replaced only while no program runs, and does a rollback put back the programs, the saved updater and the schema? (`config.json` and the writes are not compared here.) | One write and two versions, a failure and two crashes: each round of recovery may be cut short once more than it fails. Nobody starts the program by hand. |
| document_store | Do committed versions keep their file while anything fails, does an archive only grow, are edits lost, is a backup complete? | Three requests of any kind: one that fails, one that takes its place and one that meets both. Two versions and two documents, a failing publication and a crash. No transaction fails after publishing (`MaxLate = 0`), section 6. |
| document_retries | Is a repeated request answered with the first answer, and what do failed requests leave behind? | Three uploads, batches of two files among them, over two keys and two contents: a repetition, the reuse of a key, and another in between; one publication fails, the second of a batch too (`MaxEarly`), one transaction or batch after publishing (`MaxLate`), one crash. |
| document_cleanup_race | Section 6. | |
| file_versions | Is no number given twice, is a new version newer, does every call end? | Two calls over two earlier versions and two stale reservations. For any number of calls the two safety properties are proved. |
| backups | Section 1, backups. | Two jobs over two older backups, three times, retention 0 (pruning as hard as it can be), two failing operations, a crash and one damaged backup. |
| purchasing | Does stock equal its ledger, do limits hold, is what is confirmed what was seen? | Two orders, two lines, two items and three facts with their reversals: rounding needs several receipts of a line, an average cost an issue between two of them. Two taxed lines: four for two, whose batches round up until the third finds nothing left, and three for four, whose batches round down and the last takes the rest, with room to reverse and repeat one. A change of an order by somebody else. |
| project_completion | Does a completed project stay what it was closed as, is no more received than a share? | Two projects, of each category one, and a contract that may be shared and may change its shares; two receipts and two acceptances on two days, so that a void or a later acceptance has something to undo. Stages begin as `in_progress`: from there every status is reached. |
| workforce | Section 1, workforce. | Two assignments that may be of one worker or of two, two days, three entries: an entry, its replacement and one more that could fork the chain or take the slot. No request of the instance makes an assignment active, since planned and active ones behave alike, or cancels one: a cancelled one does what a completed one of which nothing more is recorded does. |
| project_records | Section 1, site operations and other delivery records. | Two rows of any kinds, for the properties relate at most two, in two projects, one of them archived at times; a document that is archived; three versions and repayments, of which one is reversed. It starts without rows or with a report as migration 021 leaves it. |
| update_dispatch | Does only the one dispatched install, does a failed entry leave anybody, is every job reported? | Two installations and a check, each once, and one process killed or one restart (`MaxKills = 1`); with two kills the run passes too, in twice the time. For any number the two invariants are proved. |

The properties are stated at the end of each module. The ones to read first are `NoAckedWriteLost`, `Refines` (both),
`CommittedFilesIntact`, `RetryIsAnswered`, `FailedLeaveNothing`, `UniqueVersions`, `TwoNewestKept`, `BalanceIsLedger`, `ReceiptsWorthTheLine`,
`CompletedStaysDone`, `CompletedStaysPaid`, `RunnerIsDispatched`, `EveryJobIsReported`, `ReplacedOnce` and `NumbersUnique`.

Symmetry is used for writes, requests and orders, which only appear as identities, and never with liveness.

## 4. Fairness

- `UpdateTransaction!FairSpec` is weakly fair to the worker: the operating system runs it, and after a death or an error
  somebody runs `update.exe` again, which the program's messages ask for. Nothing is assumed of users or of the program
  being started by hand. `MaintenanceEnds` is checked with files that can be read back and without circumstances
  (`Oversized = {}`, `Mishaps = {}`): section 6 says why the first is needed, and where DATA was missing and the new
  program created it, the code itself asks for a restoration by hand.
- `FileVersions!FairSpec`: threads run.
- `Backups!FairSpec`: threads run, a service that stopped is started again, and the page that shows a running task asks
  for it again. Without the last nothing ends a task whose thread is gone.

- `UpdateDispatch!Fairness`: entries and workers that are alive go on, and each of their waits has a deadline in the code,
  so weak fairness of their steps, giving up among them, is what the operating system gives. `Notice` is weakly fair
  because the page asks for the state every few seconds, and every write through the gate does; `DeclareFailed` is the
  rest of that call. Nobody is assumed to start a job, to restart the service or to kill a process.

The business modules (Purchasing, ProjectCompletion, Workforce, ProjectRecords) and DocumentStore state no liveness: a
client decides what comes next.

## 5. The proofs

What is proved holds for every value of the constants under the named assumptions of the modules, none of which bounds
the number of actors. All are invariance arguments: `Init => IInv`, `IInv /\ [Next]_vars => IInv'`, `IInv => Inv`; an
action property follows from the step under the same invariant.

- **UpdateTransaction** (`TypeCorrect`, `NothingLost`, `ReplacementBarred`, `CommitFinal`, `GateSound`, `RollbackRestores`,
  `ImplementsUpgrade`). `NoAckedWriteLost` is not
  inductive: when a state is published it needs what the worker did before. `IInv` adds `AtStep` (which state may be on
  disk at each step of the worker), `Barred` (behind the barrier no write is admitted or left), `Sound` (where DATA
  itself, not only the snapshot, holds everything) and `Empty` (where DATA does not exist there is nothing to lose).
  `VInv` adds `AtVersion`, `AtUpdater` and `AtSchema` (the version of the programs, of the saved updater and of DATA by the
  state on disk and the step of the worker) and `AtLedger` (upgrades go up; DATA and snapshot agree when one takes over
  from the other). From it the gate is consistent, and the refinement of `AtomicUpgrade` is short: what the installation
  is and holds changes in two kinds of step only, a write that commits and the one that saves `verified` (`LevelSteps`).
  Assumption: `"unreadable" \notin Mishaps`; with it the theorems are false (section 6, the snapshot of a pending
  rollback). `RollbackRestores` also assumes `"by_hand" \notin Mishaps` (section 6, a program started by hand);
  `ReplacedBehindBarrier` says that no program runs while DATA is replaced only without it, for a program that is started
  by hand meanwhile makes its replacement fail half way.
- **FileVersions** (`NumbersUnique`, `NumbersGrow`, `TypeCorrect`), for any number of calls. `IInv` says who holds which
  reservation (`Held`, `OneEach`), that a published target is its call's own (`OwnTarget`), that what a call has seen is
  a part of what was there (`Seen`, `Past`), and that above a relisted number nothing is (`Free`, `Found`, `Newer`).
- **DocumentStore**, for any requests, documents, faults and crashes, in two layers.
  `SInv` holds whatever fails: who has the write lock (`Locking`), what the open transaction has added for its kind of
  request (`Transaction`, `Drafted`), and that a path names one row (`RowsPlaced`). `StoreTyped`, `EditsSeen`,
  `RepeatedAnswered` and `StagedLive` follow from it. So does `FailuresLeaveNothing`, with `LInv`: a request with an open
  transaction knows its links (`LinksKnown`), a failed one is not closed while it lists one (`AllTakenBack`), and only a
  publication that fails adds to what nobody lists, one link (`FewStray`).
  `FInv` holds until a transaction fails with its files published (`NoneLate`); afterwards it is false, as
  document_cleanup_race shows. Then nobody is removing a published file (`NothingTaken`), the rows that are committed and
  those of the open transaction have their files (`Stored`), and what a backup knows is still to be copied or was
  (`CopyBooks`), because rows are only added. `FilesIntact` and `BackupsComplete` state their invariants for as long as
  `NoneLate`, which allows every other failure.
  The refinement of `VersionHistory`: under `FInv` the archive is what the rows record (`ArchiveIsRecorded`), so only
  `Commit` moves it (`TablesByCommit`), and by one whole request (`CommitRecords`). `GrowsUntilLate` says so of every
  step while `NoneLate`, `StoresHistory` of the whole history where `MaxLate = 0`.
- **SumTheorems** makes it possible to reason about totals: how `SumFunction` changes when an amount is added, changed
  or voided, and what compares two totals. Induction is stated over sets, not over predicates (`NumberInduction`,
  `FiniteSetInduction`), so no lemma has an operator for a parameter: each use names the set of the subsets for which
  its claim holds.
- **Purchasing**, for any orders, lines, items and facts. `IInv` is the shape of orders and facts, that a page shows the
  present or an earlier revision (`SeenIsPast`), and `CancelledIsBare`; `OutOfForceIsBare` and `ConfirmsTheSeen` follow.
  Over it lies `Books`: the stock is what the facts in force add up to (`StockBooks`), an order says what they received
  and is worth, up to its gross value and exactly that when all is there (`OrderBooks`), and no more is issued than
  required (`IssueLimit`). `StockIsItsLedger`, `OrdersTellReceipts`, `ReceiptsAddUp` and `WithinLimits` follow. The
  lemmas say what a posting and a reversal do to any total (`RecordPosts`, `ReversalPosts`), what the rounded shares of a
  receipt leave for the next (`ReceiptValueFits`) and, line by line, what an issue takes out of a stock that its own
  earlier lines have changed (`PostLineKeeps`, `PostingKeeps`). Assumptions: the columns' `CHECK` constraints, an
  opening balance without value where there is no quantity, and finitely many lines.
- **ProjectCompletion**, for any projects, stages, contracts, receipts and acceptances. `IInv` is what the check reads of
  projects and contracts, with `CompletedStaysDone` and `InForceAddsUp` (`StaysDone`, `SharesAddUp`: the shares of a contract in
  force add up to it, checked at signing and locked afterwards); the lemma
  `ReadinessKept` says that the latest final acceptance of a project is not changed by acceptances of others. `MInv` adds
  the payments: `CompletedStaysPaid` is not inductive, since a contract that comes into force later, or an edit of one
  that was paid, could undo it. `ReceiptsSettled` says that what was received is of contracts that can no longer be
  edited, `DraftsKnown` that what can still be signed for a completed project was a draft when it was closed. From these
  `StaysPaid` and `WithinShare`; `CompletionTyped` adds the columns neither reads.
- **UpdateDispatch** (`DispatchTyped`, `RunnersDispatched`, `RefusedLeaveNobody`), for any jobs and kills. The invariant
  adds who holds the lock at each step (`Holding`), that a worker is never older than its entry's decision to start one
  (`InOrder`), and that `dispatch.json` names whoever took over (`Taken`), which is where the lock matters: the record is
  written and removed only under it.
- **Backups** (`TypeCorrect`, `BackedUp`, `NewestKept`), for any jobs, clock, retention, faults, crashes and damage.
  `IInv` says who holds the lock (`Locked`), which step a recorded success can be at and which steps rely on one
  (`Recorded`), that a job that has published and not settled its record has its backup, which no other job can prune
  meanwhile (`Published`), and that who is told, now or by a later question, has a job that ended as a success (`Told`).
  `NewestKept` needs that the backups are always finitely many (`FiniteStep`; the old ones are by assumption): then the
  newest two exist (`NewestExists`), and pruning, which spares what fewer than two newer ones follow, leaves two newer
  than whatever it takes (`TwoStay`).
- **Workforce** (`RowsTyped`, `EntriesDistinct`, `ChainsDoNotFork`, `WagesKept`), for any assignments, pages and days. The
  properties are inductive together: `Grown` says so of any entries that fit the slots (`Fits`), `EntryFits` that what
  the handlers add does, because `Replaced` is the last voided entry of the slot (`ReplacedIsLast`), and `Paged` that a
  page adds entries of different workers. What replaces an entry is entered at its pay (`AddedKeepPay`), whose own pay no
  step changes, for it is void.
- **ProjectRecords** (`ColumnsKept`, `InvoiceNumbersUnique`, `ReportsVersioned`, `RepaidWithin`, `RecordsSettled`), for
  any requests. Each action is shown to add or to save a row of which enough is known (`NewRow`, `SavedRow`), and the
  invariant to survive any such step. `Numbered` bounds the numbers of changes by the rows, so that there is a greatest
  one; `Honest` says of an advance that its repayments in force are within its total, whatever its total was before;
  `Judged` of a case that a step either leaves its coverage or judges it by the term of that moment.

Only model-checked: liveness (`MaintenanceEnds`, `EveryCallEnds`, `TaskEnds`, `SuccessIsTold`, `EveryJobIsReported`),
which TLAPS does not reach. Every other property of a passing run is a theorem.

## 6. Where code and documentation disagree

**A failed upload deletes another's file** (document_cleanup_race). The file is removed after the write lock is released;
`delete_stored_version` (`features/files.py:455`) checks path, size and hash, which the other upload of the same content
shares.

Observed while modelling, without a run of their own. Of the update:

- **A program started by hand during a rollback.** `restore()` puts DATA back before the program file
  (`updater/transaction.go:424`). The new program, started in between, migrates restored DATA; the transaction is then
  saved as rolled back, "a durable boundary" (`:455`), and the old program refuses the newer schema.
- **Recovery of a large installation.** `transaction.json` lists every file of DATA without a limit, `readJSON` refuses
  more than 8 MiB (`updater/storage.go:23`): no rerun of `update.exe` can recover, which is what the message of an
  interrupted job asks for (`features/updates.py:168`).
- **The snapshot of a pending rollback is deleted.** `update.exe --check` takes a transaction it cannot read for none and
  cleans up every snapshot (`updater/engine.go:176`), while the recovery that finds it unreadable asks to keep them
  (`updater/transaction.go:480`).
- **A status that is overwritten.** An entry that gives up writes `failed` after it let go of the lock, and `state()`
  writes `failed` over what it read before (`features/updates.py:165`): either may replace the status of a job that began
  in between. That job's next report corrects it.
- **A worker that is not the one dispatched** ends without a word; until `state()` finds the job silent for 30 seconds
  the page shows it at work.

Of money and goods:

- **A completed project with an uncollected contract.** `transition_contract` (`features/commercial.py:783`) asks that
  the project of the request is active, not that the others are. A draft shared by A and B does not count when B is
  closed as completed; A may sign it afterwards. `docs/api-contract.md:197` requires that what is outstanding of
  contracts in force is zero. `CompletedStaysPaid` excepts exactly the contracts that were drafts at the closing.
- **A project barred from normal completion.** With a warranty no further final acceptance can pass
  (`features/delivery.py:1213`); if one is scheduled, fails or is cancelled at a later date, it is the latest and has not
  passed (`features/projects.py:789`), for good.
- **A locked contract shared with an archived project cannot be edited**, not even its notes: `_resolve_allocations`
  (`features/commercial.py:1692`) refuses every archived project of the shares.
- **A page overwrites a former worker's entry.** When the worker of an assignment has changed, a page that is saved for the
  new one finds the entry of the assignment's day and overwrites it (`features/workforce.py:875`, `_update_labor_entry`):
  work is then recorded of the former worker at the former pay, though `docs/api-contract.md:710` says "by person".
- **A replacement keeps the pay of what it replaces**, even under another assignment with another rate, while
  `docs/api-contract.md:719` computes at the rate of the assignment; the property `WagesStay` follows the code.
- **Overlapping assignments come back** with an archived project: `_require_assignment_schedule_available`
  (`features/workforce.py:1484`) counts assignments of active projects, and restoring a project does not look at them.
- **A record that refers to a document archived since** can only be changed by dropping the reference
  (`_validate_documents`); closed commissioning sessions may be reopened; a draft report from before migration 021 lost
  what it said when it was confirmed earlier.
- **A backup run left `running`** by a compensation that failed too bars updates (`features/updates.py:323`) until the
  service is restarted; nothing else ends it.

## 7. What is not modelled

Parts without a module are listed in PROJECT.json with the reason. Within the modules:

- UpdateTransaction: programs before 1.2.5, which have no gate; renames that a power failure undoes; directories named
  `.partial` and `work`, which nothing reads back; a migration that stops half way (DATA is then restored as a whole);
  the handshake of entry and worker, of which it takes that one worker runs at a time (UpdateDispatch shows it); the
  download.
- UpdateDispatch: what the worker installs; the texts of errors; process ids that are given out again, against which the
  code compares the start times; status files that cannot be read or written.
- Workforce: revisions and stored answers (any request may name the current one, a repetition changes nothing); names and
  notes; summaries, which only read; `MaxLabor` bounds the entries of an instance.
- SiteOperations, DeliveryRecords: the passed final acceptance that a first warranty needs (`ACCEPTANCE_REQUIRED`; the
  model allows more); the fields of an invoice that are not formal, which stay editable; revisions and stored answers; attachments published with a record, which are
  DocumentStore's; the immutable events beside changes, invoices and cases; that the worker of an advance is assigned
  on the day; acceptances, which are in ProjectCompletion. `MaxRows`, `MaxVersions` and `MaxRepayments` are bounds.
- DocumentStore: dates and categories in managed names (two uploads of one title may always meet); the link under which a
  version number is reserved, since publication holds the write lock; the archived status of projects. A directory is
  reconciled in one step.
- FileVersions: the text of names; that a target exists under a fresh reservation, which the second listing excludes.
- Backups: when the scheduler finds a backup due and its delay after a failure; settings; the overview.
- Purchasing: how a tax comes about: a line's gross value is its net and any tax of the form, the branch that takes the
  gross unit cost instead (`purchase_order_tax.py:23-27`) among them, but not a gross below the rounded net; procurement
  lists before they are confirmed; renaming items, which shows only in the item that a receipt
  chooses; repeated requests, which change nothing; SQLite's 64-bit limits; archived projects.
- ProjectCompletion: quotes, notes, dates and documents; milestones, which the check adds up; the creating branch of
  `put_warranty`, which with an accepted project only data from before can reach; acceptances of the projects outside
  `Inspected`, a bound of the instance.

## 8. Plan

Done: UpdateTransaction, DocumentStore, FileVersions, Backups, Purchasing, ProjectCompletion, Workforce, the records of
site and delivery, UpdateDispatch: the loss of data by an update is the worst that can happen and a lost document the
next; then money and goods; then what people record every day.

Next, each with its instance and a mutant for every property:

1. **LoginLimiter**: attempts under way, the window, successes that clear (`features/auth.py:68`).
2. **Quotes and procurement lists**: what precedes Purchasing and the contracts of ProjectCompletion.
3. **Idempotency** as a wrapper of any handler, of which the uploads are an instance.
4. **Migrations** with interrupted starts, composed with the restoration of DATA.
5. The scheduler of **Backups**: its delay after a failure, counted from a clock that may go back.

Proofs: every invariant and action property of a passing run and both refinements are proved. For the modules to come,
the limiter's bound and the single execution of an idempotent request; for those at hand, that the bounds of section 3
could be dropped from the modules where a proof does not need them.
