--------------------------- MODULE UpdaterProofs ---------------------------
(***************************************************************************)
(* Theorems about UpdateTransaction, for every value of its constants, and *)
(* at the end about UpdateDispatch.                                        *)
(*                                                                         *)
(* NoAckedWriteLost is not inductive: at the step that publishes a state   *)
(* it needs to know what the worker established before.  AtStep says, for  *)
(* every step of the worker, which state the transaction on disk may have; *)
(* Sound says where DATA, and not only the snapshot, holds every           *)
(* acknowledged write.  VInv adds which version the files, DATA and the    *)
(* snapshot have, from which the gate's consistency and the refinement of  *)
(* AtomicUpgrade follow.                                                   *)
(***************************************************************************)
EXTENDS UpdateTransaction, UpdateDispatch, TLAPS

PreparingSteps == {"barrier", "stop", "undo_barrier", "undo_save", "backup",
                   "backup_save", "resume_save"}
IdleSteps == {"ready", "save_preparing"}
RestorableSteps == {"save_replacing", "copy_exe", "copy_upd", "save_starting",
                    "start", "check_config", "save_verified", "rb_stop",
                    "rb_mark", "rb_wipe", "rb_copy", "rb_files", "rb_done"}
CommitSteps == {"commit_barrier", "commit_save", "commit_report"}
ResumeSteps == {"resume_start", "resume_barrier"}

\* Steps at which the transaction in memory is the one on disk.
OwnSteps == PreparingSteps \cup RestorableSteps \cup CommitSteps \cup ResumeSteps

\* The state on disk that each step of the worker relies on.
AtStep ==
  /\ pc \in PreparingSteps => tx.state = "preparing"
  /\ pc \in IdleSteps => tx.state \in {"none", "complete", "rolled_back"}
  /\ pc \in RestorableSteps => tx.state \in Restorable
  /\ pc \in CommitSteps => tx.state \in Committed
  /\ pc \in ResumeSteps => tx.state = "rolled_back"
  /\ pc \in OwnSteps => mem.job = tx.job
  /\ pc = "save_preparing" => mem.job # tx.job
  /\ pc \in OwnSteps \cup {"save_preparing"} => mem.new # 0
  /\ tx.state # "none" => tx.new # 0

\* Behind the barrier no write is admitted and none is left.
Barred ==
  /\ tx.state \in Restorable => install = "installing" /\ inflight = {}
  /\ pc \in {"backup", "backup_save"} => install = "installing" /\ inflight = {}
  /\ pc = "stop" => install = "installing"
  /\ inflight # {} => svc # 0

\* DATA itself holds what was acknowledged.
Sound ==
  /\ pc \in {"save_replacing", "copy_exe", "copy_upd", "save_starting", "start",
             "check_config", "save_verified", "rb_files", "rb_done"}
       => data.whole /\ acked \subseteq data.writes
  /\ pc = "backup_save" => Snap.done /\ acked \subseteq Snap.writes

\* Where DATA does not exist there is nothing to lose.
Empty ==
  /\ files.exe # 0
  /\ svc # 0 => data.schema # 0
  /\ data.whole /\ data.schema = 0 => data.writes = {}
  /\ \A j \in Jobs : backup[j].schema = 0 => backup[j].writes = {}
  /\ \A j \in Jobs : backup[j].done => backup[j].files["exe"] # 0
  /\ tx.state \in Restorable /\ backup[tx.job].schema = 0 => data.whole
  /\ pc \in {"rb_wipe", "rb_copy"} => Snap.schema # 0

IInv ==
  /\ TypeOK
  /\ NoAckedWriteLost
  /\ AtStep
  /\ Barred
  /\ Sound
  /\ Empty

-----------------------------------------------------------------------------
(* Types.                                                                  *)

LEMMA StepNames ==
  /\ ToFailing \subseteq Steps /\ ToResume \subseteq Steps
  /\ ToRollback \subseteq Steps
  /\ "off" \in Steps /\ "failing" \in Steps /\ "undo_barrier" \in Steps
  /\ \A p \in Steps : ErrorExit(p) \in Steps
BY DEF Steps, ToFailing, ToResume, ToRollback, ErrorExit

LEMMA TypeInit == Init => TypeOK
<1> USE VersionAssumption, BoundAssumption
<1> SUFFICES ASSUME Init PROVE TypeOK
  OBVIOUS
<1>1. PICK v \in Versions :
        /\ files \in {[exe |-> v, upd |-> u, cfg |-> 0] : u \in {0, v}}
        /\ data \in {[whole |-> TRUE, schema |-> s, writes |-> {}] :
                       s \in IF "fresh" \in Mishaps THEN {0, v} ELSE {v}}
  BY DEF Init
<1>2. files \in Files
  BY <1>1 DEF Files, FileNames, Versions
<1>3. data \in [whole : BOOLEAN, schema : 0..MaxVersion, writes : SUBSET Writes]
  <2>1. PICK s \in {0, v} : data = [whole |-> TRUE, schema |-> s, writes |-> {}]
    BY <1>1
  <2>2. s \in 0..MaxVersion
    BY <1>1 DEF Versions
  <2> QED
    BY <2>1, <2>2
<1>4. backup \in [Jobs -> [done : BOOLEAN, schema : 0..MaxVersion,
                          writes : SUBSET Writes, files : Files]]
  BY DEF Init, NoBackup, Files
<1>5. /\ tx \in [job : Jobs, state : States, old : 0..MaxVersion, new : 0..MaxVersion]
      /\ mem \in [job : Jobs, old : 0..MaxVersion, new : 0..MaxVersion]
  BY DEF Init, NoTx, Jobs, States
<1>6. /\ svc \in 0..MaxVersion /\ pc \in Steps
      /\ faults \in 0..MaxFaults /\ crashes \in 0..MaxCrashes
  BY StepNames DEF Init
<1> QED
  BY <1>2, <1>3, <1>4, <1>5, <1>6 DEF Init, TypeOK

LEMMA TypeNext == TypeOK /\ [Next]_vars => TypeOK'
<1> USE VersionAssumption, BoundAssumption, StepNames DEF TypeOK
<1> SUFFICES ASSUME TypeOK, [Next]_vars PROVE TypeOK'
  OBVIOUS
<1>0. CASE UNCHANGED vars
  BY <1>0 DEF vars, disk, service, worker, budget
<1>1. ASSUME Boot PROVE /\ svc' \in 0..MaxVersion
                        /\ data' \in [whole : BOOLEAN, schema : 0..MaxVersion, writes : SUBSET Writes]
                        /\ files' \in Files
  BY <1>1 DEF Boot, Files, FileNames
<1>2. CASE StartByHand
  BY <1>1, <1>2 DEF StartByHand, worker, budget
<1>3. CASE ProgramExits
  BY <1>3 DEF ProgramExits, disk, worker, budget
<1>4. ASSUME NEW w \in Writes, Admit(w) PROVE TypeOK'
  BY <1>4 DEF Admit, disk, worker, budget
<1>5. ASSUME NEW w \in Writes, CommitWrite(w) PROVE TypeOK'
  BY <1>5 DEF CommitWrite, worker, budget
<1>6. CASE StatusExpires
  BY <1>6 DEF StatusExpires, service, worker, budget
<1>7. CASE StepFails
  BY <1>7 DEF StepFails, Fault, disk, service
<1>8. CASE StopFails
  BY <1>8 DEF StopFails, Fault, disk
<1>9. CASE StartUnhealthy
  BY <1>9 DEF StartUnhealthy, Fault, Files, FileNames
<1>10. CASE Crash
  BY <1>10 DEF Crash, disk, NoTx, Jobs
<1>11. ASSUME NEW from \in Steps, NEW to \in Steps, NEW state \in States,
              SaveTx(from, state, to)
       PROVE  TypeOK'
  BY <1>11 DEF SaveTx, Saved, service, budget
<1>12. ASSUME NEW from \in Steps, NEW to \in Steps,
              NEW phase \in {"installing", "verified"}, Barrier(from, phase, to)
       PROVE  TypeOK'
  BY <1>12 DEF Barrier, service, budget
<1>13. ASSUME NEW from \in Steps, NEW to \in Steps, NEW expected,
              Start(from, expected, to)
       PROVE  TypeOK'
  BY <1>1, <1>13 DEF Start, budget
<1>14. ASSUME NEW from \in Steps, NEW expected, StartImpossible(from, expected)
       PROVE  TypeOK'
  BY <1>14 DEF StartImpossible, disk, service, budget
<1>15. ASSUME NEW from \in Steps, NEW to \in Steps, StopProgram(from, to)
       PROVE  TypeOK'
  BY <1>15 DEF StopProgram, disk, budget
<1>16. ASSUME NEW from \in Steps, NEW to \in Steps, NEW file \in FileNames,
              CopyNew(from, file, to)
       PROVE  TypeOK'
  BY <1>16 DEF CopyNew, Files, service, budget
<1>17. ASSUME NEW keep, Cleanup(keep)
       PROVE  backup' \in [Jobs -> [done : BOOLEAN, schema : 0..MaxVersion,
                                    writes : SUBSET Writes, files : Files]]
  <2>1. NoBackup \in [done : BOOLEAN, schema : 0..MaxVersion,
                      writes : SUBSET Writes, files : Files]
    BY DEF NoBackup, Files
  <2> QED
    BY <1>17, <2>1 DEF Cleanup
<1>18. CASE Launch
  BY <1>18 DEF Launch, service, budget, Steps, ToFailing
<1>19. CASE RecoverPending \/ RecoverUnreadable
  BY <1>19 DEF RecoverPending, RecoverUnreadable, RecoverStep, disk, service, budget,
               Steps, ToFailing
<1>20. CASE CheckOnly
  <2>1. Cleanup(tx.job) \/ Cleanup(0)
    BY <1>20 DEF CheckOnly
  <2>2. active' \in BOOLEAN /\ faults' \in 0..MaxFaults /\ crashes' = crashes
    <3>1. UNCHANGED budget \/ Fault
      BY <1>20 DEF CheckOnly
    <3>2. active' = FALSE
      BY <1>20 DEF CheckOnly
    <3>3. faults' \in 0..MaxFaults /\ crashes' = crashes
      BY <3>1 DEF Fault, budget
    <3> QED
      BY <3>2, <3>3
  <2>3. UNCHANGED <<tx, install, files, data, svc, inflight, acked, pc, mem, todo>>
    BY <1>20 DEF CheckOnly, service, worker
  <2>4. backup' \in [Jobs -> [done : BOOLEAN, schema : 0..MaxVersion,
                              writes : SUBSET Writes, files : Files]]
    BY <1>17, <2>1
  <2> QED
    BY <2>2, <2>3, <2>4
<1>21. CASE NothingToInstall
  BY <1>17, <1>21 DEF NothingToInstall, service, budget
<1>22. ASSUME NEW v \in Versions, Download(v) PROVE TypeOK'
  <2>1. mem' \in [job : Jobs, old : 0..MaxVersion, new : 0..MaxVersion]
    <3>1. tx.job + 1 \in Jobs
      BY <1>22 DEF Download, Jobs
    <3>2. files["exe"] \in 0..MaxVersion
      BY DEF Files, FileNames
    <3>3. v \in 0..MaxVersion
      BY DEF Versions
    <3> QED
      BY <1>22, <3>1, <3>2, <3>3 DEF Download
  <2> QED
    BY <1>17, <1>22, <2>1 DEF Download, service, budget, Steps, ToFailing
<1>23. CASE UndoBarrier
  BY <1>23 DEF UndoBarrier, Fault, service, budget, Steps, ToFailing
<1>24. CASE PublishBackup
  BY <1>24 DEF PublishBackup, service, budget, Steps, ToResume
<1>25. CASE CheckConfig
  BY <1>25 DEF CheckConfig, disk, service, budget, Steps, ToFailing
<1>26. CASE CommitReport
  <2>1. Cleanup(mem.job) /\ pc' = "off" /\ active' \in BOOLEAN
    BY <1>26 DEF CommitReport
  <2>2. UNCHANGED <<tx, install, files, data, service, mem, todo, budget>>
    BY <1>26 DEF CommitReport
  <2>3. backup' \in [Jobs -> [done : BOOLEAN, schema : 0..MaxVersion,
                              writes : SUBSET Writes, files : Files]]
    BY <1>17, <2>1
  <2> QED
    BY <2>1, <2>2, <2>3 DEF service, budget
<1>27. CASE ReportFailure
  <2>1. CASE active' = FALSE /\ UNCHANGED budget
    BY <1>27, <2>1 DEF ReportFailure, service, budget
  <2>2. CASE Fault /\ UNCHANGED active
    BY <1>27, <2>2 DEF ReportFailure, Fault, service
  <2> QED
    BY <1>27, <2>1, <2>2 DEF ReportFailure
<1>28. CASE RestoreByHand
  BY <1>28 DEF RestoreByHand, disk, service, budget
<1>29. CASE MarkRestoring
  BY <1>29 DEF MarkRestoring, Saved, service, budget, Steps, ToFailing, States, Restorable
<1>30. CASE WipeData
  BY <1>30 DEF WipeData, Fault, service, budget, Steps, ToFailing
<1>31. CASE CopyDataBack
  BY <1>31 DEF CopyDataBack, Snap, service, budget, Steps, ToFailing
<1>32. ASSUME NEW f \in FileNames, CopyFileBack(f) PROVE TypeOK'
  BY <1>32 DEF CopyFileBack, Snap, Files, service, budget, Steps, ToFailing
<1>33. CASE ReplaceRefused
  BY <1>33 DEF ReplaceRefused, service, budget
<1>34. CASE Saves
  BY <1>11, <1>34 DEF Saves, Steps, ToFailing, ToResume, ToRollback, States,
                      Restorable, Committed
<1>35. CASE Worker
  <2>1. {"stop", "backup", "rb_stop", "rb_mark", "barrier", "commit_barrier",
         "commit_save", "resume_barrier", "failing", "copy_exe", "copy_upd",
         "save_starting", "start", "resume_start", "check_config"} \subseteq Steps
    BY DEF Steps, ToFailing, ToResume, ToRollback
  <2>2. {"exe", "upd"} \subseteq FileNames
    BY DEF FileNames
  <2> QED
    BY <1>12, <1>13, <1>14, <1>15, <1>16, <1>18, <1>19, <1>21, <1>22, <1>23,
       <1>24, <1>25, <1>26, <1>27, <1>28, <1>29, <1>30, <1>31, <1>32, <1>33,
       <1>34, <1>35, <2>1, <2>2 DEF Worker
<1> QED
  BY <1>0, <1>2, <1>3, <1>4, <1>5, <1>6, <1>7, <1>8, <1>9, <1>10, <1>20, <1>35
     DEF Next, Failures, Program

\* Every variable keeps its type in every behaviour: no step of the worker, of
\* the program or of a failure takes a file outside what it can hold.
THEOREM TypeCorrect == Spec => []TypeOK
  BY TypeInit, TypeNext, PTL DEF Spec

-----------------------------------------------------------------------------
(* No acknowledged write is lost.                                          *)

LEMMA SafeInit == Init => IInv
<1> SUFFICES ASSUME Init PROVE IInv
  OBVIOUS
<1>1. TypeOK
  BY TypeInit
<1>2. PICK v \in Versions :
        /\ files \in {[exe |-> v, upd |-> u, cfg |-> 0] : u \in {0, v}}
        /\ data \in {[whole |-> TRUE, schema |-> s, writes |-> {}] :
                       s \in IF "fresh" \in Mishaps THEN {0, v} ELSE {v}}
  BY DEF Init
<1>3. data.whole /\ data.writes = {} /\ files.exe # 0
  BY <1>2, VersionAssumption DEF Versions
<1>4. \A j \in Jobs : backup[j].writes = {} /\ ~backup[j].done
  BY DEF Init, NoBackup
<1>5. Empty
  BY <1>3, <1>4 DEF Init, Empty, Restorable
<1>6. AtStep /\ Barred /\ Sound
  BY DEF Init, AtStep, Barred, Sound, PreparingSteps, IdleSteps, RestorableSteps,
         CommitSteps, ResumeSteps, OwnSteps, Restorable
<1> QED
  BY <1>1, <1>3, <1>5, <1>6
     DEF Init, IInv, NoAckedWriteLost, SnapshotKept, LogicalWrites, Restorable

LEMMA SafeNext ==
  ASSUME "unreadable" \notin Mishaps, IInv, [Next]_vars
  PROVE  IInv'
<1> USE VersionAssumption DEF IInv, NoAckedWriteLost, SnapshotKept, LogicalWrites,
      AtStep, Barred, Sound, Empty, Snap
<1> USE DEF PreparingSteps, IdleSteps, RestorableSteps, CommitSteps, ResumeSteps,
      OwnSteps, Restorable, Committed
<1>t. TypeOK /\ TypeOK'
  BY TypeNext
<1>0. CASE UNCHANGED vars
  BY <1>0, <1>t DEF vars, disk, service, worker, budget
<1>2. CASE StartByHand
  BY <1>t, <1>2 DEF StartByHand, Boot, TypeOK, worker, budget, Files, FileNames
<1>3. CASE ProgramExits
  BY <1>t, <1>3 DEF ProgramExits, disk, worker, budget
<1>4. ASSUME NEW w \in Writes, Admit(w) PROVE IInv'
  BY <1>t, <1>4 DEF Admit, GateOpen, disk, worker, budget
<1>5. ASSUME NEW w \in Writes, CommitWrite(w) PROVE IInv'
  BY <1>t, <1>5 DEF CommitWrite, TypeOK, worker, budget
<1>6. CASE StatusExpires
  BY <1>t, <1>6 DEF StatusExpires, service, worker, budget
<1>7. CASE StepFails
  <2>1. UNCHANGED <<tx, install, active, files, data, backup, svc, inflight, acked, mem>>
    BY <1>7 DEF StepFails, disk, service
  <2>2. CASE pc \in ToFailing
    <3>1. pc' = "failing"
      BY <1>7, <2>2 DEF StepFails, ErrorExit
    <3> QED
      BY <1>t, <2>1, <3>1
  <2>3. CASE pc \in ToResume
    <3>1. pc' = "resume_save" /\ tx.state = "preparing" /\ mem.job = tx.job /\ mem.new # 0
      BY <1>7, <1>t, <2>3 DEF StepFails, ErrorExit, ToFailing, ToResume, Steps
    <3> QED
      BY <1>t, <2>1, <3>1
  <2>4. CASE pc \in ToRollback
    <3>1. pc' = "rb_stop" /\ tx.state \in Restorable /\ mem.job = tx.job /\ mem.new # 0
      BY <1>7, <1>t, <2>4 DEF StepFails, ErrorExit, ToFailing, ToResume, ToRollback, Steps
    <3> QED
      BY <1>t, <2>1, <3>1
  <2> QED
    BY <1>7, <2>2, <2>3, <2>4 DEF StepFails
<1>8. CASE StopFails
  <2>1. UNCHANGED <<tx, install, active, files, data, backup, acked, mem>>
    BY <1>8 DEF StopFails, disk
  <2>2. \/ UNCHANGED <<svc, inflight>>
        \/ svc' = 0 /\ inflight' = {}
    BY <1>8 DEF StopFails
  <2>3. CASE pc = "stop" /\ pc' = "undo_barrier"
    BY <1>t, <2>1, <2>2, <2>3 DEF Steps, ToFailing
  <2>4. CASE pc' = "failing"
    BY <1>t, <2>1, <2>2, <2>4
  <2> QED
    BY <1>8, <2>3, <2>4 DEF StopFails
<1>9. CASE StartUnhealthy
  BY <1>t, <1>9 DEF StartUnhealthy, Fault, TypeOK, Files, FileNames, ErrorExit,
     ToFailing, ToResume, ToRollback
<1>10. CASE Crash
  BY <1>t, <1>10 DEF Crash, disk, NoTx, Jobs
<1>11. CASE SaveTx("save_preparing", "preparing", "barrier")
  BY <1>t, <1>11 DEF SaveTx, Saved, service, budget
<1>12. CASE SaveTx("undo_save", "rolled_back", "failing")
  BY <1>t, <1>12 DEF SaveTx, Saved, service, budget
<1>13. CASE SaveTx("backup_save", "backed_up", "save_replacing")
  BY <1>t, <1>13 DEF SaveTx, Saved, service, budget
<1>14. CASE SaveTx("save_replacing", "replacing", "copy_exe")
  BY <1>t, <1>14 DEF SaveTx, Saved, service, budget
<1>15. CASE SaveTx("save_starting", "starting", "start")
  BY <1>t, <1>15 DEF SaveTx, Saved, service, budget
<1>16. CASE SaveTx("save_verified", "verified", "commit_barrier")
  BY <1>t, <1>16 DEF SaveTx, Saved, service, budget
<1>17. CASE SaveTx("commit_save", "complete", "commit_report")
  BY <1>t, <1>17 DEF SaveTx, Saved, service, budget
<1>18. CASE SaveTx("resume_save", "rolled_back", "resume_start")
  BY <1>t, <1>18 DEF SaveTx, Saved, service, budget
<1>19. CASE SaveTx("rb_done", "rolled_back", "resume_start")
  BY <1>t, <1>19 DEF SaveTx, Saved, service, budget
<1>20. CASE Saves
  BY <1>11, <1>12, <1>13, <1>14, <1>15, <1>16, <1>17, <1>18, <1>19, <1>20 DEF Saves
<1>21. CASE Barrier("barrier", "installing", "stop")
  BY <1>t, <1>21 DEF Barrier, service, budget
<1>22. CASE Barrier("commit_barrier", "verified", "commit_save")
  BY <1>t, <1>22 DEF Barrier, service, budget
<1>23. CASE Barrier("resume_barrier", "verified", "failing")
  BY <1>t, <1>23 DEF Barrier, service, budget
<1>24. CASE StopProgram("stop", "backup")
  BY <1>t, <1>24 DEF StopProgram, disk, budget
<1>25. CASE StopProgram("rb_stop", "rb_mark")
  BY <1>t, <1>25 DEF StopProgram, disk, budget
<1>26. CASE UndoBarrier
  BY <1>t, <1>26 DEF UndoBarrier, Fault, service, budget
<1>27. CASE PublishBackup
  BY <1>t, <1>27 DEF PublishBackup, service, budget, TypeOK
<1>28. CASE CopyNew("copy_exe", "exe", "copy_upd")
  BY <1>t, <1>28 DEF CopyNew, service, budget, TypeOK, Files, FileNames
<1>29. CASE CopyNew("copy_upd", "upd", "save_starting")
  BY <1>t, <1>29 DEF CopyNew, service, budget, TypeOK, Files, FileNames
<1>30. CASE Start("start", mem.new, "check_config")
  BY <1>t, <1>30 DEF Start, Boot, budget, TypeOK, Files, FileNames
<1>31. CASE Start("resume_start", mem.old, "resume_barrier")
  BY <1>t, <1>31 DEF Start, Boot, budget, TypeOK, Files, FileNames
<1>33. CASE StartImpossible("resume_start", mem.old)
  BY <1>t, <1>33 DEF StartImpossible, ErrorExit, ToFailing, disk, service, budget
<1>34. CASE CheckConfig
  BY <1>t, <1>34 DEF CheckConfig, disk, service, budget
<1>35. CASE ReportFailure
  BY <1>t, <1>35 DEF ReportFailure, service
<1>36. CASE RestoreByHand
  BY <1>t, <1>36 DEF RestoreByHand, disk, service, budget
<1>37. CASE MarkRestoring
  BY <1>t, <1>37 DEF MarkRestoring, Saved, Manual, service, budget, TypeOK
<1>38. CASE WipeData
  BY <1>t, <1>38 DEF WipeData, service
<1>39. CASE CopyDataBack
  BY <1>t, <1>39 DEF CopyDataBack, service, budget
<1>40. ASSUME NEW f \in FileNames, CopyFileBack(f) PROVE IInv'
  BY <1>t, <1>40 DEF CopyFileBack, service, budget, TypeOK, Files, FileNames
<1>41. CASE ReplaceRefused
  BY <1>t, <1>41 DEF ReplaceRefused, service, budget, ErrorExit, ToFailing, ToResume,
     TypeOK
<1>42. CASE Launch
  BY <1>t, <1>42 DEF Launch, service, budget
<1>43. CASE RecoverPending \/ RecoverUnreadable
  BY <1>t, <1>43 DEF RecoverPending, RecoverUnreadable, RecoverStep, disk, service, budget,
     TypeOK, States
<1>44. ASSUME NEW keep, Cleanup(keep)
       PROVE  \A j \in Jobs : backup'[j] = NoBackup \/ backup'[j] = backup[j]
  BY <1>44 DEF Cleanup
<1>45. CASE CheckOnly
  BY <1>t, <1>45 DEF CheckOnly, Cleanup, NoBackup, service, worker, TypeOK
<1>46. CASE NothingToInstall
  BY <1>t, <1>44, <1>46 DEF NothingToInstall, NoBackup, service, budget, TypeOK
<1>47. ASSUME NEW v \in Versions, Download(v) PROVE IInv'
  <2>1. tx' = tx /\ mem'.job # tx.job /\ mem'.new = v
    BY <1>t, <1>47, BoundAssumption DEF Download, TypeOK, Jobs
  <2>2. \A j \in Jobs : backup'[j] = NoBackup \/ backup'[j] = backup[j]
    BY <1>44, <1>47 DEF Download
  <2>3. pc = "ready" /\ pc' = "save_preparing"
        /\ UNCHANGED <<tx, install, files, data, svc, inflight, acked>>
    BY <1>47 DEF Download, service
  <2> QED
    BY <1>t, <2>1, <2>2, <2>3 DEF NoBackup, Versions, TypeOK
<1>48. CASE CommitReport
  BY <1>t, <1>44, <1>48 DEF CommitReport, NoBackup, service, budget, TypeOK
<1>49. CASE Worker
  BY <1>20, <1>21, <1>22, <1>23, <1>24, <1>25, <1>26, <1>27, <1>28, <1>29, <1>30,
     <1>31, <1>33, <1>34, <1>35, <1>36, <1>37, <1>38, <1>39, <1>40, <1>41,
     <1>42, <1>43, <1>46, <1>47, <1>48, <1>49 DEF Worker
<1> QED
  BY <1>0, <1>2, <1>3, <1>4, <1>5, <1>6, <1>7, <1>8, <1>9, <1>10, <1>45, <1>49
     DEF Next, Failures, Program

\* No acknowledged write is ever lost, for any number of jobs, faults, crashes,
\* versions and writes, whatever is started by hand at whatever moment, as long
\* as update.exe --check can read transaction.json.
THEOREM NothingLost ==
  ASSUME "unreadable" \notin Mishaps
  PROVE  Spec => []NoAckedWriteLost
<1>1. Init => IInv
  BY SafeInit
<1>2. IInv /\ [Next]_vars => IInv'
  BY SafeNext
<1>3. IInv => NoAckedWriteLost
  BY DEF IInv
<1> QED
  BY <1>1, <1>2, <1>3, PTL DEF Spec

-----------------------------------------------------------------------------
(* What a step may do to DATA.                                             *)

\* A step either leaves DATA alone but for its schema and added writes, or it
\* is one of the two steps of a restoration that replace it.
LEMMA DataSteps ==
  ASSUME TypeOK, [Next]_vars
  PROVE  \/ data'.whole = data.whole /\ data.writes \subseteq data'.writes
         \/ pc \in {"rb_wipe", "rb_copy"} /\ UNCHANGED <<tx, install, inflight>>
<1> DEFINE Keeps == data'.whole = data.whole /\ data.writes \subseteq data'.writes
<1> USE DEF TypeOK
<1>1. CASE UNCHANGED data
  BY <1>1
<1>2. CASE Boot
  BY <1>2 DEF Boot
<1>3. ASSUME NEW w \in Writes, CommitWrite(w) PROVE Keeps
  BY <1>3 DEF CommitWrite
<1>4. CASE StartUnhealthy
  BY <1>4 DEF StartUnhealthy
<1>5. CASE WipeData \/ CopyDataBack \/ ReplaceRefused
  BY <1>5 DEF WipeData, CopyDataBack, ReplaceRefused, service
<1>6. CASE UNCHANGED vars
  BY <1>1, <1>6 DEF vars, disk
<1>7. CASE Program
  BY <1>1, <1>2, <1>3, <1>7
     DEF Program, StartByHand, ProgramExits, StatusExpires, CheckOnly, Admit, disk
<1>8. CASE Failures
  BY <1>1, <1>4, <1>8 DEF Failures, StepFails, StopFails, Crash, disk
<1>9. CASE Saves
  BY <1>1, <1>9 DEF Saves, SaveTx
<1>10. ASSUME NEW from, NEW expected, NEW to, Start(from, expected, to)
       PROVE  UNCHANGED data \/ Boot
  BY <1>10 DEF Start
<1>11. CASE Worker
  BY <1>1, <1>2, <1>5, <1>9, <1>10, <1>11
     DEF Worker, Launch, RecoverPending, RecoverUnreadable, NothingToInstall, Download,
         Barrier, StopProgram, UndoBarrier, PublishBackup, CopyNew, StartImpossible,
         CheckConfig, CommitReport, ReportFailure, RestoreByHand, MarkRestoring,
         CopyFileBack, disk
<1> QED
  BY <1>6, <1>7, <1>8, <1>11 DEF Next

\* From the stop that begins a rollback until DATA is back no program runs,
\* unless somebody starts it by hand: behind the barrier nothing else does.
Alone == pc \in {"rb_mark", "rb_wipe", "rb_copy"} => svc = 0

LEMMA AloneNext ==
  ASSUME IInv, Alone, "by_hand" \notin Mishaps, [Next]_vars
  PROVE  Alone'
<1> USE DEF Alone, IInv, AtStep, Barred, RestorableSteps
<1>1. CASE pc \in {"rb_mark", "rb_wipe", "rb_copy"}
  <2>1. svc = 0 /\ pc # "off" /\ install = "installing"
    BY <1>1
  <2>2. CASE Worker
    BY <1>1, <2>1, <2>2
       DEF Worker, Launch, RecoverPending, RecoverUnreadable, NothingToInstall, Download,
           Saves, SaveTx, Barrier, StopProgram, UndoBarrier, PublishBackup, CopyNew, Start,
           StartImpossible, CheckConfig, CommitReport, ReportFailure, RestoreByHand,
           MarkRestoring, WipeData, CopyDataBack, CopyFileBack, ReplaceRefused, service
  <2>3. CASE Failures
    BY <1>1, <2>1, <2>3 DEF Failures, StepFails, StopFails, StartUnhealthy, Crash, service
  <2>4. CASE Program
    BY <1>1, <2>1, <2>4 DEF Program, StartByHand, ProgramExits, StatusExpires, CheckOnly,
       Admit, CommitWrite, service
  <2>5. CASE UNCHANGED vars
    BY <1>1, <2>5 DEF vars, service, worker
  <2> QED
    BY <2>2, <2>3, <2>4, <2>5 DEF Next
<1>2. CASE pc \notin {"rb_mark", "rb_wipe", "rb_copy"}
  <2>1. CASE Worker
    <3>1. StopProgram("rb_stop", "rb_mark") => svc' = 0
      BY DEF StopProgram
    <3>2. MarkRestoring => svc' = svc /\ pc = "rb_mark"
      BY DEF MarkRestoring, service
    <3> QED
      BY <1>2, <2>1, <3>1, <3>2
         DEF Worker, Launch, RecoverPending, RecoverStep, RecoverUnreadable, NothingToInstall,
             Download, Saves, SaveTx, Barrier, StopProgram, UndoBarrier, PublishBackup, CopyNew,
             Start, StartImpossible, ErrorExit, ToFailing, ToResume, ToRollback, CheckConfig,
             CommitReport, ReportFailure, RestoreByHand, WipeData, CopyDataBack, CopyFileBack,
             ReplaceRefused
  <2>2. CASE Failures
    BY <1>2, <2>2 DEF Failures, StepFails, StopFails, StartUnhealthy, Crash, ErrorExit
  <2>3. CASE Program \/ UNCHANGED vars
    BY <1>2, <2>3 DEF Program, StartByHand, ProgramExits, StatusExpires, CheckOnly, Admit,
       CommitWrite, worker, vars
  <2> QED
    BY <2>1, <2>2, <2>3 DEF Next
<1> QED
  BY <1>1, <1>2

\* DATA is replaced only while the barrier is up and no admitted write is left;
\* where the program is not started by hand, only while no program is alive.
THEOREM ReplacementBarred ==
  ASSUME "unreadable" \notin Mishaps
  PROVE  Spec => ReplacedBehindBarrier
<1> DEFINE Quiet == "by_hand" \notin Mishaps => Alone
<1>1. Init => IInv /\ Quiet
  BY SafeInit DEF Init, Alone
<1>2. IInv /\ Quiet /\ [Next]_vars => IInv' /\ Quiet'
  BY SafeNext, AloneNext
<1>3. IInv /\ Quiet /\ [Next]_vars =>
        [data'.whole # data.whole \/ ~(data.writes \subseteq data'.writes) =>
           /\ install = "installing" /\ inflight = {}
           /\ svc = 0 \/ "by_hand" \in Mishaps]_vars
  BY DataSteps DEF IInv, Alone, AtStep, Barred, RestorableSteps
<1> QED
  BY <1>1, <1>2, <1>3, PTL DEF Spec, ReplacedBehindBarrier

\* The transaction on disk changes only where the worker saves it.
LEMMA TxSteps ==
  ASSUME [Next]_vars
  PROVE  \/ UNCHANGED tx
         \/ pc = "save_preparing" /\ tx'.job = mem.job
         \/ pc = "commit_save" /\ tx'.state = "complete"
         \/ pc \in PreparingSteps \cup RestorableSteps
<1>1. CASE UNCHANGED vars
  BY <1>1 DEF vars, disk
<1>2. CASE Program
  BY <1>2 DEF Program, StartByHand, ProgramExits, StatusExpires, CheckOnly, Admit,
              CommitWrite, disk
<1>3. CASE Failures
  BY <1>3 DEF Failures, StepFails, StopFails, StartUnhealthy, Crash, disk
<1>4. CASE Saves
  BY <1>4 DEF Saves, SaveTx, Saved, PreparingSteps, RestorableSteps
<1>5. CASE MarkRestoring
  BY <1>5 DEF MarkRestoring, RestorableSteps
<1>6. CASE Worker
  BY <1>4, <1>5, <1>6
     DEF Worker, Launch, RecoverPending, RecoverUnreadable, NothingToInstall, Download,
         Barrier, StopProgram, UndoBarrier, PublishBackup, CopyNew, Start,
         StartImpossible, CheckConfig, CommitReport, ReportFailure, RestoreByHand,
         WipeData, CopyDataBack, ReplaceRefused, CopyFileBack, disk
<1> QED
  BY <1>1, <1>2, <1>3, <1>6 DEF Next

\* A verified upgrade is final: neither recovery nor a late failure rolls it
\* back, and DATA keeps every write it holds.
THEOREM CommitFinal ==
  ASSUME "unreadable" \notin Mishaps
  PROVE  Spec => CommitIsFinal
<1>1. Init => IInv
  BY SafeInit
<1>2. IInv /\ [Next]_vars => IInv'
  BY SafeNext
<1>3. ASSUME IInv, [Next]_vars, tx.state \in Committed
      PROVE  /\ data.writes \subseteq data'.writes /\ data'.whole
             /\ tx'.job = tx.job => tx'.state \in Committed
  <2>1. pc \notin PreparingSteps \cup RestorableSteps /\ data.whole
    BY <1>3 DEF IInv, AtStep, NoAckedWriteLost, Committed, Restorable
  <2>2. data'.whole = data.whole /\ data.writes \subseteq data'.writes
    BY <1>3, <2>1, DataSteps DEF IInv, RestorableSteps
  <2>3. pc = "save_preparing" => mem.job # tx.job
    BY <1>3 DEF IInv, AtStep
  <2>4. tx'.job = tx.job => tx'.state \in Committed
    BY <1>3, <2>1, <2>3, TxSteps DEF Committed
  <2> QED
    BY <2>1, <2>2, <2>4
<1>4. IInv /\ [Next]_vars =>
        [tx.state \in Committed =>
           /\ data.writes \subseteq data'.writes /\ data'.whole
           /\ tx'.job = tx.job => tx'.state \in Committed]_vars
  BY <1>3
<1> QED
  BY <1>1, <1>2, <1>4, PTL DEF Spec, CommitIsFinal
-----------------------------------------------------------------------------
(* The version of the files, of DATA and of what was saved.                *)

\* Which version the files are, by the state on disk and the step of the worker.
Copied == {"copy_upd", "save_starting", "start", "check_config", "save_verified"}
Restoring == {"rb_wipe", "rb_copy", "rb_files"}
AtVersion ==
  /\ svc # 0 => svc = files.exe /\ data.schema = svc
  /\ tx.state \in {"preparing", "rolled_back"} => files.exe = tx.old
  /\ tx.state \in Committed => files.exe = tx.new
  /\ tx.state \in Restorable => backup[tx.job].files.exe = tx.old
  /\ pc \in OwnSteps => mem.old = tx.old /\ mem.new = tx.new
  /\ pc = "save_preparing" => mem.old = files.exe
  /\ pc = "backup_save" => Snap.files.exe = mem.old
  /\ pc \in Copied => files.exe = mem.new
  /\ pc \in Restoring /\ "exe" \notin todo => files.exe = tx.old
  /\ pc = "rb_done" => files.exe = tx.old

\* The schema that DATA and the snapshot have.
AtSchema ==
  /\ tx.state \notin Restorable => data.schema \in {0, files.exe}
  /\ tx.state \in Restorable => backup[tx.job].schema \in {0, tx.old}
  /\ pc = "backup_save" => Snap.schema \in {0, mem.old}
  /\ pc \in {"check_config", "save_verified"} => data.schema = files.exe
  /\ pc \in {"rb_files", "rb_done"} => data.schema = Snap.schema

\* update.exe is the one that was saved, unless none was.
SavedUpdater(j) == files.upd = backup[j].files.upd \/ backup[j].files.upd = 0
AtUpdater ==
  /\ \A j \in Jobs : j > tx.job => ~backup[j].done
  /\ pc = "save_preparing" => mem.job > tx.job
  /\ tx.state \in {"preparing", "rolled_back"} /\ backup[tx.job].done => SavedUpdater(tx.job)
  /\ pc \in Restoring /\ "upd" \notin todo => SavedUpdater(tx.job)
  /\ pc = "rb_done" => SavedUpdater(tx.job)

\* Upgrades go up, and DATA is what the snapshot holds when either replaces the other.
LedgerSteps == {"backup_save", "save_replacing", "copy_exe", "copy_upd", "save_starting",
                "start", "check_config", "save_verified", "rb_files", "rb_done"}
AtLedger ==
  /\ tx.state # "none" => tx.old < tx.new
  /\ pc = "save_preparing" => mem.old < mem.new
  /\ pc \in LedgerSteps => data.writes = Snap.writes

\* Without a start by hand during the update the schema follows as well.
VInv ==
  IInv /\ AtVersion /\ AtUpdater /\ AtLedger /\ ("by_hand" \notin Mishaps => AtSchema)

LEMMA VersionInit == Init => VInv
<1> SUFFICES ASSUME Init PROVE VInv
  OBVIOUS
<1>1. IInv
  BY SafeInit
<1>2. PICK v \in Versions :
        /\ files \in {[exe |-> v, upd |-> u, cfg |-> 0] : u \in {0, v}}
        /\ data \in {[whole |-> TRUE, schema |-> s, writes |-> {}] :
                       s \in IF "fresh" \in Mishaps THEN {0, v} ELSE {v}}
  BY DEF Init
<1>3. files.exe = v /\ data.schema \in {0, v}
  BY <1>2
<1>4. \A j \in Jobs : ~backup[j].done
  BY DEF Init, NoBackup
<1>5. AtVersion /\ AtUpdater /\ AtLedger /\ AtSchema
  BY <1>3, <1>4 DEF Init, AtVersion, AtUpdater, AtLedger, LedgerSteps, AtSchema, OwnSteps,
     PreparingSteps, RestorableSteps, CommitSteps, ResumeSteps, Copied, Restoring, Restorable, Committed
<1> QED
  BY <1>1, <1>5 DEF VInv

LEMMA VersionNext ==
  ASSUME "unreadable" \notin Mishaps, VInv, [Next]_vars
  PROVE  VInv'
<1> USE DEF AtVersion, AtUpdater, AtSchema, SavedUpdater, AtStep, Barred, Snap, Copied, Restoring,
      AtLedger, LedgerSteps, Empty, Manual
<1> USE DEF PreparingSteps, IdleSteps, RestorableSteps, CommitSteps, ResumeSteps,
      OwnSteps, Restorable, Committed
<1> DEFINE Kept ==
      AtVersion' /\ AtUpdater' /\ AtLedger' /\ ("by_hand" \notin Mishaps => AtSchema')
<1>t. /\ IInv /\ IInv' /\ TypeOK /\ TypeOK' /\ AtStep /\ Barred /\ Empty
      /\ AtVersion /\ AtUpdater /\ AtLedger /\ ("by_hand" \notin Mishaps => AtSchema)
  BY SafeNext DEF VInv, IInv
<1> SUFFICES Kept
  BY <1>t DEF VInv
<1> USE <1>t DEF Kept, TypeOK, Files, FileNames, disk, service, worker, budget
<1>0. CASE UNCHANGED vars
  BY <1>0 DEF vars
<1>2. CASE StartByHand
  BY <1>2 DEF StartByHand, Boot
<1>3. CASE ProgramExits
  BY <1>3 DEF ProgramExits
<1>4. ASSUME NEW w \in Writes, Admit(w) PROVE Kept
  BY <1>4 DEF Admit
<1>5. ASSUME NEW w \in Writes, CommitWrite(w) PROVE Kept
  BY <1>5 DEF CommitWrite
<1>6. CASE StatusExpires
  BY <1>6 DEF StatusExpires
<1>7. CASE StepFails
  BY <1>7 DEF StepFails, Fault, ErrorExit, ToFailing, ToResume, ToRollback, Steps
<1>8. CASE StopFails
  BY <1>8 DEF StopFails, Fault
<1>9. CASE StartUnhealthy
  BY <1>9 DEF StartUnhealthy, Fault, ErrorExit, ToFailing, ToResume, ToRollback
<1>10. CASE Crash
  BY <1>10 DEF Crash, NoTx
<1>11. CASE SaveTx("save_preparing", "preparing", "barrier")
  <2>1. /\ pc = "save_preparing" /\ pc' = "barrier"
        /\ tx' = [job |-> mem.job, state |-> "preparing", old |-> mem.old, new |-> mem.new]
        /\ UNCHANGED <<install, files, data, backup, svc, inflight, acked, mem, todo>>
    BY <1>11 DEF SaveTx, Saved
  <2>2. /\ tx.job \in Jobs /\ mem.job \in Jobs /\ mem.job > tx.job
        /\ mem.old = files.exe /\ tx.state \notin Restorable
    BY <2>1
  <2>3. \A j \in Jobs : j > mem.job \/ j = mem.job => j > tx.job
    BY ONLY <2>2, BoundAssumption DEF Jobs
  <2>4. \A j \in Jobs : j > mem.job \/ j = mem.job => ~backup[j].done
    BY ONLY <2>3, AtUpdater DEF AtUpdater
  <2>5. AtVersion' /\ AtLedger'
    BY <2>1, <2>2
  <2>6. AtUpdater'
    BY <2>1, <2>2, <2>4
  <2>7. AtSchema => AtSchema'
    BY <2>1, <2>2
  <2> QED
    BY <2>5, <2>6, <2>7
<1>12. CASE SaveTx("undo_save", "rolled_back", "failing")
  BY <1>12 DEF SaveTx, Saved
<1>13. CASE SaveTx("backup_save", "backed_up", "save_replacing")
  BY <1>13 DEF SaveTx, Saved
<1>14. CASE SaveTx("save_replacing", "replacing", "copy_exe")
  BY <1>14 DEF SaveTx, Saved
<1>15. CASE SaveTx("save_starting", "starting", "start")
  BY <1>15 DEF SaveTx, Saved
<1>16. CASE SaveTx("save_verified", "verified", "commit_barrier")
  BY <1>16 DEF SaveTx, Saved
<1>17. CASE SaveTx("commit_save", "complete", "commit_report")
  BY <1>17 DEF SaveTx, Saved
<1>18. CASE SaveTx("resume_save", "rolled_back", "resume_start")
  BY <1>18 DEF SaveTx, Saved
<1>19. CASE SaveTx("rb_done", "rolled_back", "resume_start")
  BY <1>19 DEF SaveTx, Saved
<1>20. CASE Saves
  BY <1>11, <1>12, <1>13, <1>14, <1>15, <1>16, <1>17, <1>18, <1>19, <1>20 DEF Saves
<1>21. CASE Barrier("barrier", "installing", "stop")
  BY <1>21 DEF Barrier
<1>22. CASE Barrier("commit_barrier", "verified", "commit_save")
  BY <1>22 DEF Barrier
<1>23. CASE Barrier("resume_barrier", "verified", "failing")
  BY <1>23 DEF Barrier
<1>24. CASE StopProgram("stop", "backup")
  BY <1>24 DEF StopProgram
<1>25. CASE StopProgram("rb_stop", "rb_mark")
  BY <1>25 DEF StopProgram
<1>26. CASE UndoBarrier
  BY <1>26 DEF UndoBarrier, Fault
<1>27. CASE PublishBackup
  <2>1. /\ pc = "backup" /\ pc' = "backup_save" /\ mem.job = tx.job /\ tx.job \in Jobs
        /\ tx.state = "preparing" /\ mem.old = tx.old /\ files.exe = tx.old
        /\ UNCHANGED <<tx, install, files, data, svc, inflight, acked, mem, todo>>
    BY <1>27 DEF PublishBackup
  <2>2. /\ backup'[tx.job].done /\ backup'[tx.job].schema = data.schema
        /\ backup'[tx.job].writes = data.writes
        /\ backup'[tx.job].files = files
        /\ \A j \in Jobs : j # tx.job => backup'[j] = backup[j]
    BY <1>27, <2>1 DEF PublishBackup
  <2>3. \A j \in Jobs : j > tx.job => j # tx.job
    BY ONLY <2>1, BoundAssumption DEF Jobs
  <2>4. AtVersion' /\ AtLedger'
    BY <2>1, <2>2
  <2>5. AtUpdater'
    BY <2>1, <2>2, <2>3
  <2>6. AtSchema => AtSchema'
    BY <2>1, <2>2
  <2> QED
    BY <2>4, <2>5, <2>6
<1>28. CASE CopyNew("copy_exe", "exe", "copy_upd")
  BY <1>28 DEF CopyNew
<1>29. CASE CopyNew("copy_upd", "upd", "save_starting")
  BY <1>29 DEF CopyNew
<1>30. CASE Start("start", mem.new, "check_config")
  BY <1>30 DEF Start, Boot
<1>31. CASE Start("resume_start", mem.old, "resume_barrier")
  BY <1>31 DEF Start, Boot
<1>33. CASE StartImpossible("resume_start", mem.old)
  BY <1>33 DEF StartImpossible, ErrorExit, ToFailing
<1>34. CASE CheckConfig
  BY <1>34 DEF CheckConfig
<1>35. CASE ReportFailure
  BY <1>35 DEF ReportFailure, Fault
<1>36. CASE RestoreByHand
  BY <1>36 DEF RestoreByHand
<1>37. CASE MarkRestoring
  BY <1>37 DEF MarkRestoring, Saved, Manual
<1>38. CASE WipeData
  BY <1>38 DEF WipeData
<1>39. CASE CopyDataBack
  BY <1>39 DEF CopyDataBack
<1>40. ASSUME NEW f \in FileNames, CopyFileBack(f) PROVE Kept
  BY <1>40 DEF CopyFileBack
<1>41. CASE ReplaceRefused
  BY <1>41 DEF ReplaceRefused, ErrorExit, ToFailing, ToResume, ToRollback
<1>42. CASE Launch
  BY <1>42 DEF Launch
<1>43. CASE RecoverPending \/ RecoverUnreadable
  BY <1>43 DEF RecoverPending, RecoverUnreadable, RecoverStep, States
<1>44. ASSUME NEW keep, Cleanup(keep)
       PROVE  /\ \A j \in Jobs : backup'[j] = NoBackup \/ backup'[j] = backup[j]
              /\ keep \in Jobs => backup'[keep] = backup[keep]
  BY <1>44 DEF Cleanup
<1>45. CASE CheckOnly
  BY <1>45, <1>44 DEF CheckOnly, NoBackup
<1>46. CASE NothingToInstall
  BY <1>46, <1>44 DEF NothingToInstall, NoBackup
<1>47. ASSUME NEW v \in Versions, Download(v) PROVE Kept
  <2>1. /\ pc = "ready" /\ pc' = "save_preparing"
        /\ mem' = [job |-> tx.job + 1, old |-> files.exe, new |-> v] /\ v > files.exe
        /\ UNCHANGED <<tx, install, files, data, svc, inflight, acked, todo>>
    BY <1>47 DEF Download
  <2>2. tx.job \in Jobs /\ mem'.job > tx.job
        /\ mem'.old = files.exe /\ mem'.new = v /\ files.exe \in Int /\ v \in Int
    BY <2>1, BoundAssumption DEF Jobs, Versions
  <2>3. /\ \A j \in Jobs : backup'[j] = NoBackup \/ backup'[j] = backup[j]
        /\ backup'[tx.job] = backup[tx.job]
    BY <1>44, <1>47, <2>2 DEF Download
  <2>4. AtVersion' /\ AtLedger'
    BY <2>1, <2>2, <2>3
  <2>5. AtUpdater'
    BY <2>1, <2>2, <2>3 DEF NoBackup
  <2>6. AtSchema => AtSchema'
    BY <2>1, <2>2, <2>3
  <2> QED
    BY <2>4, <2>5, <2>6
<1>48. CASE CommitReport
  BY <1>48, <1>44 DEF CommitReport, NoBackup
<1>49. CASE Worker
  BY <1>20, <1>21, <1>22, <1>23, <1>24, <1>25, <1>26, <1>27, <1>28, <1>29, <1>30,
     <1>31, <1>33, <1>34, <1>35, <1>36, <1>37, <1>38, <1>39, <1>40, <1>41,
     <1>42, <1>43, <1>46, <1>47, <1>48, <1>49 DEF Worker
<1> QED
  BY <1>0, <1>2, <1>3, <1>4, <1>5, <1>6, <1>7, <1>8, <1>9, <1>10, <1>45, <1>49
     DEF Next, Failures, Program

LEMMA Gate == VInv => GateConsistent
<1> SUFFICES ASSUME VInv, GateOpen \/ inflight # {} PROVE GateConsistent
  BY DEF GateConsistent
<1>1. svc # 0 /\ tx.state \notin Restorable
  BY DEF VInv, IInv, Barred, GateOpen
<1>2. tx.state \in {"none", "preparing", "rolled_back"} \cup Committed
  BY <1>1 DEF VInv, IInv, TypeOK, States
<1>3. svc = files.exe /\ data.schema = svc /\ data.whole
  BY <1>1 DEF VInv, IInv, AtVersion, NoAckedWriteLost
<1>4. svc = LogicalVersion
  BY <1>2, <1>3 DEF VInv, AtVersion, LogicalVersion, Committed
<1> QED
  BY <1>3, <1>4 DEF GateConsistent

\* While a write may be admitted or is under way, the program that runs, the
\* file on disk and the schema of DATA are one version, and DATA is complete.
THEOREM GateSound ==
  ASSUME "unreadable" \notin Mishaps
  PROVE  Spec => []GateConsistent
<1>1. Init => VInv
  BY VersionInit
<1>2. VInv /\ [Next]_vars => VInv'
  BY VersionNext
<1>3. VInv => GateConsistent
  BY Gate
<1> QED
  BY <1>1, <1>2, <1>3, PTL DEF Spec

\* What a failed update leaves, unless the program is started by hand during
\* it, is the installation from before: program, updater, DATA unmigrated.
THEOREM RollbackRestores ==
  ASSUME Mishaps \cap {"unreadable", "by_hand"} = {}
  PROVE  Spec => []RolledBackIsRestored
<1>1. Init => VInv
  BY VersionInit
<1>2. VInv /\ [Next]_vars => VInv'
  BY VersionNext
<1>3. VInv => RolledBackIsRestored
  BY DEF VInv, IInv, NoAckedWriteLost, AtVersion, AtSchema, AtUpdater, SavedUpdater,
     RolledBackIsRestored, Restorable
<1> QED
  BY <1>1, <1>2, <1>3, PTL DEF Spec

-----------------------------------------------------------------------------
(* The transaction implements an upgrade that is atomic.                   *)

Level == <<LogicalVersion, LogicalWrites>>
Commits ==
  /\ pc = "save_verified" /\ tx' = Saved("verified")
  /\ UNCHANGED <<data, files, service, install, active>>

\* What the installation is and holds changes in two steps only: where a write
\* commits and where the new version is recorded as verified.
LEMMA LevelSteps ==
  ASSUME "unreadable" \notin Mishaps, VInv, [Next]_vars
  PROVE  UNCHANGED Level \/ Commits \/ \E w \in Writes : CommitWrite(w)
<1> USE DEF AtStep, Snap, Restorable, Committed, RestorableSteps, PreparingSteps,
      CommitSteps, ResumeSteps, IdleSteps, OwnSteps
<1>t. TypeOK /\ AtStep /\ AtVersion /\ AtLedger
  BY DEF VInv, IInv
<1> USE <1>t DEF Level, LogicalVersion, LogicalWrites, TypeOK
<1>1. ASSUME UNCHANGED <<tx, files, data, backup>> PROVE UNCHANGED Level
  BY <1>1
\* Starting the program migrates DATA and may complete config.json.
<1>2. ASSUME UNCHANGED <<tx, backup>>, data'.writes = data.writes, files'.exe = files.exe
      PROVE  UNCHANGED Level
  BY <1>2
<1>3. ASSUME Boot, UNCHANGED <<tx, backup>> PROVE UNCHANGED Level
  BY <1>2, <1>3 DEF Boot, Files, FileNames
<1>4. CASE StartUnhealthy
  BY <1>2, <1>4 DEF StartUnhealthy, Files, FileNames
\* While a snapshot decides, DATA and the files do not matter.
<1>5. CASE tx.state \in Restorable /\ UNCHANGED <<tx, backup>>
  BY <1>5
<1>6. ASSUME NEW from, NEW file, NEW to, CopyNew(from, file, to), from \in RestorableSteps
      PROVE  UNCHANGED Level
  BY <1>5, <1>6 DEF CopyNew
<1>7. CASE WipeData \/ CopyDataBack \/ ReplaceRefused \/ \E f \in FileNames : CopyFileBack(f)
  BY <1>5, <1>7 DEF WipeData, CopyDataBack, ReplaceRefused, CopyFileBack
\* Cleaning up keeps the snapshot of the pending transaction.
<1>8. ASSUME Cleanup(tx.job), UNCHANGED <<tx, files, data>>
      PROVE  UNCHANGED Level
  <2>1. backup'[tx.job] = backup[tx.job]
    BY <1>8 DEF Cleanup
  <2> QED
    BY <1>8, <2>1
<1>9. CASE PublishBackup
  BY <1>9 DEF PublishBackup
\* Saving the transaction.
<1>10. CASE MarkRestoring
  BY <1>10 DEF MarkRestoring, Saved, AtVersion
<1>11. CASE Saves
  <2> USE DEF SaveTx, Saved, AtVersion, AtLedger, LedgerSteps
  <2>1. CASE SaveTx("save_preparing", "preparing", "barrier")
    BY <2>1
  <2>2. CASE SaveTx("undo_save", "rolled_back", "failing")
    BY <2>2
  <2>3. CASE SaveTx("backup_save", "backed_up", "save_replacing")
    BY <2>3
  <2>4. CASE SaveTx("save_replacing", "replacing", "copy_exe")
    BY <2>4
  <2>5. CASE SaveTx("save_starting", "starting", "start")
    BY <2>5
  <2>6. CASE SaveTx("save_verified", "verified", "commit_barrier")
    BY <2>6 DEF Commits
  <2>7. CASE SaveTx("commit_save", "complete", "commit_report")
    BY <2>7
  <2>8. CASE SaveTx("resume_save", "rolled_back", "resume_start")
    BY <2>8
  <2>9. CASE SaveTx("rb_done", "rolled_back", "resume_start")
    BY <2>9
  <2> QED
    BY <1>11, <2>1, <2>2, <2>3, <2>4, <2>5, <2>6, <2>7, <2>8, <2>9 DEF Saves
<1>12. CASE UNCHANGED vars
  BY <1>1, <1>12 DEF vars, disk
<1>13. CASE Program
  BY <1>1, <1>3, <1>8, <1>13
     DEF Program, StartByHand, ProgramExits, StatusExpires, CheckOnly, Admit, disk
<1>14. CASE Failures
  BY <1>1, <1>4, <1>14 DEF Failures, StepFails, StopFails, Crash, disk
<1>15. ASSUME NEW from, NEW expected, NEW to, Start(from, expected, to)
       PROVE  UNCHANGED Level
  BY <1>1, <1>3, <1>15 DEF Start
<1>16. CASE NothingToInstall \/ (\E v \in Versions : Download(v)) \/ CommitReport
  BY <1>8, <1>16 DEF NothingToInstall, Download, CommitReport
<1>17. CASE Worker
  BY <1>1, <1>6, <1>7, <1>9, <1>10, <1>11, <1>15, <1>16, <1>17
     DEF Worker, Launch, RecoverPending, RecoverUnreadable, Barrier, StopProgram,
         UndoBarrier, StartImpossible, CheckConfig, ReportFailure, RestoreByHand, disk
<1> QED
  BY <1>12, <1>13, <1>14, <1>17 DEF Next

\* What is served is the version of the installation, or nothing; while a
\* snapshot decides, nothing.
Served ==
  /\ Serving \in {0, LogicalVersion} /\ LogicalVersion \in 1..MaxVersion
  /\ tx.state \in Restorable => Serving = 0

LEMMA ServedVersion == VInv => Served
<1> SUFFICES ASSUME VInv PROVE Served
  OBVIOUS
<1>1. TypeOK /\ AtStep /\ AtVersion /\ Barred /\ Empty /\ AtLedger
  BY DEF VInv, IInv
<1>2. Serving \in {0, LogicalVersion}
  BY Gate DEF Serving, GateConsistent
<1>3. files.exe \in 1..MaxVersion
  BY <1>1, VersionAssumption DEF TypeOK, Empty, Files, FileNames
<1>4. ASSUME tx.state = "none" PROVE LogicalVersion \in 1..MaxVersion
  BY <1>3, <1>4 DEF LogicalVersion
<1>5. ASSUME tx.state \in Committed PROVE LogicalVersion \in 1..MaxVersion
  BY <1>1, <1>3, <1>5 DEF LogicalVersion, AtVersion, Committed
<1>6. ASSUME tx.state \in {"preparing", "rolled_back"} PROVE LogicalVersion \in 1..MaxVersion
  BY <1>1, <1>3, <1>6 DEF LogicalVersion, AtVersion, Committed
<1>7. ASSUME tx.state \in Restorable PROVE LogicalVersion \in 1..MaxVersion
  <2>2. backup[tx.job].files.exe = tx.old /\ LogicalVersion = tx.old
    BY <1>1, <1>7 DEF AtVersion, LogicalVersion, Restorable, Committed
  <2>3. backup[tx.job].done
    BY <1>7 DEF VInv, IInv, NoAckedWriteLost, SnapshotKept
  <2>4. backup[tx.job].files["exe"] # 0
    BY <1>1, <2>3 DEF Empty, TypeOK
  <2>5. tx.old \in 0..MaxVersion
    BY <1>1 DEF TypeOK
  <2> QED
    BY <2>2, <2>4, <2>5, VersionAssumption
<1> QED
  <2>1. LogicalVersion \in 1..MaxVersion
    BY <1>1, <1>4, <1>5, <1>6, <1>7 DEF TypeOK, States
  <2>2. tx.state \in Restorable => Serving = 0
    BY <1>1 DEF Barred, Serving, GateOpen
  <2> QED
    BY <1>2, <2>1, <2>2 DEF Served

\* The transaction implements AtomicUpgrade: its initial states are initial
\* there, and every step is one of its steps or invisible.
THEOREM ImplementsUpgrade ==
  ASSUME "unreadable" \notin Mishaps
  PROVE  Spec => Refines
<1>1. Init => VInv
  BY VersionInit
<1>2. VInv /\ [Next]_vars => VInv'
  BY VersionNext
<1>3. Init => Upgrades!AInit
  <2> SUFFICES ASSUME Init PROVE Upgrades!AInit
    OBVIOUS
  <2>1. LogicalWrites = {} /\ Served
    BY <1>1, ServedVersion DEF Init, LogicalWrites, Restorable
  <2> QED
    BY <2>1 DEF Served, Upgrades!AInit
<1>4. VInv /\ [Next]_vars => [Upgrades!ANext]_(Upgrades!avars)
  <2> SUFFICES ASSUME VInv, [Next]_vars PROVE [Upgrades!ANext]_(Upgrades!avars)
    OBVIOUS
  <2>1. Served /\ Served'
    <3>1. VInv'
      BY <1>2
    <3> QED
      BY <3>1, ServedVersion, PTL
  <2>4. CASE UNCHANGED Level
    BY <2>1, <2>4 DEF Served, Level, Upgrades!ANext, Upgrades!Open, Upgrades!Suspend, Upgrades!avars
  <2>5. CASE Commits
    <3>1. /\ tx.state \in Restorable /\ tx'.state = "verified" /\ tx'.new = tx.new
          /\ data.writes = backup[tx.job].writes /\ tx.new > tx.old
      BY <2>5 DEF Commits, VInv, IInv, AtStep, AtVersion, AtLedger, LedgerSteps, Snap, Saved,
         OwnSteps, RestorableSteps, Restorable, TypeOK
    <3>2. LogicalVersion = tx.old /\ LogicalVersion' = tx.new /\ UNCHANGED LogicalWrites
      BY <2>5, <3>1 DEF Commits, LogicalVersion, LogicalWrites, Restorable, Committed
    <3>3. Serving = 0 /\ Serving' = 0
      BY <2>1, <2>5, <3>1 DEF Served, Serving, GateOpen, Commits, service
    <3> QED
      BY <2>1, <3>1, <3>2, <3>3 DEF Served, Upgrades!ANext, Upgrades!Upgrade, Upgrades!avars
  <2>6. ASSUME NEW w \in Writes, CommitWrite(w) PROVE Upgrades!Write(w)
    <3>1. tx.state \notin Restorable /\ Serving = svc /\ svc # 0
      BY <2>6 DEF VInv, IInv, Barred, CommitWrite, Serving
    <3>2. UNCHANGED LogicalVersion /\ LogicalWrites' = LogicalWrites \cup {w}
      BY <2>6, <3>1 DEF CommitWrite, LogicalVersion, LogicalWrites, VInv, IInv, TypeOK
    <3> QED
      BY <2>1, <3>1, <3>2 DEF Served, Upgrades!Write
  <2> QED
    BY <2>4, <2>5, <2>6, LevelSteps DEF Upgrades!ANext
<1> QED
  BY <1>1, <1>2, <1>3, <1>4, PTL DEF Spec, Refines, Upgrades!ASpec
-----------------------------------------------------------------------------
(* How such a job was dispatched before, UpdateDispatch: for any jobs and  *)
(* any number of kills, who installs holds the lock and is the one         *)
(* dispatched, and an entry that failed leaves no worker.                  *)

\* Each process that is past the lock and has not let go of it holds it.
Holding ==
  /\ \A j \in JobIds :
       entry[j] \in {"locked", "begun", "spawned", "dispatched", "running"} => lock = Entry(j)
  /\ \A j \in JobIds :
       runner[j] \in {"locked", "taken", "waiting", "running", "ending"} => lock = Runner(j)

\* No worker is older than its entry's decision to start one.
InOrder ==
  \A j \in JobIds :
    entry[j] \in {"idle", "started", "locked", "begun", "running"} => runner[j] = "none"

Taken ==
  \A j \in JobIds : runner[j] \in {"taken", "waiting", "running"} => dispatch = j

DispatchInv == DispatchTypeOK /\ Holding /\ InOrder /\ Taken /\ RefusedNeverRuns

-----------------------------------------------------------------------------
LEMMA LocksDiffer ==
  /\ \A j \in JobIds : Entry(j) # Free /\ Runner(j) # Free
  /\ \A j, k \in JobIds : Entry(j) # Runner(k)
  /\ \A j, k \in JobIds : Entry(j) = Entry(k) => j = k
  /\ \A j, k \in JobIds : Runner(j) = Runner(k) => j = k
BY DEF Entry, Runner, Free

LEMMA DispatchStart ==
  DispatchInit => DispatchInv
BY NoneAssumption DEF DispatchInit, DispatchInv, DispatchTypeOK, Holding, InOrder, Taken, RefusedNeverRuns, EntryStates,
   WorkerStates, Phases, MaybeJobs, Says, WorkerAlive

\* What an entry does.
LEMMA EntryKeeps ==
  ASSUME DispatchInv, NEW j \in JobIds, StartEntry(j) \/ EntryStep(j)
  PROVE  DispatchInv'
<1> USE LocksDiffer DEF DispatchInv, DispatchTypeOK, Holding, InOrder, Taken, RefusedNeverRuns, EntryStates,
        WorkerStates, Phases, MaybeJobs, Says, WorkerAlive, EntryGoes, dispatchFiles, serviceMemory
<1>1. CASE StartEntry(j)
  BY <1>1 DEF StartEntry
<1>2. CASE EntryRefused(j)
  BY <1>2 DEF EntryRefused
<1>3. CASE EntryLock(j)
  BY <1>3 DEF EntryLock
<1>4. CASE EntryIdle(j)
  BY <1>4 DEF EntryIdle
<1>5. CASE EntryBegin(j)
  BY <1>5 DEF EntryBegin
<1>6. CASE EntryChecked(j)
  BY <1>6 DEF EntryChecked
<1>7. CASE EntrySpawn(j)
  BY <1>7 DEF EntrySpawn
<1>8. CASE EntryDispatch(j)
  BY <1>8 DEF EntryDispatch
<1>9. CASE EntryRelease(j)
  BY <1>9 DEF EntryRelease
<1>10. CASE EntryDone(j)
  BY <1>10 DEF EntryDone
<1>11. CASE EntryGiveUp(j)
  BY <1>11 DEF EntryGiveUp, Killed
<1>12. CASE EntryFail(j)
  BY <1>12 DEF EntryFail
<1>13. QED
  BY <1>1, <1>2, <1>3, <1>4, <1>5, <1>6, <1>7, <1>8, <1>9, <1>10, <1>11, <1>12 DEF EntryStep

\* What a worker does.
LEMMA WorkerKeeps ==
  ASSUME DispatchInv, NEW j \in JobIds, WorkerStep(j)
  PROVE  DispatchInv'
<1> USE LocksDiffer DEF DispatchInv, DispatchTypeOK, Holding, InOrder, Taken, RefusedNeverRuns, EntryStates,
        WorkerStates, Phases, MaybeJobs, Says, WorkerAlive, WorkerGoes, Shake, dispatchFiles, serviceMemory
<1>1. CASE WorkerReady(j)
  BY <1>1 DEF WorkerReady
<1>2. CASE WorkerLock(j)
  BY <1>2 DEF WorkerLock
<1>3. CASE WorkerQuit(j)
  BY <1>3 DEF WorkerQuit
<1>4. CASE WorkerTake(j)
  BY <1>4 DEF WorkerTake, Dispatched
<1>5. CASE WorkerRefuse(j)
  BY <1>5 DEF WorkerRefuse
<1>6. CASE WorkerAck(j)
  BY <1>6 DEF WorkerAck
<1>7. CASE WorkerRun(j)
  BY <1>7 DEF WorkerRun
<1>8. CASE WorkerReport(j)
  BY <1>8 DEF WorkerReport
<1>9. CASE WorkerEnd(j)
  BY <1>9 DEF WorkerEnd
<1>10. QED
  BY <1>1, <1>2, <1>3, <1>4, <1>5, <1>6, <1>7, <1>8, <1>9 DEF WorkerStep

\* What the service does, and kills.
LEMMA OthersKeep ==
  ASSUME DispatchInv,
         \/ \E j \in JobIds : Accept(j) \/ Reserve(j) \/ KillEntry(j) \/ KillWorker(j)
         \/ Notice \/ DeclareFailed \/ RestartService
  PROVE  DispatchInv'
<1> USE LocksDiffer DEF DispatchInv, DispatchTypeOK, Holding, InOrder, Taken, RefusedNeverRuns, EntryStates,
        WorkerStates, Phases, MaybeJobs, Says, WorkerAlive, dispatchFiles, serviceMemory
<1>1. ASSUME NEW j \in JobIds, Accept(j) PROVE DispatchInv'
  BY <1>1 DEF Accept
<1>2. ASSUME NEW j \in JobIds, Reserve(j) PROVE DispatchInv'
  BY <1>2 DEF Reserve, EntryGoes
<1>3. ASSUME NEW j \in JobIds, KillEntry(j) PROVE DispatchInv'
  BY <1>3 DEF KillEntry, Freed, EntryAlive
<1>4. ASSUME NEW j \in JobIds, KillWorker(j) PROVE DispatchInv'
  BY <1>4 DEF KillWorker, Freed
<1>5. CASE Notice
  BY <1>5 DEF Notice
<1>6. CASE DeclareFailed
  BY <1>6 DEF DeclareFailed
<1>7. CASE RestartService
  BY <1>7 DEF RestartService
<1>8. QED
  BY <1>1, <1>2, <1>3, <1>4, <1>5, <1>6, <1>7

LEMMA DispatchStep ==
  DispatchInv /\ [DispatchNext]_dispatchVars => DispatchInv'
<1> SUFFICES ASSUME DispatchInv, [DispatchNext]_dispatchVars PROVE DispatchInv'
  OBVIOUS
<1>1. CASE DispatchNext
  BY <1>1, EntryKeeps, WorkerKeeps, OthersKeep DEF DispatchNext
<1>2. CASE UNCHANGED dispatchVars
  BY <1>2 DEF dispatchVars, dispatchFiles, serviceMemory, DispatchInv, DispatchTypeOK, Holding, InOrder, Taken, RefusedNeverRuns,
              WorkerAlive
<1>3. QED
  BY <1>1, <1>2

LEMMA DispatchHolds ==
  DispatchSpec => []DispatchInv
BY DispatchStart, DispatchStep, PTL DEF DispatchSpec

\* Files and processes are in states that main.go and updates.py know.
THEOREM DispatchTyped ==
  DispatchSpec => []DispatchTypeOK
<1>1. DispatchInv => DispatchTypeOK
  BY DEF DispatchInv
<1>2. QED
  BY <1>1, DispatchHolds, PTL

\* Who installs or checks holds the lock, alone, and is the one that dispatch.json names
\* (runWorker), for any number of jobs, started by anybody, and of processes killed.
THEOREM RunnersDispatched ==
  DispatchSpec => []RunnerIsDispatched
<1>1. DispatchInv => RunnerIsDispatched
  BY DEF DispatchInv, Holding, Taken, RunnerIsDispatched
<1>2. QED
  BY <1>1, DispatchHolds, PTL

\* An entry that gives up, or never came to start one, leaves no worker (bootstrap).
THEOREM RefusedLeaveNobody ==
  DispatchSpec => []RefusedNeverRuns
<1>1. DispatchInv => RefusedNeverRuns
  BY DEF DispatchInv
<1>2. QED
  BY <1>1, DispatchHolds, PTL
=============================================================================
