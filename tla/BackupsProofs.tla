--------------------------- MODULE BackupsProofs ---------------------------
(***************************************************************************)
(* For any jobs, clock, retention, faults, crashes and damage: a success   *)
(* has its backup until retention removes it, only a success is told, and  *)
(* retention leaves two backups that verify and are newer than any it      *)
(* removes.                                                                *)
(***************************************************************************)
EXTENDS Backups, SumTheorems

\* The steps of a job from the lock to its release.
Held == {"insert", "stage", "publish", "record", "failed", "undo", "prune", "report"}

Locked == \A j \in Jobs : pc[j] \in Held => lock = j

\* What is recorded and told, by the step a job is at. A run is a success from
\* the step after its record on; what "late" and "report" pass on is a success.
Begun == {"idle", "wait", "insert", "stage", "publish", "record", "failed"}

Recorded ==
  \A j \in Jobs :
    /\ run[j] = "success" => pc[j] \notin Begun
    /\ pc[j] \in {"prune", "report", "late"} => run[j] = "success"

\* Until the record is settled the backup is there.
Published == \A j \in Jobs : pc[j] \in {"record", "undo"} => Own(j) # {}

\* Who is told, or will be, has a job that ended as a success.
Tellable(j) == j \in told \/ j \in unrecorded \/ task[j] = "success"
Told == \A j \in Jobs : Tellable(j) => run[j] = "success" /\ pc[j] \in {"close", "done"}

IInv == TypeOK /\ Locked /\ Recorded /\ Published /\ Told /\ SuccessHasBackup

-----------------------------------------------------------------------------
LEMMA Start ==
  Init => IInv
<1> SUFFICES ASSUME Init PROVE IInv
  OBVIOUS
<1>1. disk \subseteq Backup
  <2>1. PICK old \in SUBSET OldTimes :
          disk = {[by |-> Earlier, at |-> t, ok |-> TRUE] : t \in old}
    BY DEF Init
  <2>2. \A t \in old : [by |-> Earlier, at |-> t, ok |-> TRUE] \in Backup
    BY TimesAssumption DEF Backup
  <2>3. QED
    BY <2>1, <2>2
<1>2. at \in [Jobs -> Times]
  BY TimesAssumption DEF Init
<1>3. TypeOK
  BY <1>1, <1>2 DEF Init, TypeOK, RunStates, TaskStates, Steps
<1>4. Locked /\ Recorded /\ Published /\ Told /\ SuccessHasBackup
  BY DEF Init, Locked, Recorded, Published, Told, Tellable, SuccessHasBackup, Held, Begun
<1>5. QED
  BY <1>3, <1>4 DEF IInv

\* Requests to start, and questions: no run and no backup changes.
LEMMA AsksKeep ==
  ASSUME IInv, NEW j \in Jobs, StartTask(j) \/ StartTaskFails(j) \/ Call(j) \/ Ask(j)
  PROVE  IInv'
<1> USE DEF IInv, TypeOK, Locked, Recorded, Published, Told, Tellable, SuccessHasBackup, Own,
        RunStates, TaskStates, Steps, Held, Begun, Goto, Fault, NoFault, Active,
        stored, memory, history, counters
<1>1. CASE StartTask(j)
  BY <1>1 DEF StartTask
<1>2. CASE StartTaskFails(j)
  BY <1>2 DEF StartTaskFails
<1>3. CASE Call(j)
  BY <1>3 DEF Call
<1>4. CASE AskUnrecorded(j)
  BY <1>4 DEF AskUnrecorded
<1>5. CASE AskStopped(j)
  BY <1>5 DEF AskStopped
<1>6. CASE AskFinished(j)
  BY <1>6 DEF AskFinished
<1>7. QED
  BY <1>1, <1>2, <1>3, <1>4, <1>5, <1>6 DEF Ask

\* Up to the stage nothing is published.
LEMMA FirstStepsKeep ==
  ASSUME IInv, NEW j \in Jobs,
         Acquire(j) \/ InsertRun(j) \/ Stage(j) \/ HandleUnpublished(j)
  PROVE  IInv'
<1> USE JobsAssumption
        DEF IInv, TypeOK, Locked, Recorded, Published, Told, Tellable, SuccessHasBackup, Own,
        RunStates, TaskStates, Steps, Held, Begun, Goto, Fault, NoFault, Rest, Ended,
        stored, memory, history, counters
<1>1. CASE Acquire(j)
  BY <1>1 DEF Acquire
<1>2. CASE InsertRun(j)
  BY <1>2 DEF InsertRun
<1>3. CASE Stage(j)
  BY <1>3 DEF Stage
<1>4. CASE HandleUnpublished(j)
  BY <1>4 DEF HandleUnpublished
<1>5. QED
  BY <1>1, <1>2, <1>3, <1>4

\* A job that publishes and records: its backup is there when it records.
LEMMA PublishKeeps ==
  ASSUME IInv, NEW j \in Jobs, Publish(j)
  PROVE  IInv'
<1>1. /\ pc[j] = "publish" /\ lock = j /\ run[j] # "success" /\ ~Tellable(j)
      /\ Made(j) \in Backup /\ Made(j).by = j
  BY DEF IInv, TypeOK, Locked, Recorded, Told, Publish, Held, Begun, Made, Backup
<1>2. /\ disk' \in {disk, disk \cup {Made(j)}} /\ disk \subseteq disk'
      /\ stages' \subseteq stages
      /\ pc' = [pc EXCEPT ![j] = "record"] \/ pc' = [pc EXCEPT ![j] = "failed"]
      /\ pc'[j] = "record" => disk' = disk \cup {Made(j)}
      /\ UNCHANGED <<run, task, up, at, kind, lock, live, unrecorded, pruned, told>>
  BY <1>1 DEF IInv, TypeOK, Publish, Goto, Rest
<1>3. \A k \in Jobs : Own(k) \subseteq Own(k)'
  BY <1>2 DEF Own
<1>4. pc'[j] = "record" => Made(j) \in Own(j)'
  BY <1>1, <1>2 DEF Own
<1>5. TypeOK'
  BY <1>1, <1>2 DEF IInv, TypeOK, Steps
<1>6. Locked' /\ Recorded' /\ Told'
  BY <1>1, <1>2 DEF IInv, TypeOK, Locked, Recorded, Told, Tellable, Held, Begun
<1>7. Published'
  BY <1>1, <1>2, <1>3, <1>4 DEF IInv, TypeOK, Published
<1>8. SuccessHasBackup'
  BY <1>2, <1>3 DEF IInv, SuccessHasBackup
<1>9. QED
  BY <1>5, <1>6, <1>7, <1>8 DEF IInv

LEMMA RecordKeeps ==
  ASSUME IInv, NEW j \in Jobs, RecordSuccess(j)
  PROVE  IInv'
<1>1. /\ pc[j] = "record" /\ lock = j /\ ~Tellable(j) /\ Own(j) # {}
  BY DEF IInv, Locked, Told, Published, RecordSuccess, Held
<1>2. /\ run' \in {run, [run EXCEPT ![j] = "success"]}
      /\ pc' = [pc EXCEPT ![j] = "prune"] \/ pc' = [pc EXCEPT ![j] = "undo"]
      /\ pc'[j] = "prune" => run' = [run EXCEPT ![j] = "success"]
      /\ UNCHANGED <<disk, stages, task, up, at, kind, lock, live, unrecorded, pruned, told>>
  BY <1>1 DEF IInv, TypeOK, RecordSuccess, Goto, Rest
<1>3. \A k \in Jobs : Own(k)' = Own(k)
  BY <1>2 DEF Own
<1>4. TypeOK'
  BY <1>1, <1>2 DEF IInv, TypeOK, Steps, RunStates
<1>5. Locked' /\ Recorded' /\ Told'
  BY <1>1, <1>2 DEF IInv, TypeOK, Locked, Recorded, Told, Tellable, Held, Begun
<1>6. Published'
  BY <1>1, <1>2, <1>3 DEF IInv, TypeOK, Published
<1>7. SuccessHasBackup'
  BY <1>1, <1>2, <1>3 DEF IInv, TypeOK, SuccessHasBackup
<1>8. QED
  BY <1>4, <1>5, <1>6, <1>7 DEF IInv

\* A job whose record failed: what it removes is its own, and its run is then
\* recorded as failed.
LEMMA HandlePublishedKeeps ==
  ASSUME IInv, NEW j \in Jobs, HandlePublished(j)
  PROVE  IInv'
<1>1. pc[j] = "undo" /\ lock = j /\ ~Tellable(j)
  BY DEF IInv, Locked, Told, HandlePublished, Held
<1>2. /\ run' \in {run, [run EXCEPT ![j] = "failed"]}
      /\ disk' \in {disk, disk \ Own(j)}
      /\ disk' = disk \ Own(j) /\ disk' # disk => run'[j] = "failed"
      /\ lock' = NoJob
      /\ pc' = [pc EXCEPT ![j] = "tell"] \/ pc' = [pc EXCEPT ![j] = "done"]
      /\ UNCHANGED <<stages, task, up, at, kind, live, unrecorded, pruned, told>>
  BY <1>1 DEF IInv, TypeOK, HandlePublished, Ended, Goto, Rest
<1>3. \A k \in Jobs : k # j => Own(k)' = Own(k)
  BY <1>2 DEF Own
<1>4. run'[j] = "success" => run[j] = "success" /\ disk' = disk
  BY <1>2 DEF IInv, TypeOK
<1>5. TypeOK'
  BY <1>1, <1>2 DEF IInv, TypeOK, Steps, RunStates
<1>6. Locked' /\ Recorded' /\ Told'
  BY <1>1, <1>2, JobsAssumption
     DEF IInv, TypeOK, Locked, Recorded, Told, Tellable, Held, Begun, NoJob
<1>7. Published'
  BY <1>1, <1>2, <1>3 DEF IInv, TypeOK, Published
<1>8. SuccessHasBackup'
  <2> SUFFICES ASSUME NEW k \in Jobs
               PROVE  /\ run'[k] = "success" => k \in pruned' \/ Own(k)' # {}
                      /\ k \in told' => run'[k] = "success"
    BY DEF SuccessHasBackup
  <2>1. CASE k = j
    BY <1>1, <1>2, <1>4, <2>1 DEF IInv, SuccessHasBackup, Own, Tellable
  <2>2. CASE k # j
    BY <1>2, <1>3, <2>2 DEF IInv, TypeOK, SuccessHasBackup
  <2>3. QED
    BY <2>1, <2>2
<1>9. QED
  BY <1>5, <1>6, <1>7, <1>8 DEF IInv

\* A backup that retention removes is named in pruned; the rest stay.
LEMMA PruneKeeps ==
  ASSUME IInv, NEW j \in Jobs, Prune(j)
  PROVE  IInv'
<1>1. pc[j] = "prune" /\ lock = j /\ run[j] = "success" /\ ~Tellable(j)
  BY DEF IInv, Locked, Recorded, Told, Prune, Held
<1>2. /\ pc' = [pc EXCEPT ![j] = "report"]
      /\ pruned' = pruned \cup ({b.by : b \in disk \ disk'} \ {Earlier})
      /\ UNCHANGED <<run, stages, task, up, at, kind, lock, live, unrecorded, told>>
  BY DEF Prune, Goto, Rest
<1>3. Expired(at[j]) \subseteq disk
  BY DEF Expired
<1>4. disk' \subseteq Backup
  <2>1. \A b \in disk, half \in BOOLEAN : [b EXCEPT !.ok = ~half] \in Backup
    BY DEF IInv, TypeOK, Backup
  <2>2. QED
    BY <1>3, <2>1 DEF IInv, TypeOK, Prune
<1>5. \A k \in Jobs : Own(k) # {} => Own(k)' # {} \/ k \in pruned'
  <2> SUFFICES ASSUME NEW k \in Jobs, NEW b \in disk, b.by = k, b \notin disk'
               PROVE  k \in pruned'
    BY DEF Own
  <2>1. QED
    BY <1>2, JobsAssumption
<1>6. TypeOK'
  <2>1. {b.by : b \in disk \ disk'} \ {Earlier} \subseteq Jobs
    BY DEF IInv, TypeOK, Backup
  <2>2. QED
    BY <1>1, <1>2, <1>4, <2>1 DEF IInv, TypeOK, Steps
<1>7. Locked' /\ Recorded' /\ Told'
  BY <1>1, <1>2 DEF IInv, TypeOK, Locked, Recorded, Told, Tellable, Held, Begun
<1>8. Published'
  BY <1>1, <1>2 DEF IInv, TypeOK, Locked, Published, Held
<1>9. SuccessHasBackup'
  BY <1>2, <1>5 DEF IInv, SuccessHasBackup
<1>10. QED
  BY <1>6, <1>7, <1>8, <1>9 DEF IInv

\* How a job ends: the run and the backups are settled.
LEMMA LastStepsKeep ==
  ASSUME IInv, NEW j \in Jobs, Report(j) \/ KeepUnrecorded(j) \/ TellFailed(j) \/ Close(j)
  PROVE  IInv'
<1> USE JobsAssumption
        DEF IInv, TypeOK, Locked, Recorded, Published, Told, Tellable, SuccessHasBackup, Own,
        RunStates, TaskStates, Steps, Held, Begun, Goto, Fault, NoFault,
        stored, memory, history, counters
<1>1. CASE Report(j)
  BY <1>1 DEF Report
<1>2. CASE KeepUnrecorded(j)
  BY <1>2 DEF KeepUnrecorded
<1>3. CASE TellFailed(j)
  BY <1>3 DEF TellFailed
<1>4. CASE Close(j)
  BY <1>4 DEF Close
<1>5. QED
  BY <1>1, <1>2, <1>3, <1>4

\* Deaths, restarts and damage: a success stays recorded, a backup stays its job's.
LEMMA WorldKeeps ==
  ASSUME IInv, Crash \/ Restart \/ Damage
  PROVE  IInv'
<1>1. CASE Crash
  BY <1>1 DEF Crash, IInv, TypeOK, Locked, Recorded, Published, Told, Tellable,
     SuccessHasBackup, Own, Steps, Held, Begun, stored, history
<1>2. CASE Restart
  BY <1>2 DEF Restart, IInv, TypeOK, Locked, Recorded, Published, Told, Tellable,
     SuccessHasBackup, Own, RunStates, TaskStates, memory, history, counters
<1>3. CASE Damage
  <2>1. PICK b \in disk : b.ok /\ disk' = (disk \ {b}) \cup {[b EXCEPT !.ok = FALSE]}
    BY <1>3 DEF Damage
  <2>2. /\ [b EXCEPT !.ok = FALSE] \in Backup /\ [b EXCEPT !.ok = FALSE].by = b.by
    BY <2>1 DEF IInv, TypeOK, Backup
  <2>3. UNCHANGED <<run, task, stages, up, memory, history>>
    BY <1>3 DEF Damage
  <2>4. TypeOK'
    BY <2>1, <2>2, <2>3 DEF IInv, TypeOK, memory, history
  <2>5. \A k \in Jobs : Own(k) # {} => Own(k)' # {}
    BY <2>1, <2>2 DEF Own
  <2>6. Locked' /\ Recorded' /\ Told'
    BY <2>3 DEF IInv, Locked, Recorded, Told, Tellable, memory, history
  <2>7. Published' /\ SuccessHasBackup'
    BY <2>3, <2>5 DEF IInv, Published, SuccessHasBackup, memory, history
  <2>8. QED
    BY <2>4, <2>6, <2>7 DEF IInv
<1>4. QED
  BY <1>1, <1>2, <1>3

LEMMA StepKeeps ==
  IInv /\ [Next]_vars => IInv'
<1> SUFFICES ASSUME IInv, [Next]_vars
             PROVE  IInv'
  OBVIOUS
<1>1. CASE UNCHANGED vars
  BY <1>1 DEF vars, stored, memory, history, counters, IInv, TypeOK, Locked, Recorded,
     Published, Told, Tellable, SuccessHasBackup, Own
<1>2. ASSUME NEW j \in Jobs, Work(j) PROVE IInv'
  BY <1>2, FirstStepsKeep, PublishKeeps, RecordKeeps, HandlePublishedKeeps, PruneKeeps,
     LastStepsKeep DEF Work
<1>3. QED
  BY <1>1, <1>2, AsksKeep, WorldKeeps DEF Next

LEMMA Invariance ==
  Spec => []IInv
BY Start, StepKeeps, PTL DEF Spec

\* Every variable of a backup's life keeps its type.
THEOREM TypeCorrect ==
  Spec => []TypeOK
<1>1. IInv => TypeOK
  BY DEF IInv
<1>2. QED
  BY Invariance, <1>1, PTL

\* A run recorded as a success (backup_runs) has its backup on the disk until
\* retention removes it, and only of such a run is its owner told a success.
THEOREM BackedUp ==
  Spec => []SuccessHasBackup
<1>1. IInv => SuccessHasBackup
  BY DEF IInv
<1>2. QED
  BY Invariance, <1>1, PTL

-----------------------------------------------------------------------------
(* Retention.  The newest backup that verifies has none newer, the next    *)
(* has one: neither is expired.  There is a newest, since the backups are  *)
(* finitely many.                                                          *)

\* A finite set of backups that is not empty has a newest.
LEMMA NewestExists ==
  ASSUME NEW S \in SUBSET Backup, IsFiniteSet(S), S # {}
  PROVE  \E b \in S : \A c \in S : c.at <= b.at
<1> DEFINE A == {T \in SUBSET S : T = {} \/ \E b \in T : \A c \in T : c.at <= b.at}
<1>1. \A b \in S : b.at \in Nat
  BY TimesAssumption DEF Backup
<1>2. {} \in A
  OBVIOUS
<1>3. ASSUME NEW T \in SUBSET S, NEW x \in S, x \notin T, T \in A
      PROVE  T \cup {x} \in A
  <2>1. CASE T = {}
    BY <1>1, <2>1
  <2>2. CASE T # {}
    <3>1. PICK b \in T : \A c \in T : c.at <= b.at
      BY <1>3, <2>2
    <3>2. CASE x.at <= b.at
      BY <3>1, <3>2
    <3>3. CASE ~(x.at <= b.at)
      <4>1. \A c \in T \cup {x} : c.at <= x.at
        BY <1>1, <3>1, <3>3
      <4>2. QED
        BY <4>1
    <3>4. QED
      BY <3>2, <3>3
  <2>3. QED
    BY <2>1, <2>2
<1> HIDE DEF A
<1>4. S \in A
  BY <1>2, <1>3, FiniteSetInduction
<1>5. QED
  BY <1>4 DEF A

\* Sets of at most one and of at least two.
LEMMA Counting ==
  ASSUME NEW S, IsFiniteSet(S), NEW x, NEW y \in S
  PROVE  /\ S \subseteq {x} => Cardinality(S) < 2
         /\ x \in S /\ x # y => Cardinality(S) >= 2
         /\ Cardinality(S) >= 2 => S \ {x} # {}
<1>1. IsFiniteSet({x}) /\ Cardinality({x}) = 1
  BY FS_Singleton
<1>2. Cardinality(S) \in Nat
  BY FS_CardinalityType
<1>3. ASSUME S \subseteq {x} PROVE Cardinality(S) <= 1
  BY <1>1, <1>3, FS_Subset
<1>4. ASSUME x \in S, x # y PROVE Cardinality(S) >= 2
  <2>1. Cardinality({x} \cup {y}) = 2
    BY <1>1, <1>4, FS_AddElement
  <2>2. {x} \cup {y} \subseteq S
    BY <1>4
  <2>3. Cardinality({x} \cup {y}) <= Cardinality(S)
    BY <2>2, FS_Subset
  <2>4. QED
    BY <1>2, <2>1, <2>3
<1>5. QED
  BY <1>2, <1>3, <1>4

\* Every expired backup has two newer ones that verify and are not expired.
LEMMA TwoStay ==
  ASSUME disk \subseteq Backup, IsFiniteSet(disk), NEW now, NEW b \in Expired(now)
  PROVE  \E c, d \in Newer(b) : c # d /\ c \notin Expired(now) /\ d \notin Expired(now)
<1>1. b \in disk /\ Cardinality(Newer(b)) >= 2
  BY DEF Expired
<1>2. \A x \in disk : x.at \in Nat /\ Newer(x) \subseteq disk /\ IsFiniteSet(Newer(x))
  BY TimesAssumption, FS_Subset DEF Backup, Newer
<1>3. Newer(b) # {}
  BY <1>1, FS_EmptySet
<1>4. PICK c \in Newer(b) : \A x \in Newer(b) : x.at <= c.at
  BY <1>1, <1>2, <1>3, NewestExists
<1>5. Newer(b) \ {c} # {} /\ IsFiniteSet(Newer(b) \ {c})
  BY <1>1, <1>2, <1>4, Counting, FS_Subset
<1>6. PICK d \in Newer(b) \ {c} : \A x \in Newer(b) \ {c} : x.at <= d.at
  BY <1>1, <1>2, <1>5, NewestExists
<1>7. c \in disk /\ d \in disk /\ c.at > b.at /\ d.at > b.at
  BY <1>4, <1>6 DEF Newer
<1>8. Newer(c) = {}
  <2> SUFFICES ASSUME NEW x \in disk, x.ok, x.at > c.at PROVE FALSE
    BY DEF Newer
  <2>1. b.at \in Nat /\ c.at \in Nat /\ x.at \in Nat
    BY <1>1, <1>2, <1>7
  <2>2. x \in Newer(b)
    BY <1>7, <2>1 DEF Newer
  <2>3. QED
    BY <1>4, <2>1, <2>2
<1>9. Newer(d) \subseteq {c}
  <2> SUFFICES ASSUME NEW x \in disk, x.ok, x.at > d.at, x # c PROVE FALSE
    BY DEF Newer
  <2>1. b.at \in Nat /\ d.at \in Nat /\ x.at \in Nat
    BY <1>1, <1>2, <1>7
  <2>2. x \in Newer(b) \ {c}
    BY <1>7, <2>1 DEF Newer
  <2>3. QED
    BY <1>6, <2>1, <2>2
<1>10. ASSUME NEW x \in {c, d} PROVE x \notin Expired(now)
  <2>1. Cardinality(Newer(x)) < 2
    <3>1. CASE Newer(x) = {}
      BY <3>1, FS_EmptySet
    <3>2. CASE Newer(x) # {}
      BY <1>2, <1>7, <1>8, <1>9, <1>10, <3>2, Counting
    <3>3. QED
      BY <3>1, <3>2
  <2>2. Cardinality(Newer(x)) \in Nat
    BY <1>2, <1>7, <1>10, FS_CardinalityType
  <2>3. QED
    BY <2>1, <2>2 DEF Expired
<1>11. QED
  BY <1>6, <1>10

\* Backups are finitely many.
LEMMA FiniteStart == Init => IsFiniteSet(disk)
<1> SUFFICES ASSUME Init PROVE IsFiniteSet(disk)
  OBVIOUS
<1>1. PICK old \in SUBSET OldTimes :
        disk = {[by |-> Earlier, at |-> t, ok |-> TRUE] : t \in old}
  BY DEF Init
<1>2. IsFiniteSet(old)
  BY TimesAssumption, FS_Subset
<1> DEFINE made == [t \in old |-> [by |-> Earlier, at |-> t, ok |-> TRUE]]
<1>3. made \in Surjection(old, disk)
  BY <1>1 DEF Surjection
<1>4. QED
  BY <1>2, <1>3, FS_Surjection

\* A step adds at most one backup, or changes nothing else of the disk.
LEMMA FiniteStep ==
  ASSUME IsFiniteSet(disk), [Next]_vars
  PROVE  IsFiniteSet(disk')
<1>1. \E x : disk' \subseteq disk \cup {x}
  <2>1. CASE \E j \in Jobs : Publish(j)
    BY <2>1 DEF Publish
  <2>2. CASE \E j \in Jobs : Prune(j)
    BY <2>2 DEF Prune
  <2>3. CASE \E j \in Jobs : HandlePublished(j)
    BY <2>3 DEF HandlePublished
  <2>4. CASE Damage
    BY <2>4 DEF Damage
  <2>5. CASE disk' = disk
    BY <2>5
  <2>6. QED
    BY <2>1, <2>2, <2>3, <2>4, <2>5
       DEF Next, Work, Ask, vars, stored, Rest, StartTask, StartTaskFails, Call, Acquire, InsertRun, Stage,
           RecordSuccess, HandleUnpublished, Report, KeepUnrecorded, TellFailed, Close,
           AskUnrecorded, AskStopped, AskFinished, Crash, Restart
<1>2. PICK x : disk' \subseteq disk \cup {x}
  BY <1>1
<1>3. IsFiniteSet(disk \cup {x})
  BY FS_AddElement
<1>4. QED
  BY <1>2, <1>3, FS_Subset

\* What a step may take from the disk: a backup of a run that is a failure
\* then, one that is damaged, or one that expired.
LEMMA RemovedBackups ==
  ASSUME IInv, [Next]_vars, NEW b \in disk \ disk'
  PROVE  \/ [b EXCEPT !.ok = FALSE] \in disk'
         \/ b.by \in Jobs /\ run'[b.by] = "failed"
         \/ \E now : b \in Expired(now) /\ disk \ Expired(now) \subseteq disk'
<1>1. CASE \E j \in Jobs : Prune(j)
  <2>1. PICK j \in Jobs : Prune(j)
    BY <1>1
  <2>2. b \in Expired(at[j]) /\ disk \ Expired(at[j]) \subseteq disk'
    BY <2>1 DEF Prune
  <2>3. QED
    BY <2>2
<1>2. CASE \E j \in Jobs : HandlePublished(j)
  <2>1. PICK j \in Jobs : HandlePublished(j)
    BY <1>2
  <2>2. disk' = disk \ Own(j) /\ run' = [run EXCEPT ![j] = "failed"]
    BY <2>1 DEF HandlePublished
  <2>3. b.by = j
    BY <2>2 DEF Own
  <2>4. QED
    BY <2>2, <2>3 DEF IInv, TypeOK
<1>3. CASE Damage
  BY <1>3 DEF Damage
<1>4. CASE \E j \in Jobs : Publish(j)
  BY <1>4 DEF Publish
<1>5. CASE disk' = disk
  BY <1>5
<1>6. QED
  BY <1>1, <1>2, <1>3, <1>4, <1>5
     DEF Next, Work, Ask, vars, stored, Rest, StartTask, StartTaskFails, Call, Acquire, InsertRun, Stage,
         RecordSuccess, HandleUnpublished, Report, KeepUnrecorded, TellFailed, Close,
         AskUnrecorded, AskStopped, AskFinished, Crash, Restart

\* A backup that verifies is removed only when two newer ones verify and stay
\* (prune_backups), or by the job that made it and recorded it as failed
\* (_handle_failed_creation), whatever fails while pruning.
THEOREM NewestKept ==
  Spec => TwoNewestKept
<1>1. IInv /\ IsFiniteSet(disk) /\ [Next]_vars =>
        [\A b \in disk \ disk' :
           \/ ~b.ok \/ (b \notin disk' /\ [b EXCEPT !.ok = FALSE] \in disk')
           \/ b.by \in Jobs /\ run'[b.by] = "failed"
           \/ Cardinality({c \in disk' : c.ok /\ c.at > b.at}) >= 2]_vars
  <2> SUFFICES ASSUME IInv, IsFiniteSet(disk), [Next]_vars, NEW b \in disk \ disk',
                      NEW now, b \in Expired(now), disk \ Expired(now) \subseteq disk'
               PROVE  Cardinality({c \in disk' : c.ok /\ c.at > b.at}) >= 2
    BY RemovedBackups
  <2> DEFINE N == {c \in disk' : c.ok /\ c.at > b.at}
  <2>1. PICK c, d \in Newer(b) : c # d /\ c \notin Expired(now) /\ d \notin Expired(now)
    BY TwoStay DEF IInv, TypeOK
  <2>2. c \in N /\ d \in N
    BY <2>1 DEF Newer
  <2>3. IsFiniteSet(N)
    BY FiniteStep, FS_Subset
  <2> HIDE DEF N
  <2>4. Cardinality(N) >= 2
    BY <2>1, <2>2, <2>3, Counting
  <2>5. QED
    BY <2>4 DEF N
<1>2. IsFiniteSet(disk) /\ [Next]_vars => IsFiniteSet(disk)'
  BY FiniteStep
<1>3. QED
  BY <1>1, <1>2, FiniteStart, Invariance, PTL DEF Spec, TwoNewestKept
=============================================================================
