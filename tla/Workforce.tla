------------------------------ MODULE Workforce ------------------------------
(***************************************************************************)
(* Workers, their assignments to projects and the labor entries recorded   *)
(* under them (features/workforce.py).                                     *)
(*                                                                         *)
(* Every handler is one immediate transaction: an action is a handler that *)
(* succeeds, one that is refused, for a stale revision too, changes        *)
(* nothing.  The unique indexes and triggers of migration 021 are no       *)
(* guards here: the properties say that no handler runs into them.         *)
(***************************************************************************)
EXTENDS Integers, FiniteSetsExt, SequencesExt

CONSTANTS
  Projects, Workers, Assignments,
  Days,              \* of the calendar, numbered
  AssignmentForms,   \* the requests of an instance: project, worker, from, to and pay
  Targets,           \* of an assignment; where its status goes;
  LeaveForms,        \* worker and day of a deactivation;
  Works,             \* what is recorded of a day: day, unit and quantity
  MaxLabor           \* bound of an instance

Forever == 99999     \* 9999-12-31, for an assignment without an end
Unset == 0           \* NULL as a day or as the number of an entry
ASSUME AssignmentsAssumption == IsFiniteSet(Assignments)
ASSUME DaysAssumption == Days \subseteq 1 .. Forever - 1
ASSUME FormsAssumption ==
  AssignmentForms \subseteq
    [project : Projects, worker : Workers, from : Days, to : Days \cup {Forever},
     pay : [basis : {"daily", "hourly"}, rate : Nat]]
ASSUME LeavesAssumption == LeaveForms \subseteq [worker : Workers, day : Days]
ASSUME WorksAssumption ==
  Works \subseteq [day : Days, unit : {"daily", "hourly", "away"}, quantity : Nat]

VARIABLES
  open,        \* the projects that are active, not archived
  inactive,    \* workers.inactive_on; Unset while the worker is active
  assignment,  \* crew_assignments
  labor        \* labor_entries, in the order of their ids

vars == <<open, inactive, assignment, labor>>

NoAssignment == [status |-> "none"]
Assigned(form, status) ==
  [project |-> form.project, worker |-> form.worker, from |-> form.from, to |-> form.to,
   pay |-> form.pay, status |-> status]

Init ==
  /\ open = Projects
  /\ inactive = [w \in Workers |-> Unset]
  /\ assignment = [a \in Assignments |-> NoAssignment]
  /\ labor = <<>>

-----------------------------------------------------------------------------
(* Projects and workers.                                                   *)

CloseProject(p) ==
  /\ p \in open /\ open' = open \ {p}
  /\ UNCHANGED <<inactive, assignment, labor>>

RestoreProject(p) ==
  /\ p \notin open /\ open' = open \cup {p}
  /\ UNCHANGED <<inactive, assignment, labor>>

DeactivateWorker(form) ==
  /\ inactive[form.worker] = Unset
  /\ inactive' = [inactive EXCEPT ![form.worker] = form.day]
  /\ UNCHANGED <<open, assignment, labor>>

ReactivateWorker(w) ==
  /\ inactive[w] # Unset
  /\ inactive' = [inactive EXCEPT ![w] = Unset]
  /\ UNCHANGED <<open, assignment, labor>>

-----------------------------------------------------------------------------
(* Assignments.                                                            *)

Current == {"planned", "active"}
InForce == {a \in Assignments : assignment[a].status \in Current /\ assignment[a].project \in open}
Overlap(x, y) == x.worker = y.worker /\ x.from <= y.to /\ y.from <= x.to

ScheduleAvailable(form, others) == \A a \in InForce \cap others : ~Overlap(assignment[a], form)

CreateAssignment(a, form) ==
  /\ assignment[a].status = "none"
  /\ form.project \in open /\ inactive[form.worker] = Unset
  /\ ScheduleAvailable(form, Assignments)
  /\ assignment' = [assignment EXCEPT ![a] = Assigned(form, "planned")]
  /\ UNCHANGED <<open, inactive, labor>>

\* The worker may change too, and then has to be active.
UpdateAssignment(a, form) ==
  /\ assignment[a].status \in Current
  /\ form.project = assignment[a].project /\ form.project \in open
  /\ form.worker # assignment[a].worker => inactive[form.worker] = Unset
  /\ ScheduleAvailable(form, Assignments \ {a})
  /\ assignment' = [assignment EXCEPT ![a] = Assigned(form, @.status)]
  /\ UNCHANGED <<open, inactive, labor>>

Transitions ==
  {<<"planned", "active">>, <<"planned", "completed">>, <<"planned", "cancelled">>,
   <<"active", "completed">>, <<"active", "cancelled">>}

TransitionAssignment(a, status) ==
  /\ <<assignment[a].status, status>> \in Transitions /\ assignment[a].project \in open
  /\ assignment' = [assignment EXCEPT ![a].status = status]
  /\ UNCHANGED <<open, inactive, labor>>

-----------------------------------------------------------------------------
(* Labor entries.                                                          *)

\* Work is [day, unit, quantity]: thousandths of a day, minutes, or away.
Payable(pay, work) == work.unit \in {pay.basis, "away"}
Cost(pay, work) ==
  CASE work.unit = "away" -> 0
    [] work.unit = "daily" -> (pay.rate * work.quantity + 500) \div 1000
    [] work.unit = "hourly" -> (pay.rate * work.quantity + 30) \div 60

Entry(a, pay, work, replaces) ==
  [project |-> assignment[a].project, assignment |-> a, worker |-> assignment[a].worker,
   pay |-> pay, work |-> work, cost |-> Cost(pay, work), active |-> TRUE, replaces |-> replaces]
Day(e) == labor[e].work.day

ForLabor(a) == assignment[a].status \notin {"none", "cancelled"}
Available(w, day) == inactive[w] = Unset \/ day < inactive[w]

OfAssignment(a, day) ==
  {e \in DOMAIN labor : labor[e].active /\ labor[e].assignment = a /\ Day(e) = day}
OfWorker(p, w, day) ==
  {e \in DOMAIN labor : labor[e].project = p /\ labor[e].worker = w /\ Day(e) = day}
ActiveOf(p, w, day) == {e \in OfWorker(p, w, day) : labor[e].active}

\* Mutation: only the worker's day is looked at.
WorkerSlotFree(a, day, except) ==
  ActiveOf(assignment[a].project, assignment[a].worker, day) \subseteq except

SlotFree(a, day, except) ==
  /\ OfAssignment(a, day) \subseteq except
  /\ ActiveOf(assignment[a].project, assignment[a].worker, day) \subseteq except

\* The voided entry that a new one for the assignment and day replaces, the latest one.
Replaced(a, day) ==
  LET voided == {e \in OfWorker(assignment[a].project, assignment[a].worker, day) : ~labor[e].active}
  IN IF voided = {} THEN Unset ELSE Max(voided)

\* Mutation: a replacement is paid as the assignment says now.
PaidAnew(a, e) ==
  IF e # Unset /\ labor[e].active THEN labor[e].pay ELSE assignment[a].pay

\* What is replaced or overwritten keeps its pay; new work is paid as the assignment says.
PayOf(a, e) == IF e = Unset THEN assignment[a].pay ELSE labor[e].pay

CreateLabor(a, work) ==
  LET old == Replaced(a, work.day)
      pay == PayOf(a, old)
  IN
  /\ ForLabor(a) /\ assignment[a].project \in open
  /\ Available(assignment[a].worker, work.day) /\ SlotFree(a, work.day, {})
  /\ Payable(pay, work) /\ Len(labor) < MaxLabor
  /\ labor' = Append(labor, Entry(a, pay, work, old))
  /\ UNCHANGED <<open, inactive, assignment>>

\* Mutation: a replacement may move like any other entry.
AnyIdentity(e, a, day) == TRUE

SameIdentity(e, a, day) ==
  labor[e].replaces # Unset =>
    /\ labor[e].assignment = a /\ labor[e].worker = assignment[a].worker /\ Day(e) = day

\* Mutation: a corrected entry is paid anew.
SnapshotAnew(e, a) == assignment[a].pay

Snapshot(e, a) == IF labor[e].assignment = a THEN labor[e].pay ELSE assignment[a].pay

\* An archived project takes corrections.
UpdateLabor(e, a, work) ==
  LET pay == Snapshot(e, a) IN
  /\ labor[e].active
  /\ ForLabor(a) /\ assignment[a].project = labor[e].project
  /\ SameIdentity(e, a, work.day)
  /\ Available(assignment[a].worker, work.day) /\ SlotFree(a, work.day, {e})
  /\ Payable(pay, work)
  /\ labor' = [labor EXCEPT ![e] = Entry(a, pay, work, @.replaces)]
  /\ UNCHANGED <<open, inactive, assignment>>

VoidLabor(e) ==
  /\ labor[e].active
  /\ labor' = [labor EXCEPT ![e].active = FALSE]
  /\ UNCHANGED <<open, inactive, assignment>>

-----------------------------------------------------------------------------
(* A page of entries, saved at once: works gives each assignment's record. *)

\* The entry that the assignment has already, which the page overwrites.
Existing(a, day) == IF OfAssignment(a, day) = {} THEN Unset ELSE Max(OfAssignment(a, day))
Source(a, day) == IF Existing(a, day) # Unset THEN Existing(a, day) ELSE Replaced(a, day)

Prepared(a, day) ==
  /\ ForLabor(a)
  /\ ActiveOf(assignment[a].project, assignment[a].worker, day) \subseteq {Existing(a, day)}

NewOnes(works, day) == {a \in DOMAIN works : Existing(a, day) = Unset}

\* _update_labor_entry leaves assignment, worker, day and pay alone.
Overwritten(entry, work) == [entry EXCEPT !.work = work, !.cost = Cost(entry.pay, work)]

\* New entries are added in the order of the page.
SaveBatch(p, works) ==
  LET day == (CHOOSE work \in Range(works) : TRUE).day
      new == NewOnes(works, day)
      pay(a) == PayOf(a, Source(a, day))
      Kept(e) == IF \E a \in DOMAIN works \ new : Existing(a, day) = e
                 THEN Overwritten(labor[e], works[labor[e].assignment]) ELSE labor[e]
      Inserted(a) == Entry(a, pay(a), works[a], Replaced(a, day))
  IN
  /\ \A a \in DOMAIN works : Prepared(a, day) /\ assignment[a].project = p
  /\ \A a, b \in DOMAIN works : assignment[a].worker = assignment[b].worker => a = b
  /\ \A a \in new :
       /\ p \in open
       /\ Replaced(a, day) = Unset => Available(assignment[a].worker, day)
  /\ \A a \in DOMAIN works : Payable(pay(a), works[a])
  /\ Len(labor) + Cardinality(new) <= MaxLabor
  /\ \E order \in SetToSeqs(new) :
       labor' = [e \in DOMAIN labor |-> Kept(e)] \o [i \in DOMAIN order |-> Inserted(order[i])]
  /\ UNCHANGED <<open, inactive, assignment>>

Pages ==
  UNION {[S -> {work \in Works : work.day = day}] : S \in (SUBSET Assignments) \ {{}}, day \in Days}

-----------------------------------------------------------------------------
Next ==
  \/ \E p \in Projects : CloseProject(p) \/ RestoreProject(p)
  \/ \E form \in LeaveForms : DeactivateWorker(form)
  \/ \E w \in Workers : ReactivateWorker(w)
  \/ \E a \in Assignments, form \in AssignmentForms :
       CreateAssignment(a, form) \/ UpdateAssignment(a, form)
  \/ \E a \in Assignments, status \in Targets : TransitionAssignment(a, status)
  \/ \E a \in Assignments, work \in Works : CreateLabor(a, work)
  \/ \E e \in DOMAIN labor, a \in Assignments, work \in Works : UpdateLabor(e, a, work)
  \/ \E e \in DOMAIN labor : VoidLabor(e)
  \/ \E p \in Projects, works \in Pages : SaveBatch(p, works)

Spec == Init /\ [][Next]_vars

-----------------------------------------------------------------------------
(* Properties.                                                             *)

Pays == {form.pay : form \in AssignmentForms}
EntryType ==
  [project : Projects, assignment : Assignments, worker : Workers, pay : Pays, work : Works,
   cost : Nat, active : BOOLEAN, replaces : Nat]

\* Rows have the columns' types.
TypeOK ==
  /\ open \subseteq Projects
  /\ inactive \in [Workers -> Days \cup {Unset}]
  /\ assignment \in
       [Assignments -> {NoAssignment} \cup {Assigned(form, status) : form \in AssignmentForms,
                                              status \in Current \cup {"completed", "cancelled"}}]
  /\ labor \in Seq(EntryType)

\* A worker has one entry in force a project and day, and so has an assignment, although
\* assignments change their worker, entries move and pages are saved at once: no handler
\* runs into the unique indexes of migration 021.
OneEntryInForce ==
  \A e, f \in DOMAIN labor :
    /\ e # f /\ labor[e].active /\ labor[f].active /\ Day(e) = Day(f)
    => /\ labor[e].assignment # labor[f].assignment
       /\ <<labor[e].project, labor[e].worker>> # <<labor[f].project, labor[f].worker>>

\* What is replaced is an earlier, voided entry of the same worker, project and day, and
\* nothing is replaced twice: a chain of corrections does not fork, which no index ensures.
ReplacedOnce ==
  \A e \in DOMAIN labor : labor[e].replaces # Unset =>
    LET old == labor[e].replaces IN
    /\ old < e /\ ~labor[old].active
    /\ labor[old].project = labor[e].project /\ labor[old].worker = labor[e].worker
    /\ Day(old) = Day(e)
    /\ \A f \in DOMAIN labor : labor[f].replaces = old => f = e

\* What work was paid is not rewritten: entries stay, in their project and voided ones as
\* they are, an entry is paid anew only when it moves to another assignment, and one that
\* replaces a voided entry has the pay of that one, whatever became of the assignment since
\* and whichever assignment of the worker it is entered under.
WagesStay ==
  [][/\ \A e \in DOMAIN labor :
          /\ e \in DOMAIN labor'
          /\ ~labor[e].active => labor'[e] = labor[e]
          /\ labor'[e].pay # labor[e].pay => labor'[e].assignment # labor[e].assignment
          /\ labor'[e].project = labor[e].project /\ labor'[e].replaces = labor[e].replaces
     /\ \A e \in DOMAIN labor' : labor'[e].replaces # Unset =>
          labor'[e].pay = labor'[labor'[e].replaces].pay]_vars

=============================================================================
