--------------------------- MODULE WorkforceProofs ---------------------------
(* For any workers, assignments, days and pages of Workforce: rows keep    *)
(* their types, one entry is in force a worker and day, what is replaced   *)
(* is replaced once, and pay stays.                                        *)
EXTENDS Workforce, FiniteSetTheorems, WellFoundedInduction, SequenceTheorems, TLAPS

Statuses == Current \cup {"completed", "cancelled"}

-----------------------------------------------------------------------------
(* Data.                                                                   *)

\* A set of positions has a last one.
LEMMA LastExists ==
  ASSUME NEW n \in Nat, NEW S \in SUBSET (1 .. n), S # {}
  PROVE  Max(S) \in S /\ \A y \in S : y <= Max(S)
<1> DEFINE T == {n - x : x \in S}
           R == {ss \in Nat \X Nat : ss[1] < ss[2]}
<1>1. IsWellFoundedOn(R, Nat)
  BY NatLessThanWellFounded DEF OpToRel
<1>2. T \subseteq Nat
  <2>1. \A x \in S : n - x \in Nat
    OBVIOUS
  <2>2. QED
    BY <2>1
<1>3. T # {}
  BY Zenon
<1>4. PICK m \in T : \A y \in T : ~ (<<y, m>> \in R)
  <2> HIDE DEF T, R
  <2> QED BY <1>1, <1>2, <1>3, WFMin
<1>5. PICK x \in S : m = n - x
  OBVIOUS
<1>6. \A y \in S : x >= y
  <2> TAKE y \in S
  <2>1. n - y \in T /\ n - y \in Nat /\ m \in Nat
    BY <1>2, <1>4
  <2>2. ~ (n - y < m)
    BY <1>4, <2>1
  <2>3. x \in Nat /\ y \in Nat
    OBVIOUS
  <2>4. QED
    BY <1>5, <2>2, <2>3
<1>7. QED
  BY <1>6 DEF Max

\* An assignment that takes labor is a row.
LEMMA RowOf ==
  ASSUME TypeOK, NEW a \in Assignments, assignment[a].status # "none"
  PROVE  /\ assignment[a].project \in Projects /\ assignment[a].worker \in Workers
         /\ assignment[a].pay \in Pays
<1>1. PICK form \in AssignmentForms, s \in Statuses : assignment[a] = Assigned(form, s)
  BY DEF TypeOK, NoAssignment, Statuses
<1>2. QED
  BY <1>1, FormsAssumption DEF Assigned, Pays

\* What is paid is a number of cents.
LEMMA CostIsNat ==
  ASSUME NEW pay \in Pays, NEW work \in Works, Payable(pay, work)
  PROVE  Cost(pay, work) \in Nat
<1>1. pay \in [basis : {"daily", "hourly"}, rate : Nat]
  BY FormsAssumption DEF Pays
<1>2. /\ pay.basis \in {"daily", "hourly"} /\ pay.rate \in Nat
      /\ work.quantity \in Nat /\ work.unit \in {"daily", "hourly", "away"}
  BY <1>1, WorksAssumption
<1>3. pay.rate * work.quantity \in Nat
  BY <1>2
<1>4. \A k \in Nat : (k + 500) \div 1000 \in Nat /\ (k + 30) \div 60 \in Nat
  OBVIOUS
<1>5. /\ (pay.rate * work.quantity + 500) \div 1000 \in Nat
      /\ (pay.rate * work.quantity + 30) \div 60 \in Nat
  BY <1>3, <1>4
<1>6. QED
  BY <1>2, <1>5 DEF Cost

LEMMA EntryTyped ==
  ASSUME TypeOK, NEW a \in Assignments, ForLabor(a), NEW pay \in Pays, NEW work \in Works,
         Payable(pay, work), NEW r \in Nat
  PROVE  Entry(a, pay, work, r) \in EntryType
<1>1. Cost(pay, work) \in Nat
  BY CostIsNat
<1>2. assignment[a].project \in Projects /\ assignment[a].worker \in Workers
  BY RowOf DEF ForLabor
<1>3. QED
  BY <1>1, <1>2 DEF Entry, EntryType

LEMMA Positions ==
  ASSUME TypeOK
  PROVE  /\ labor \in Seq(EntryType) /\ Len(labor) \in Nat
         /\ DOMAIN labor = 1 .. Len(labor) /\ Unset \notin DOMAIN labor
         /\ \A e \in DOMAIN labor : labor[e] \in EntryType /\ e \in Nat
BY DEF TypeOK, Unset

\* What may be replaced is a voided entry of the slot, and the last one.
LEMMA ReplacedIsLast ==
  ASSUME TypeOK, NEW a \in Assignments, NEW day
  PROVE  LET r == Replaced(a, day)
             old == OfWorker(assignment[a].project, assignment[a].worker, day)
         IN /\ r \in Nat
            /\ r # Unset => r \in old /\ ~labor[r].active
            /\ \A e \in old : ~labor[e].active => r # Unset /\ e <= r
<1> DEFINE old == OfWorker(assignment[a].project, assignment[a].worker, day)
           voided == {e \in old : ~labor[e].active}
<1>1. voided \in SUBSET (1 .. Len(labor)) /\ Len(labor) \in Nat /\ Unset = 0
  BY Positions DEF OfWorker, Unset
<1>2. Replaced(a, day) = IF voided = {} THEN Unset ELSE Max(voided)
  BY DEF Replaced
<1>3. CASE voided = {}
  BY <1>1, <1>2, <1>3
<1>4. CASE voided # {}
  <2> HIDE DEF voided
  <2>1. Max(voided) \in voided /\ \A e \in voided : e <= Max(voided)
    BY <1>1, <1>4, LastExists
  <2>2. Max(voided) \in 1 .. Len(labor)
    BY <1>1, <2>1
  <2>3. Replaced(a, day) = Max(voided)
    BY <1>2, <1>4
  <2>4. Replaced(a, day) \in Nat /\ Replaced(a, day) # Unset
    BY <1>1, <2>2, <2>3
  <2>5. QED
    BY <2>1, <2>3, <2>4 DEF voided
<1>5. QED
  BY <1>3, <1>4

LEMMA PayTyped ==
  ASSUME TypeOK, NEW a \in Assignments, ForLabor(a), NEW e, e = Unset \/ e \in DOMAIN labor
  PROVE  PayOf(a, e) \in Pays
<1>1. assignment[a].pay \in Pays
  BY RowOf DEF ForLabor
<1>2. \A f \in DOMAIN labor : labor[f].pay \in Pays
  BY Positions DEF EntryType
<1>3. QED
  BY <1>1, <1>2 DEF PayOf

-----------------------------------------------------------------------------
(* One entry in force, replaced once.                                      *)

IInv == TypeOK /\ OneEntryInForce /\ ReplacedOnce

\* A new entry that no entry in force bars, and that replaces the last of its slot.
Fits(w) ==
  /\ w \in EntryType /\ w.active
  /\ \A e \in DOMAIN labor :
       /\ labor[e].active /\ Day(e) = w.work.day
       => /\ labor[e].assignment # w.assignment
          /\ <<labor[e].project, labor[e].worker>> # <<w.project, w.worker>>
  /\ w.replaces # Unset =>
       /\ w.replaces \in OfWorker(w.project, w.worker, w.work.day)
       /\ ~labor[w.replaces].active /\ w.pay = labor[w.replaces].pay
       /\ \A e \in OfWorker(w.project, w.worker, w.work.day) :
            ~labor[e].active => e <= w.replaces

LEMMA EntryFits ==
  ASSUME TypeOK, NEW a \in Assignments, NEW work \in Works, ForLabor(a),
         SlotFree(a, work.day, {}), NEW pay \in Pays, Payable(pay, work),
         pay = PayOf(a, Replaced(a, work.day))
  PROVE  Fits(Entry(a, pay, work, Replaced(a, work.day)))
<1> DEFINE r == Replaced(a, work.day)
           w == Entry(a, pay, work, r)
<1>1. /\ r \in Nat
      /\ r # Unset => r \in OfWorker(assignment[a].project, assignment[a].worker, work.day)
                      /\ ~labor[r].active
      /\ \A e \in OfWorker(assignment[a].project, assignment[a].worker, work.day) :
           ~labor[e].active => r # Unset /\ e <= r
  BY ReplacedIsLast
<1>r. r # Unset => pay = labor[r].pay
  BY DEF PayOf
<1> HIDE DEF r, w
<1>0. r \in Nat
  BY <1>1
<1>2. /\ w \in EntryType /\ w.project = assignment[a].project /\ w.assignment = a
      /\ w.worker = assignment[a].worker /\ w.work = work /\ w.active = TRUE /\ w.replaces = r
      /\ w.pay = pay
  <2>1. w \in EntryType
    BY <1>0, EntryTyped DEF w
  <2>2. QED
    BY <2>1 DEF w, Entry
<1>3. \A e \in DOMAIN labor :
        labor[e].active /\ Day(e) = w.work.day
        => /\ labor[e].assignment # w.assignment
           /\ <<labor[e].project, labor[e].worker>> # <<w.project, w.worker>>
  BY <1>2 DEF SlotFree, OfAssignment, ActiveOf, OfWorker
<1>4. Fits(w)
  BY <1>r, <1>1, <1>2, <1>3 DEF Fits
<1>5. QED
  BY <1>4 DEF w, r

\* Adding such entries of different workers and assignments, one a day, keeps the invariant.
Same(e) ==
  /\ labor'[e].project = labor[e].project /\ labor'[e].assignment = labor[e].assignment
  /\ labor'[e].worker = labor[e].worker /\ labor'[e].active = labor[e].active
  /\ labor'[e].replaces = labor[e].replaces /\ labor'[e].work.day = labor[e].work.day

LEMMA Grown ==
  ASSUME IInv, labor' \in Seq(EntryType), DOMAIN labor \subseteq DOMAIN labor',
         \A e \in DOMAIN labor : Same(e),
         \A n \in DOMAIN labor' \ DOMAIN labor : Fits(labor'[n]),
         \A n, m \in DOMAIN labor' \ DOMAIN labor : n # m =>
           /\ labor'[n].assignment # labor'[m].assignment
           /\ labor'[n].worker # labor'[m].worker
  PROVE  OneEntryInForce' /\ ReplacedOnce'
<1> DEFINE New == DOMAIN labor' \ DOMAIN labor
<1>1. /\ DOMAIN labor = 1 .. Len(labor) /\ Len(labor) \in Nat
      /\ DOMAIN labor' = 1 .. Len(labor') /\ Len(labor') \in Nat /\ Unset = 0
  BY Positions DEF IInv, Unset
<1>2. \A e \in DOMAIN labor, n \in New : e < n
  BY <1>1
<1>3. OneEntryInForce'
  <2> SUFFICES ASSUME NEW e \in DOMAIN labor', NEW f \in DOMAIN labor',
                      e # f, labor'[e].active, labor'[f].active, Day(e)' = Day(f)'
               PROVE  /\ labor'[e].assignment # labor'[f].assignment
                      /\ <<labor'[e].project, labor'[e].worker>>
                         # <<labor'[f].project, labor'[f].worker>>
    BY DEF OneEntryInForce
  <2>1. CASE e \in DOMAIN labor /\ f \in DOMAIN labor
    BY <2>1 DEF IInv, OneEntryInForce, Day, Same
  <2>2. CASE e \in New /\ f \in DOMAIN labor
    <3>1. Fits(labor'[e]) /\ Same(f)
      BY <2>2
    <3>2. QED
      BY <2>2, <3>1 DEF Fits, Day, Same
  <2>3. CASE e \in DOMAIN labor /\ f \in New
    <3>1. Fits(labor'[f]) /\ Same(e)
      BY <2>3
    <3>2. QED
      BY <2>3, <3>1 DEF Fits, Day, Same
  <2>4. CASE e \in New /\ f \in New
    BY <2>4
  <2>5. QED
    BY <2>1, <2>2, <2>3, <2>4
<1>4. ReplacedOnce'
  <2> SUFFICES ASSUME NEW e \in DOMAIN labor', labor'[e].replaces # Unset
               PROVE  /\ labor'[e].replaces < e /\ ~labor'[labor'[e].replaces].active
                      /\ labor'[labor'[e].replaces].project = labor'[e].project
                      /\ labor'[labor'[e].replaces].worker = labor'[e].worker
                      /\ labor'[labor'[e].replaces].work.day = labor'[e].work.day
                      /\ \A f \in DOMAIN labor' :
                           labor'[f].replaces = labor'[e].replaces => f = e
    BY Zenon DEF ReplacedOnce, Unset, Day
  <2> DEFINE old == labor'[e].replaces
  <2>1. CASE e \in DOMAIN labor
    <3>1. Same(e) /\ labor[e].replaces = old
      BY <2>1 DEF Same
    <3>2. /\ old \in DOMAIN labor /\ old < e /\ ~labor[old].active
          /\ labor[old].project = labor[e].project /\ labor[old].worker = labor[e].worker
          /\ Day(old) = Day(e) /\ \A f \in DOMAIN labor : labor[f].replaces = old => f = e
      <4>1. labor[e].replaces # Unset /\ old \in Nat /\ e \in 1 .. Len(labor)
        BY <1>1, <2>1, <3>1, Positions DEF IInv, EntryType
      <4>2. /\ old < e /\ ~labor[old].active
            /\ labor[old].project = labor[e].project /\ labor[old].worker = labor[e].worker
            /\ Day(old) = Day(e) /\ \A f \in DOMAIN labor : labor[f].replaces = old => f = e
        BY <2>1, <3>1, <4>1, Zenon DEF IInv, ReplacedOnce
      <4>3. old \in 1 .. Len(labor)
        BY <1>1, <3>1, <4>1, <4>2
      <4>4. QED
        BY <1>1, <4>2, <4>3
    <3>3. Same(old)
      BY <3>2
    <3>4. \A f \in New : labor'[f].replaces # old
      <4> SUFFICES ASSUME NEW f \in New, labor'[f].replaces = old PROVE FALSE
        OBVIOUS
      <4>1. Fits(labor'[f])
        OBVIOUS
      <4>2. e \in OfWorker(labor'[f].project, labor'[f].worker, labor'[f].work.day)
        BY <2>1, <3>2, <4>1 DEF Fits, OfWorker, Day
      <4>3. CASE labor[e].active
        BY <2>1, <4>1, <4>2, <4>3 DEF Fits, OfWorker, Day
      <4>4. CASE ~labor[e].active
        <5>1. e <= old
          BY <4>1, <4>2, <4>4 DEF Fits
        <5>2. e \in Nat /\ old \in Nat
          BY <1>1, <2>1, <3>2
        <5>3. QED
          BY <3>2, <5>1, <5>2
      <4>5. QED
        BY <4>3, <4>4
    <3>5. \A f \in DOMAIN labor' : labor'[f].replaces = old => f = e
      BY <3>2, <3>4 DEF Same
    <3>6. /\ labor'[old].project = labor'[e].project /\ labor'[old].worker = labor'[e].worker
          /\ ~labor'[old].active /\ labor'[old].work.day = labor'[e].work.day
      BY <3>1, <3>2, <3>3 DEF Same, Day
    <3>7. old \in DOMAIN labor' /\ old < e
      BY <3>2
    <3>8. QED
      BY <3>5, <3>6, <3>7
  <2>2. CASE e \in New
    <3>1. Fits(labor'[e])
      BY <2>2
    <3>2. /\ old \in OfWorker(labor'[e].project, labor'[e].worker, labor'[e].work.day)
          /\ ~labor[old].active
      BY <3>1 DEF Fits
    <3>3. old \in DOMAIN labor /\ Same(old)
      BY <3>2 DEF OfWorker
    <3>4. \A f \in DOMAIN labor : labor'[f].replaces # old
      <4> SUFFICES ASSUME NEW f \in DOMAIN labor, labor[f].replaces = old PROVE FALSE
        BY DEF Same
      <4>1. /\ old < f /\ labor[old].project = labor[f].project
            /\ labor[old].worker = labor[f].worker /\ Day(old) = Day(f)
        BY DEF IInv, ReplacedOnce
      <4>2. f \in OfWorker(labor'[e].project, labor'[e].worker, labor'[e].work.day)
        BY <3>2, <4>1 DEF OfWorker, Day
      <4>3. CASE labor[f].active
        BY <3>1, <4>2, <4>3 DEF Fits, OfWorker, Day
      <4>4. CASE ~labor[f].active
        <5>1. f <= old
          BY <3>1, <4>2, <4>4 DEF Fits
        <5>2. f \in Nat /\ old \in Nat
          BY <1>1, <3>3
        <5>3. QED
          BY <4>1, <5>1, <5>2
      <4>5. QED
        BY <4>3, <4>4
    <3>5. \A f \in New : labor'[f].replaces = old => f = e
      <4> SUFFICES ASSUME NEW f \in New, labor'[f].replaces = old, f # e PROVE FALSE
        OBVIOUS
      <4>1. Fits(labor'[f])
        OBVIOUS
      <4>2. old \in OfWorker(labor'[f].project, labor'[f].worker, labor'[f].work.day)
        BY <4>1 DEF Fits
      <4>3. labor'[f].worker = labor'[e].worker
        BY <3>2, <4>2 DEF OfWorker
      <4>4. QED
        BY <2>2, <4>3
    <3>6. old < e /\ old \in DOMAIN labor'
      BY <1>2, <2>2, <3>3
    <3>7. /\ labor'[old].project = labor'[e].project /\ labor'[old].worker = labor'[e].worker
          /\ ~labor'[old].active /\ labor'[old].work.day = labor'[e].work.day
      BY <3>2, <3>3 DEF OfWorker, Same, Day
    <3>8. \A f \in DOMAIN labor' : labor'[f].replaces = old => f = e
      BY <3>4, <3>5
    <3>9. QED
      BY <3>6, <3>7, <3>8
  <2>3. QED
    BY <2>1, <2>2
<1>5. QED
  BY <1>3, <1>4

\* The number in an entry's replaces is that of an entry.
LEMMA ReplacesAnEntry ==
  ASSUME IInv, NEW e \in DOMAIN labor, labor[e].replaces # Unset
  PROVE  labor[e].replaces \in DOMAIN labor
<1>1. /\ DOMAIN labor = 1 .. Len(labor) /\ Len(labor) \in Nat /\ Unset = 0
      /\ labor[e].replaces \in Nat
  BY Positions DEF IInv, EntryType, Unset
<1>2. labor[e].replaces < e
  BY DEF IInv, ReplacedOnce
<1>3. QED
  BY <1>1, <1>2

LEMMA Unmoved ==
  ASSUME IInv, TypeOK', UNCHANGED labor
  PROVE  IInv'
<1>1. OneEntryInForce'
  BY DEF IInv, OneEntryInForce, Day
<1>2. ReplacedOnce'
  BY DEF IInv, ReplacedOnce, Day
<1>3. QED
  BY <1>1, <1>2 DEF IInv

-----------------------------------------------------------------------------
(* The handlers.                                                           *)

LEMMA MembersKeep ==
  ASSUME IInv,
         \/ \E p \in Projects : CloseProject(p) \/ RestoreProject(p)
         \/ \E form \in LeaveForms : DeactivateWorker(form)
         \/ \E w \in Workers : ReactivateWorker(w)
  PROVE  IInv'
<1>1. ASSUME NEW p \in Projects, CloseProject(p) \/ RestoreProject(p) PROVE TypeOK'
  BY <1>1 DEF IInv, TypeOK, CloseProject, RestoreProject
<1>2. ASSUME NEW form \in LeaveForms, DeactivateWorker(form) PROVE TypeOK'
  BY <1>2, LeavesAssumption DEF IInv, TypeOK, DeactivateWorker
<1>3. ASSUME NEW w \in Workers, ReactivateWorker(w) PROVE TypeOK'
  BY <1>3 DEF IInv, TypeOK, ReactivateWorker
<1>4. UNCHANGED labor
  BY DEF CloseProject, RestoreProject, DeactivateWorker, ReactivateWorker
<1>5. QED
  BY <1>1, <1>2, <1>3, <1>4, Unmoved

LEMMA AssignmentsKeep ==
  ASSUME IInv, NEW a \in Assignments,
         \/ \E form \in AssignmentForms : CreateAssignment(a, form) \/ UpdateAssignment(a, form)
         \/ \E status \in Targets : TransitionAssignment(a, status)
  PROVE  IInv'
<1> DEFINE Rows == {NoAssignment} \cup {Assigned(f, s) : f \in AssignmentForms, s \in Statuses}
<1>1. assignment \in [Assignments -> Rows]
  BY DEF IInv, TypeOK, Statuses
<1>2. ASSUME NEW form \in AssignmentForms, CreateAssignment(a, form) PROVE assignment' \in [Assignments -> Rows]
  <2>1. Assigned(form, "planned") \in Rows
    BY DEF Statuses, Current
  <2> HIDE DEF Rows
  <2>2. QED
    BY <1>1, <1>2, <2>1 DEF CreateAssignment
<1>3. ASSUME NEW form \in AssignmentForms, UpdateAssignment(a, form) PROVE assignment' \in [Assignments -> Rows]
  <2>1. assignment[a].status \in Statuses
    BY <1>3 DEF UpdateAssignment, Statuses
  <2>2. Assigned(form, assignment[a].status) \in Rows
    BY <2>1
  <2> HIDE DEF Rows
  <2>3. QED
    BY <1>1, <1>3, <2>2 DEF UpdateAssignment
<1>4. ASSUME NEW status \in Targets, TransitionAssignment(a, status) PROVE assignment' \in [Assignments -> Rows]
  <2>1. assignment[a].status # "none" /\ status \in Statuses
    BY <1>4 DEF TransitionAssignment, Transitions, Statuses, Current
  <2>2. PICK f \in AssignmentForms, s \in Statuses : assignment[a] = Assigned(f, s)
    BY <1>1, <2>1 DEF NoAssignment
  <2>3. [assignment[a] EXCEPT !.status = status] = Assigned(f, status)
    BY <2>2 DEF Assigned
  <2>4. Assigned(f, status) \in Rows
    BY <2>1
  <2> HIDE DEF Rows
  <2>5. assignment' = [assignment EXCEPT ![a] = [assignment[a] EXCEPT !.status = status]]
    BY <1>4 DEF TransitionAssignment
  <2>6. QED
    BY <1>1, <2>3, <2>4, <2>5
<1>5. UNCHANGED <<open, inactive, labor>>
  BY DEF CreateAssignment, UpdateAssignment, TransitionAssignment
<1>6. assignment' \in [Assignments -> Rows]
  BY <1>2, <1>3, <1>4
<1>7. TypeOK'
  BY <1>5, <1>6 DEF IInv, TypeOK, Statuses
<1>8. QED
  BY <1>5, <1>7, Unmoved

LEMMA CreateLaborKeeps ==
  ASSUME IInv, NEW a \in Assignments, NEW work \in Works, CreateLabor(a, work)
  PROVE  IInv'
<1> DEFINE old == Replaced(a, work.day)
           pay == PayOf(a, old)
           w == Entry(a, pay, work, old)
<1>1. TypeOK
  BY DEF IInv
<1>2. /\ ForLabor(a) /\ SlotFree(a, work.day, {}) /\ Payable(pay, work)
      /\ labor' = Append(labor, w) /\ UNCHANGED <<open, inactive, assignment>>
  BY DEF CreateLabor
<1>3. old = Unset \/ old \in DOMAIN labor
  BY <1>1, ReplacedIsLast DEF OfWorker
<1> HIDE DEF old
<1>4. pay \in Pays /\ pay = PayOf(a, Replaced(a, work.day))
  BY <1>1, <1>2, <1>3, PayTyped DEF old
<1> HIDE DEF pay
<1>5. Fits(w)
  BY <1>1, <1>2, <1>4, EntryFits DEF old
<1> HIDE DEF w
<1>6. labor \in Seq(EntryType) /\ w \in EntryType
  BY <1>1, <1>5, Positions DEF Fits
<1>7. /\ labor' \in Seq(EntryType) /\ Len(labor') = Len(labor) + 1
      /\ \A e \in 1 .. Len(labor) : labor'[e] = labor[e]
      /\ labor'[Len(labor) + 1] = w
  BY <1>2, <1>6, AppendProperties, Zenon
<1>8. /\ DOMAIN labor = 1 .. Len(labor) /\ DOMAIN labor' = 1 .. Len(labor) + 1
      /\ Len(labor) \in Nat
  BY <1>6, <1>7, LenProperties
<1>9. \A n \in DOMAIN labor' \ DOMAIN labor : n = Len(labor) + 1
  BY <1>8
<1>10. \A e \in DOMAIN labor : Same(e)
  BY <1>7, <1>8 DEF Same
<1>11. DOMAIN labor \subseteq DOMAIN labor'
  BY <1>8
<1>12. \A n \in DOMAIN labor' \ DOMAIN labor : Fits(labor'[n])
  BY <1>5, <1>7, <1>9
<1>13. OneEntryInForce' /\ ReplacedOnce'
  BY <1>7, <1>9, <1>10, <1>11, <1>12, Grown
<1>14. TypeOK'
  BY <1>1, <1>2, <1>7 DEF TypeOK
<1>15. QED
  BY <1>13, <1>14 DEF IInv

LEMMA VoidLaborKeeps ==
  ASSUME IInv, NEW e \in DOMAIN labor, VoidLabor(e)
  PROVE  IInv'
<1>1. labor \in Seq(EntryType) /\ labor[e] \in EntryType
  BY Positions DEF IInv
<1>2. /\ labor' = [labor EXCEPT ![e] = [labor[e] EXCEPT !.active = FALSE]]
      /\ UNCHANGED <<open, inactive, assignment>>
  BY DEF VoidLabor
<1>3. [labor[e] EXCEPT !.active = FALSE] \in EntryType
  BY <1>1 DEF EntryType
<1>4. labor' \in Seq(EntryType) /\ DOMAIN labor' = DOMAIN labor
  <2>1. e \in 1 .. Len(labor)
    BY <1>1, Positions DEF IInv
  <2>2. QED
    BY <1>1, <1>2, <1>3, <2>1, ExceptSeq
<1>5. \A f \in DOMAIN labor :
        /\ labor'[f].project = labor[f].project /\ labor'[f].assignment = labor[f].assignment
        /\ labor'[f].worker = labor[f].worker /\ labor'[f].work = labor[f].work
        /\ labor'[f].replaces = labor[f].replaces
        /\ labor'[f].active => labor[f].active
  BY <1>1, <1>2 DEF EntryType
<1>6. OneEntryInForce'
  BY <1>4, <1>5 DEF IInv, OneEntryInForce, Day
<1>7. \A f \in DOMAIN labor : labor[f].replaces # Unset => labor[f].replaces \in DOMAIN labor
  BY ReplacesAnEntry
<1>8. ReplacedOnce'
  BY <1>4, <1>5, <1>7 DEF IInv, ReplacedOnce, Day
<1>9. TypeOK'
  BY <1>2, <1>4 DEF IInv, TypeOK
<1>10. QED
  BY <1>6, <1>8, <1>9 DEF IInv

\* What a correction makes of an entry, and of the others.
LEMMA Corrected ==
  ASSUME IInv, NEW e \in DOMAIN labor, NEW a \in Assignments, NEW work \in Works,
         UpdateLabor(e, a, work)
  PROVE  /\ labor' \in Seq(EntryType) /\ DOMAIN labor' = DOMAIN labor
         /\ UNCHANGED <<open, inactive, assignment>>
         /\ labor'[e] = Entry(a, Snapshot(e, a), work, labor[e].replaces)
         /\ \A f \in DOMAIN labor \ {e} : labor'[f] = labor[f]
<1> DEFINE w == Entry(a, Snapshot(e, a), work, labor[e].replaces)
<1>1. /\ labor' = [labor EXCEPT ![e] = w] /\ UNCHANGED <<open, inactive, assignment>>
      /\ ForLabor(a) /\ Payable(Snapshot(e, a), work)
  BY DEF UpdateLabor
<1>2. TypeOK /\ labor \in Seq(EntryType) /\ labor[e] \in EntryType /\ e \in 1 .. Len(labor)
  BY Positions DEF IInv
<1>3. Snapshot(e, a) \in Pays /\ labor[e].replaces \in Nat
  <2>1. assignment[a].pay \in Pays
    BY <1>1, <1>2, RowOf DEF ForLabor
  <2>2. QED
    BY <1>2, <2>1 DEF Snapshot, EntryType
<1>4. w \in EntryType
  BY <1>1, <1>2, <1>3, EntryTyped
<1> HIDE DEF w
<1>5. /\ labor' \in Seq(EntryType) /\ DOMAIN labor' = DOMAIN labor
      /\ labor'[e] = w /\ \A f \in DOMAIN labor \ {e} : labor'[f] = labor[f]
  BY <1>1, <1>2, <1>4, ExceptSeq
<1>6. QED
  BY <1>1, <1>5 DEF w

LEMMA UpdateLaborKeeps ==
  ASSUME IInv, NEW e \in DOMAIN labor, NEW a \in Assignments, NEW work \in Works,
         UpdateLabor(e, a, work)
  PROVE  IInv'
<1>1. /\ labor' \in Seq(EntryType) /\ DOMAIN labor' = DOMAIN labor
      /\ UNCHANGED <<open, inactive, assignment>>
      /\ labor'[e] = Entry(a, Snapshot(e, a), work, labor[e].replaces)
      /\ \A f \in DOMAIN labor \ {e} : labor'[f] = labor[f]
  BY Corrected
<1>2. /\ labor'[e].project = assignment[a].project /\ labor'[e].assignment = a
      /\ labor'[e].worker = assignment[a].worker /\ labor'[e].work = work
      /\ labor'[e].replaces = labor[e].replaces
  BY <1>1 DEF Entry
<1>3. /\ labor[e].active /\ assignment[a].project = labor[e].project
      /\ SameIdentity(e, a, work.day) /\ SlotFree(a, work.day, {e})
  BY DEF UpdateLabor
<1>4. \A f \in DOMAIN labor \ {e} : labor[f].active /\ Day(f) = work.day =>
        /\ labor[f].assignment # a
        /\ <<labor[f].project, labor[f].worker>> # <<assignment[a].project, assignment[a].worker>>
  BY <1>3 DEF SlotFree, OfAssignment, ActiveOf, OfWorker
<1>5. OneEntryInForce'
  <2> SUFFICES ASSUME NEW f \in DOMAIN labor, NEW g \in DOMAIN labor, f # g,
                      labor'[f].active, labor'[g].active, labor'[f].work.day = labor'[g].work.day
               PROVE  /\ labor'[f].assignment # labor'[g].assignment
                      /\ <<labor'[f].project, labor'[f].worker>>
                         # <<labor'[g].project, labor'[g].worker>>
    BY <1>1 DEF OneEntryInForce, Day
  <2>1. CASE f = e
    BY <1>1, <1>2, <1>4, <2>1 DEF Day
  <2>2. CASE g = e
    BY <1>1, <1>2, <1>4, <2>2 DEF Day
  <2>3. CASE f # e /\ g # e
    BY <1>1, <2>3 DEF IInv, OneEntryInForce, Day
  <2>4. QED
    BY <2>1, <2>2, <2>3
<1>6. ReplacedOnce'
  <2> SUFFICES ASSUME NEW f \in DOMAIN labor, labor'[f].replaces # Unset
               PROVE  /\ labor'[f].replaces < f /\ ~labor'[labor'[f].replaces].active
                      /\ labor'[labor'[f].replaces].project = labor'[f].project
                      /\ labor'[labor'[f].replaces].worker = labor'[f].worker
                      /\ labor'[labor'[f].replaces].work.day = labor'[f].work.day
                      /\ \A g \in DOMAIN labor :
                           labor'[g].replaces = labor'[f].replaces => g = f
    BY <1>1, Zenon DEF ReplacedOnce, Day, Unset
  <2>1. \A g \in DOMAIN labor : labor'[g].replaces = labor[g].replaces
    BY <1>1, <1>2
  <2> DEFINE old == labor[f].replaces
  <2>2. old \in DOMAIN labor
    BY <2>1, ReplacesAnEntry
  <2>3. /\ old < f /\ ~labor[old].active
        /\ labor[old].project = labor[f].project /\ labor[old].worker = labor[f].worker
        /\ labor[old].work.day = labor[f].work.day
        /\ \A g \in DOMAIN labor : labor[g].replaces = old => g = f
    BY <2>1, Zenon DEF IInv, ReplacedOnce, Day
  <2>4. labor'[old] = labor[old]
    BY <1>1, <1>3, <2>2, <2>3
  <2>5. /\ labor'[f].project = labor[f].project /\ labor'[f].worker = labor[f].worker
        /\ labor'[f].work.day = labor[f].work.day
    <3>1. CASE f = e
      BY <1>2, <1>3, <2>1, <3>1 DEF SameIdentity, Day
    <3>2. CASE f # e
      BY <1>1, <3>2
    <3>3. QED
      BY <3>1, <3>2
  <2>6. QED
    BY <2>1, <2>3, <2>4, <2>5
<1>7. TypeOK'
  BY <1>1 DEF IInv, TypeOK
<1>8. QED
  BY <1>5, <1>6, <1>7 DEF IInv

-----------------------------------------------------------------------------
(* A page.                                                                 *)

\* The entry of an assignment's day that a page finds is one in force.
LEMMA ExistingInForce ==
  ASSUME TypeOK, NEW a \in Assignments, NEW day
  PROVE  /\ Existing(a, day) = Unset => OfAssignment(a, day) = {}
         /\ Existing(a, day) # Unset => Existing(a, day) \in OfAssignment(a, day)
<1>1. OfAssignment(a, day) \in SUBSET (1 .. Len(labor)) /\ Len(labor) \in Nat /\ Unset = 0
  BY Positions DEF OfAssignment, Unset
<1> DEFINE S == OfAssignment(a, day)
<1> HIDE DEF S
<1>2. CASE S # {}
  <2>1. Max(S) \in S /\ S \in SUBSET (1 .. Len(labor))
    BY <1>1, <1>2, LastExists DEF S
  <2>2. Existing(a, day) = Max(S)
    BY <1>2 DEF S, Existing
  <2>3. Max(S) # Unset
    BY <1>1, <2>1
  <2>4. QED
    BY <2>1, <2>2, <2>3 DEF S
<1>3. CASE S = {}
  BY <1>3 DEF S, Existing
<1>4. QED
  BY <1>2, <1>3

\* A page is of one day.
LEMMA PageOfADay ==
  ASSUME NEW works \in Pages
  PROVE  /\ DOMAIN works \subseteq Assignments
         /\ \A a \in DOMAIN works :
              /\ works[a] \in Works
              /\ works[a].day = (CHOOSE work \in Range(works) : TRUE).day
<1>1. PICK S \in (SUBSET Assignments) \ {{}}, day \in Days :
        works \in [S -> {work \in Works : work.day = day}]
  BY DEF Pages
<1>2. Range(works) # {} /\ \A work \in Range(works) : work.day = day
  <2>1. PICK a \in S : TRUE
    BY <1>1
  <2>2. DOMAIN works = S /\ \A b \in S : works[b].day = day
    BY <1>1
  <2>3. works[a] \in Range(works)
    BY <2>1, <2>2 DEF Range
  <2>4. QED
    BY <2>2, <2>3 DEF Range
<1>3. (CHOOSE work \in Range(works) : TRUE) \in Range(works)
  BY <1>2
<1>4. QED
  BY <1>1, <1>2, <1>3

\* What a page makes of the entries there are, and what it adds.
LEMMA Paged ==
  ASSUME IInv, NEW p \in Projects, NEW works \in Pages, SaveBatch(p, works)
  PROVE  /\ labor' \in Seq(EntryType) /\ DOMAIN labor \subseteq DOMAIN labor'
         /\ UNCHANGED <<open, inactive, assignment>>
         /\ \A e \in DOMAIN labor : Same(e) /\ labor'[e].pay = labor[e].pay
         /\ \A e \in DOMAIN labor : ~labor[e].active => labor'[e] = labor[e]
         /\ \A n \in DOMAIN labor' \ DOMAIN labor : Fits(labor'[n])
         /\ \A n, m \in DOMAIN labor' \ DOMAIN labor : n # m =>
              /\ labor'[n].assignment # labor'[m].assignment
              /\ labor'[n].worker # labor'[m].worker
<1> DEFINE day == (CHOOSE work \in Range(works) : TRUE).day
           new == NewOnes(works, day)
           pay(a) == PayOf(a, Source(a, day))
           Kept(e) == IF \E a \in DOMAIN works \ new : Existing(a, day) = e
                      THEN Overwritten(labor[e], works[labor[e].assignment]) ELSE labor[e]
           Inserted(a) == Entry(a, pay(a), works[a], Replaced(a, day))
<1>1. PICK order \in SetToSeqs(new) :
        labor' = [e \in DOMAIN labor |-> Kept(e)] \o [i \in DOMAIN order |-> Inserted(order[i])]
  BY DEF SaveBatch
<1>2. /\ \A a \in DOMAIN works : Prepared(a, day) /\ assignment[a].project = p
      /\ \A a, b \in DOMAIN works : assignment[a].worker = assignment[b].worker => a = b
      /\ \A a \in DOMAIN works : Payable(pay(a), works[a])
      /\ UNCHANGED <<open, inactive, assignment>>
  BY DEF SaveBatch
<1>3. /\ DOMAIN works \subseteq Assignments
      /\ \A a \in DOMAIN works : works[a] \in Works /\ works[a].day = day
  BY PageOfADay
<1>4. TypeOK /\ labor \in Seq(EntryType) /\ DOMAIN labor = 1 .. Len(labor) /\ Len(labor) \in Nat
      /\ Unset \notin DOMAIN labor /\ \A e \in DOMAIN labor : labor[e] \in EntryType
  BY Positions DEF IInv
<1>5. new \subseteq DOMAIN works /\ \A a \in DOMAIN works : a \in new <=> Existing(a, day) = Unset
  BY DEF NewOnes
<1> HIDE DEF day, new
<1>6. \A e \in DOMAIN labor :
        /\ Kept(e) \in EntryType /\ Kept(e).project = labor[e].project
        /\ Kept(e).assignment = labor[e].assignment /\ Kept(e).worker = labor[e].worker
        /\ Kept(e).active = labor[e].active /\ Kept(e).replaces = labor[e].replaces
        /\ Kept(e).work.day = labor[e].work.day /\ Kept(e).pay = labor[e].pay
        /\ ~labor[e].active => Kept(e) = labor[e]
  <2> TAKE e \in DOMAIN labor
  <2>1. CASE \E a \in DOMAIN works \ new : Existing(a, day) = e
    <3>1. PICK a \in DOMAIN works \ new : Existing(a, day) = e
      BY <2>1
    <3>2. a \in Assignments /\ e # Unset
      BY <1>3, <1>4
    <3>3. e \in OfAssignment(a, day)
      BY <1>4, <3>1, <3>2, ExistingInForce
    <3>4. labor[e].active /\ labor[e].assignment = a /\ labor[e].work.day = day
      BY <3>3 DEF OfAssignment, Day
    <3>5. pay(a) = labor[e].pay
      BY <3>1, <3>2 DEF PayOf, Source
    <3>6. labor[e].pay \in Pays /\ Payable(labor[e].pay, works[a]) /\ works[a] \in Works
          /\ works[a].day = day
      BY <1>2, <1>3, <1>4, <3>5 DEF EntryType
    <3>7. Cost(labor[e].pay, works[a]) \in Nat
      BY <3>6, CostIsNat
    <3>8. Kept(e) = [labor[e] EXCEPT !.work = works[a], !.cost = Cost(labor[e].pay, works[a])]
      BY <2>1, <3>4 DEF Overwritten
    <3>9. labor[e] \in EntryType
      BY <1>4
    <3>10. QED
      BY <3>4, <3>6, <3>7, <3>8, <3>9 DEF EntryType
  <2>2. CASE ~ \E a \in DOMAIN works \ new : Existing(a, day) = e
    <3>1. Kept(e) = labor[e]
      BY <2>2
    <3>2. QED
      BY <1>4, <3>1
  <2>3. QED
    BY <2>1, <2>2
<1>7. \A a \in new : Fits(Inserted(a))
  <2> TAKE a \in new
  <2>1. /\ a \in Assignments /\ a \in DOMAIN works /\ works[a] \in Works /\ works[a].day = day
        /\ Existing(a, day) = Unset
    BY <1>3, <1>5
  <2>2. ForLabor(a) /\ SlotFree(a, works[a].day, {})
    <3>1. OfAssignment(a, day) = {}
      BY <1>4, <2>1, ExistingInForce
    <3>2. /\ ForLabor(a)
          /\ ActiveOf(assignment[a].project, assignment[a].worker, day) \subseteq {Unset}
      BY <1>2, <2>1 DEF Prepared
    <3>3. Unset \notin ActiveOf(assignment[a].project, assignment[a].worker, day)
      BY <1>4 DEF ActiveOf, OfWorker
    <3>4. QED
      BY <2>1, <3>1, <3>2, <3>3 DEF SlotFree
  <2>3. pay(a) = PayOf(a, Replaced(a, day)) /\ Payable(pay(a), works[a])
    BY <1>2, <2>1 DEF Source
  <2>4. Replaced(a, day) = Unset \/ Replaced(a, day) \in DOMAIN labor
    BY <1>4, <2>1, ReplacedIsLast DEF OfWorker
  <2>5. pay(a) \in Pays
    BY <1>4, <2>1, <2>2, <2>3, <2>4, PayTyped
  <2> HIDE DEF pay
  <2>6. QED
    BY <1>4, <2>1, <2>2, <2>3, <2>5, EntryFits
<1>8. \A a \in new : Inserted(a).assignment = a /\ Inserted(a).worker = assignment[a].worker
  BY DEF Entry
<1> HIDE DEF Kept, Inserted
<1>9. Cardinality(new) \in Nat
  <2>1. new \in SUBSET Assignments
    BY <1>3, <1>5
  <2>2. QED
    BY <2>1, AssignmentsAssumption, FS_Subset, FS_CardinalityType
<1>10. /\ order \in [1 .. Cardinality(new) -> new]
       /\ \A i, j \in 1 .. Cardinality(new) : i # j => order[i] # order[j]
  BY DEF SetToSeqs
<1> DEFINE K == [e \in DOMAIN labor |-> Kept(e)]
           N == [i \in DOMAIN order |-> Inserted(order[i])]
<1>11. K \in Seq(EntryType) /\ Len(K) = Len(labor) /\ \A e \in DOMAIN labor : K[e] = Kept(e)
  BY <1>4, <1>6
<1>12. /\ N \in Seq(EntryType) /\ Len(N) = Cardinality(new)
       /\ \A i \in 1 .. Cardinality(new) : N[i] = Inserted(order[i])
  <2>1. DOMAIN order = 1 .. Cardinality(new)
    BY <1>10
  <2>2. \A i \in DOMAIN order : Inserted(order[i]) \in EntryType
    BY <1>7, <1>10 DEF Fits
  <2>3. QED
    BY <1>9, <2>1, <2>2
<1> HIDE DEF K, N
<1>13. /\ labor' \in Seq(EntryType) /\ Len(labor') = Len(labor) + Cardinality(new)
       /\ \A i \in 1 .. Len(labor) + Cardinality(new) :
            labor'[i] = IF i <= Len(labor) THEN K[i] ELSE N[i - Len(labor)]
  <2>1. labor' = K \o N
    BY <1>1 DEF K, N
  <2>2. /\ K \o N \in Seq(EntryType) /\ Len(K \o N) = Len(K) + Len(N)
        /\ \A i \in 1 .. Len(K) + Len(N) :
             (K \o N)[i] = IF i <= Len(K) THEN K[i] ELSE N[i - Len(K)]
    <3>1. K \in Seq(EntryType) /\ N \in Seq(EntryType)
      BY <1>11, <1>12
    <3>2. QED
      BY <3>1, ConcatProperties, Zenon
  <2>3. Len(K) = Len(labor) /\ Len(N) = Cardinality(new)
    BY <1>11, <1>12
  <2>4. QED
    BY <2>1, <2>2, <2>3, Zenon
<1>14. DOMAIN labor' = 1 .. Len(labor) + Cardinality(new)
  BY <1>13, LenProperties
<1>15. \A e \in DOMAIN labor : e \in DOMAIN labor' /\ labor'[e] = Kept(e)
  BY <1>4, <1>9, <1>11, <1>13, <1>14
<1>16. \A n \in DOMAIN labor' \ DOMAIN labor :
         /\ n - Len(labor) \in 1 .. Cardinality(new)
         /\ labor'[n] = Inserted(order[n - Len(labor)])
  BY <1>4, <1>9, <1>12, <1>13, <1>14
<1>17. \A n \in DOMAIN labor' \ DOMAIN labor : Fits(labor'[n])
  BY <1>7, <1>10, <1>16
<1>18. \A n, m \in DOMAIN labor' \ DOMAIN labor : n # m =>
         /\ labor'[n].assignment # labor'[m].assignment
         /\ labor'[n].worker # labor'[m].worker
  <2> SUFFICES ASSUME NEW n \in DOMAIN labor' \ DOMAIN labor,
                      NEW m \in DOMAIN labor' \ DOMAIN labor, n # m
               PROVE  /\ labor'[n].assignment # labor'[m].assignment
                      /\ labor'[n].worker # labor'[m].worker
    OBVIOUS
  <2> DEFINE a == order[n - Len(labor)]
             b == order[m - Len(labor)]
  <2>1. n - Len(labor) # m - Len(labor)
    BY <1>4, <1>9, <1>14
  <2>2. a \in new /\ b \in new /\ a # b
    BY <1>10, <1>16, <2>1
  <2>3. labor'[n] = Inserted(a) /\ labor'[m] = Inserted(b)
    BY <1>16
  <2> HIDE DEF a, b
  <2>4. assignment[a].worker # assignment[b].worker
    BY <1>2, <1>5, <2>2
  <2>5. QED
    BY <1>8, <2>2, <2>3, <2>4
<1>19. \A e \in DOMAIN labor :
         /\ Same(e) /\ labor'[e].pay = labor[e].pay
         /\ ~labor[e].active => labor'[e] = labor[e]
  BY <1>6, <1>15 DEF Same
<1>20. QED
  BY <1>2, <1>13, <1>15, <1>17, <1>18, <1>19

LEMMA SaveBatchKeeps ==
  ASSUME IInv, NEW p \in Projects, NEW works \in Pages, SaveBatch(p, works)
  PROVE  IInv'
<1>1. OneEntryInForce' /\ ReplacedOnce'
  BY Paged, Grown
<1>2. TypeOK'
  BY Paged DEF IInv, TypeOK
<1>3. QED
  BY <1>1, <1>2 DEF IInv

-----------------------------------------------------------------------------
(* The specification.                                                      *)

LEMMA Start ==
  Init => IInv
<1> SUFFICES ASSUME Init PROVE IInv
  OBVIOUS
<1>1. /\ open = Projects /\ inactive = [w \in Workers |-> Unset]
      /\ assignment = [a \in Assignments |-> NoAssignment] /\ labor = <<>>
  BY DEF Init
<1>2. labor \in Seq(EntryType) /\ DOMAIN labor = {}
  BY <1>1
<1>3. TypeOK
  BY <1>1, <1>2 DEF TypeOK
<1>4. OneEntryInForce /\ ReplacedOnce
  BY <1>2 DEF OneEntryInForce, ReplacedOnce
<1>5. QED
  BY <1>3, <1>4 DEF IInv

LEMMA StepKeeps ==
  IInv /\ [Next]_vars => IInv'
<1> SUFFICES ASSUME IInv, [Next]_vars PROVE IInv'
  OBVIOUS
<1>1. CASE \/ \E p \in Projects : CloseProject(p) \/ RestoreProject(p)
           \/ \E form \in LeaveForms : DeactivateWorker(form)
           \/ \E w \in Workers : ReactivateWorker(w)
  BY <1>1, MembersKeep
<1>2. CASE \/ \E a \in Assignments, form \in AssignmentForms :
                CreateAssignment(a, form) \/ UpdateAssignment(a, form)
           \/ \E a \in Assignments, status \in Targets : TransitionAssignment(a, status)
  BY <1>2, AssignmentsKeep
<1>3. CASE \E a \in Assignments, work \in Works : CreateLabor(a, work)
  BY <1>3, CreateLaborKeeps
<1>4. CASE \E e \in DOMAIN labor, a \in Assignments, work \in Works : UpdateLabor(e, a, work)
  BY <1>4, UpdateLaborKeeps
<1>5. CASE \E e \in DOMAIN labor : VoidLabor(e)
  BY <1>5, VoidLaborKeeps
<1>6. CASE \E p \in Projects, works \in Pages : SaveBatch(p, works)
  BY <1>6, SaveBatchKeeps
<1>7. CASE UNCHANGED vars
  <2>1. TypeOK' /\ UNCHANGED labor
    BY <1>7 DEF IInv, TypeOK, vars
  <2>2. QED
    BY <2>1, Unmoved
<1>8. QED
  BY <1>1, <1>2, <1>3, <1>4, <1>5, <1>6, <1>7 DEF Next

LEMMA Invariance ==
  Spec => []IInv
BY Start, StepKeeps, PTL DEF Spec

\* Rows have the columns' types, whatever is recorded (workforce.py).
THEOREM RowsTyped ==
  Spec => []TypeOK
<1>1. IInv => TypeOK
  BY DEF IInv
<1>2. QED
  BY <1>1, Invariance, PTL

\* No handler runs into the unique indexes of migration 021: a worker has one entry in force
\* a project and day, an assignment one a day, for any assignments, pages and corrections.
THEOREM EntriesDistinct ==
  Spec => []OneEntryInForce
<1>1. IInv => OneEntryInForce
  BY DEF IInv
<1>2. QED
  BY <1>1, Invariance, PTL

\* A chain of corrections neither forks nor leaves its slot, which no index ensures
\* (_latest_voided_labor, _require_same_labor_identity).
THEOREM ChainsDoNotFork ==
  Spec => []ReplacedOnce
<1>1. IInv => ReplacedOnce
  BY DEF IInv
<1>2. QED
  BY <1>1, Invariance, PTL

\* What a step makes of an entry: one that is voided stays as it is, pay changes only with
\* the assignment, and a replacement stays under its own (_labor_snapshot,
\* _update_labor_entry, _require_replacement_identity_unchanged).
Kept1(e) ==
  /\ e \in DOMAIN labor'
  /\ ~labor[e].active => labor'[e] = labor[e]
  /\ labor'[e].pay # labor[e].pay => labor'[e].assignment # labor[e].assignment
  /\ labor'[e].project = labor[e].project /\ labor'[e].replaces = labor[e].replaces
  /\ labor[e].replaces # Unset => labor'[e].assignment = labor[e].assignment

LEMMA StepKeepsWages ==
  IInv /\ [Next]_vars => [\A e \in DOMAIN labor : Kept1(e)]_vars
<1> SUFFICES ASSUME IInv, Next, NEW e \in DOMAIN labor PROVE Kept1(e)
  OBVIOUS
<1>1. CASE UNCHANGED labor
  BY <1>1 DEF Kept1
<1>2. CASE \E a \in Assignments, work \in Works : CreateLabor(a, work)
  <2>1. PICK a \in Assignments, work \in Works : CreateLabor(a, work)
    BY <1>2
  <2>2. PICK w : labor' = Append(labor, w)
    BY <2>1 DEF CreateLabor
  <2>3. labor \in Seq(EntryType) /\ DOMAIN labor = 1 .. Len(labor) /\ Len(labor) \in Nat
    BY Positions DEF IInv
  <2>4. e \in DOMAIN labor' /\ labor'[e] = labor[e]
    BY <2>2, <2>3
  <2>5. QED
    BY <2>4 DEF Kept1
<1>3. CASE \E f \in DOMAIN labor, a \in Assignments, work \in Works : UpdateLabor(f, a, work)
  <2>1. PICK f \in DOMAIN labor, a \in Assignments, work \in Works : UpdateLabor(f, a, work)
    BY <1>3
  <2>2. /\ DOMAIN labor' = DOMAIN labor
        /\ labor'[f] = Entry(a, Snapshot(f, a), work, labor[f].replaces)
        /\ \A g \in DOMAIN labor \ {f} : labor'[g] = labor[g]
    BY <2>1, Corrected
  <2>3. /\ labor[f].active /\ assignment[a].project = labor[f].project
        /\ labor[f].replaces # Unset => labor[f].assignment = a
    BY <2>1 DEF UpdateLabor, SameIdentity
  <2>4. /\ labor'[f].project = assignment[a].project /\ labor'[f].assignment = a
        /\ labor'[f].pay = Snapshot(f, a) /\ labor'[f].replaces = labor[f].replaces
    BY <2>2 DEF Entry
  <2>5. CASE e = f
    BY <2>2, <2>3, <2>4, <2>5 DEF Kept1, Snapshot
  <2>6. CASE e # f
    BY <2>2, <2>6 DEF Kept1
  <2>7. QED
    BY <2>5, <2>6
<1>4. CASE \E f \in DOMAIN labor : VoidLabor(f)
  <2>1. PICK f \in DOMAIN labor : VoidLabor(f)
    BY <1>4
  <2>2. labor[f].active /\ labor' = [labor EXCEPT ![f] = [labor[f] EXCEPT !.active = FALSE]]
    BY <2>1 DEF VoidLabor
  <2>3. labor[f] \in EntryType
    BY Positions DEF IInv
  <2>4. /\ e \in DOMAIN labor'
        /\ ~labor[e].active => labor'[e] = labor[e]
        /\ labor'[e].pay = labor[e].pay /\ labor'[e].project = labor[e].project
        /\ labor'[e].replaces = labor[e].replaces
        /\ labor'[e].assignment = labor[e].assignment
    BY <2>2, <2>3 DEF EntryType
  <2>5. QED
    BY <2>4 DEF Kept1
<1>5. CASE \E p \in Projects, works \in Pages : SaveBatch(p, works)
  BY <1>5, Paged DEF Kept1, Same
<1>6. CASE \/ \E p \in Projects : CloseProject(p) \/ RestoreProject(p)
           \/ \E form \in LeaveForms : DeactivateWorker(form)
           \/ \E w \in Workers : ReactivateWorker(w)
           \/ \E a \in Assignments, form \in AssignmentForms :
                CreateAssignment(a, form) \/ UpdateAssignment(a, form)
           \/ \E a \in Assignments, status \in Targets : TransitionAssignment(a, status)
  <2>1. UNCHANGED labor
    BY <1>6 DEF CloseProject, RestoreProject, DeactivateWorker, ReactivateWorker,
                CreateAssignment, UpdateAssignment, TransitionAssignment
  <2>2. QED
    BY <1>1, <2>1
<1>7. QED
  BY <1>2, <1>3, <1>4, <1>5, <1>6 DEF Next

\* A replacement has the pay of what it replaces.
PayKept ==
  \A e \in DOMAIN labor : labor[e].replaces # Unset => labor[e].pay = labor[labor[e].replaces].pay

\* What a step adds to the entries has the pay of what it replaces (_labor_values).
LEMMA AddedKeepPay ==
  ASSUME IInv, Next, NEW n \in DOMAIN labor' \ DOMAIN labor, labor'[n].replaces # Unset
  PROVE  /\ labor'[n].replaces \in DOMAIN labor /\ ~labor[labor'[n].replaces].active
         /\ labor'[n].pay = labor[labor'[n].replaces].pay
<1>1. CASE \E a \in Assignments, work \in Works : CreateLabor(a, work)
  <2>1. PICK a \in Assignments, work \in Works : CreateLabor(a, work)
    BY <1>1
  <2> DEFINE old == Replaced(a, work.day)
             w == Entry(a, PayOf(a, old), work, old)
  <2>2. labor' = Append(labor, w)
    BY <2>1 DEF CreateLabor
  <2>3. w.replaces = old /\ w.pay = PayOf(a, old)
    BY DEF Entry
  <2>4. old # Unset => old \in DOMAIN labor /\ ~labor[old].active
    BY ReplacedIsLast DEF IInv, OfWorker
  <2> HIDE DEF w, old
  <2>5. labor'[n] = w
    <3>1. labor \in Seq(EntryType) /\ DOMAIN labor = 1 .. Len(labor) /\ Len(labor) \in Nat
      BY Positions DEF IInv
    <3>2. DOMAIN labor' = 1 .. Len(labor) + 1 /\ labor'[Len(labor) + 1] = w
      BY <2>2, <3>1
    <3>3. n = Len(labor) + 1
      BY <3>1, <3>2
    <3>4. QED
      BY <3>2, <3>3
  <2>6. QED
    BY <2>3, <2>4, <2>5 DEF PayOf
<1>2. CASE \E f \in DOMAIN labor, a \in Assignments, work \in Works : UpdateLabor(f, a, work)
  BY <1>2, Corrected
<1>3. CASE \E f \in DOMAIN labor : VoidLabor(f)
  BY <1>3 DEF VoidLabor
<1>4. CASE \E p \in Projects, works \in Pages : SaveBatch(p, works)
  <2>1. Fits(labor'[n])
    BY <1>4, Paged
  <2>2. QED
    BY <2>1 DEF Fits, OfWorker
<1>5. CASE \/ \E p \in Projects : CloseProject(p) \/ RestoreProject(p)
           \/ \E form \in LeaveForms : DeactivateWorker(form)
           \/ \E w \in Workers : ReactivateWorker(w)
           \/ \E a \in Assignments, form \in AssignmentForms :
                CreateAssignment(a, form) \/ UpdateAssignment(a, form)
           \/ \E a \in Assignments, status \in Targets : TransitionAssignment(a, status)
  <2>1. UNCHANGED labor
    BY <1>5 DEF CloseProject, RestoreProject, DeactivateWorker, ReactivateWorker,
                CreateAssignment, UpdateAssignment, TransitionAssignment
  <2>2. QED
    BY <2>1
<1>6. QED
  BY <1>1, <1>2, <1>3, <1>4, <1>5 DEF Next

LEMMA StepKeepsPay ==
  ASSUME IInv, PayKept, [Next]_vars
  PROVE  PayKept'
<1>1. CASE UNCHANGED vars
  BY <1>1 DEF vars, PayKept
<1>2. CASE Next /\ ~UNCHANGED vars
  <2> SUFFICES ASSUME NEW e \in DOMAIN labor', labor'[e].replaces # Unset
               PROVE  labor'[e].pay = labor'[labor'[e].replaces].pay
    BY DEF PayKept, Unset
  <2>1. \A f \in DOMAIN labor : ~labor[f].active => labor'[f] = labor[f]
    BY <1>2, StepKeepsWages DEF Kept1
  <2>2. CASE e \in DOMAIN labor
    <3>1. /\ labor'[e].replaces = labor[e].replaces
          /\ labor'[e].pay = labor[e].pay
      BY <1>2, <2>2, StepKeepsWages DEF Kept1
    <3>2. /\ labor[e].replaces \in DOMAIN labor /\ ~labor[labor[e].replaces].active
      BY <2>2, <3>1, ReplacesAnEntry DEF IInv, ReplacedOnce
    <3>3. QED
      BY <2>1, <2>2, <3>1, <3>2 DEF PayKept
  <2>3. CASE e \notin DOMAIN labor
    BY <1>2, <2>1, <2>3, AddedKeepPay
  <2>4. QED
    BY <2>2, <2>3
<1>3. QED
  BY <1>1, <1>2

\* What work was paid is not rewritten by any change of a worker or an assignment or by any
\* page, and a replacement has the pay of what it replaces.
THEOREM WagesKept ==
  Spec => WagesStay
<1>1. Init => PayKept
  BY DEF Init, PayKept
<1>2. IInv /\ PayKept /\ [Next]_vars => PayKept'
  BY StepKeepsPay
<1>3. IInv /\ PayKept' /\ [Next]_vars
      => [/\ \A e \in DOMAIN labor :
               /\ e \in DOMAIN labor'
               /\ ~labor[e].active => labor'[e] = labor[e]
               /\ labor'[e].pay # labor[e].pay => labor'[e].assignment # labor[e].assignment
               /\ labor'[e].project = labor[e].project /\ labor'[e].replaces = labor[e].replaces
          /\ \A e \in DOMAIN labor' : labor'[e].replaces # Unset =>
               labor'[e].pay = labor'[labor'[e].replaces].pay]_vars
  BY StepKeepsWages DEF Kept1, PayKept, Unset
<1>4. QED
  BY <1>1, <1>2, <1>3, Invariance, PTL DEF Spec, WagesStay
=============================================================================
