--------------------------- MODULE SiteOperations ---------------------------
(***************************************************************************)
(* Daily reports of a site and what workers advance for material there     *)
(* (features/site_operations.py).                                          *)
(*                                                                         *)
(* A report is a row of site_daily_reports with its immutable versions and *)
(* the number of its confirmations (site_daily_report_versions and         *)
(* _events); an advance is a row of material_advances with its items and   *)
(* repayments.                                                             *)
(***************************************************************************)
EXTENDS ProjectRows

CONSTANTS
  WorkDates, Texts,
  AdvanceForms,      \* requests of an instance: project, items and documents
  Amounts,           \* that are repaid
  MaxVersions, MaxRepayments      \* bounds of an instance

ASSUME AmountsAssumption == Amounts \subseteq Nat

-----------------------------------------------------------------------------
(* Daily reports.                                                          *)

Report(p, date, text) ==
  [kind |-> "report", project |-> p, date |-> date, text |-> text, status |-> "draft",
   versions |-> <<>>, confirmed |-> 0]

Version(number, text) == [number |-> number, text |-> text]

\* What migration 021 leaves of the reports before it: it made a version of every
\* confirmed one, numbered by its confirmations, if any were on record, and of no other.
Migrated(p, date, text) ==
  {Report(p, date, text)} \cup
  {[Report(p, date, text) EXCEPT !.confirmed = n] : n \in 1 .. 2} \cup
  {[Report(p, date, text) EXCEPT !.confirmed = n, !.status = "confirmed",
     !.versions = <<Version(IF n = 0 THEN 1 ELSE n, text)>>] : n \in 0 .. 2}

CreateReport(p, date, text) ==
  /\ \A i \in RowsOf("report", p) : rows[i].date # date
  /\ Add(Report(p, date, text))

UpdateReport(i, text) ==
  /\ rows[i].kind = "report" /\ rows[i].status = "draft"
  /\ Save(i, [rows[i] EXCEPT !.text = text])

\* Mutation: versions are numbered by themselves.
NextOfVersions(report) ==
  IF report.versions = <<>> THEN 1 ELSE Last(report.versions).number + 1

\* Confirmations from before versions were kept count too.
NextNumber(report) ==
  LET latest == IF report.versions = <<>> THEN 0 ELSE Last(report.versions).number
  IN (IF latest > report.confirmed THEN latest ELSE report.confirmed) + 1

ConfirmReport(i) ==
  /\ rows[i].kind = "report" /\ rows[i].status = "draft"
  /\ Len(rows[i].versions) < MaxVersions
  /\ Save(i, [rows[i] EXCEPT !.status = "confirmed", !.confirmed = @ + 1,
       !.versions = Append(@, Version(NextNumber(rows[i]), rows[i].text))])

ReopenReport(i) ==
  /\ rows[i].kind = "report" /\ rows[i].status = "confirmed" /\ rows[i].versions # <<>>
  /\ Save(i, [rows[i] EXCEPT !.status = "draft"])

-----------------------------------------------------------------------------
(* Advances.  That the worker is assigned to the project on the day is a   *)
(* matter of Workforce: a form is a request for which this is so.          *)

\* In cents, from a price and thousandths of a unit, rounded half up.
LineAmount(item) == (item.price * item.quantity + 500) \div 1000
TotalOf(items) == SumFunction([k \in DOMAIN items |-> LineAmount(items[k])])

Items == [price : Nat, quantity : Nat]
ASSUME AdvanceFormsAssumption ==
  AdvanceForms \subseteq [project : Projects, items : Seq(Items), documents : SUBSET Documents]

Advance(form) ==
  [kind |-> "advance", project |-> form.project, items |-> form.items,
   documents |-> form.documents, status |-> "active", total |-> TotalOf(form.items),
   repaid |-> <<>>]

InForce(advance) == {r \in DOMAIN advance.repaid : advance.repaid[r].active}
Repaid(advance) == SumFunction([r \in InForce(advance) |-> advance.repaid[r].amount])

CreateAdvance(form) == Linkable(form.documents) /\ Add(Advance(form))

\* Mutation: only the status is looked at.
Unvoided(i) == rows[i].status = "active"

Unreimbursed(i) == rows[i].status = "active" /\ Repaid(rows[i]) = 0

UpdateAdvance(i, form) ==
  /\ rows[i].kind = "advance" /\ form.project = rows[i].project
  /\ Unreimbursed(i) /\ Linkable(form.documents)
  /\ Save(i, [rows[i] EXCEPT !.items = form.items, !.total = TotalOf(form.items),
                             !.documents = form.documents])

VoidAdvance(i) ==
  /\ rows[i].kind = "advance" /\ Unreimbursed(i)
  /\ Save(i, [rows[i] EXCEPT !.status = "voided"])

\* The one change that names no revision: what it is checked against is the current total.
Reimburse(i, amount) ==
  /\ rows[i].kind = "advance" /\ rows[i].status = "active"
  /\ Repaid(rows[i]) + amount <= rows[i].total
  /\ Len(rows[i].repaid) < MaxRepayments
  /\ Save(i, [rows[i] EXCEPT !.repaid = Append(@, [amount |-> amount, active |-> TRUE])])

VoidReimbursement(i, r) ==
  /\ rows[i].repaid[r].active
  /\ Save(i, [rows[i] EXCEPT !.repaid[r].active = FALSE])

-----------------------------------------------------------------------------
OnReports ==
  \/ \E p \in Projects, date \in WorkDates, text \in Texts : CreateReport(p, date, text)
  \/ \E i \in DOMAIN rows, text \in Texts : UpdateReport(i, text)
  \/ \E i \in DOMAIN rows : ConfirmReport(i) \/ ReopenReport(i)

OnAdvances ==
  \/ \E form \in AdvanceForms : CreateAdvance(form)
  \/ \E i \in DOMAIN rows, form \in AdvanceForms : UpdateAdvance(i, form)
  \/ \E i \in DOMAIN rows : VoidAdvance(i)
  \/ \E i \in DOMAIN rows, amount \in Amounts : Reimburse(i, amount)
  \/ \E i \in DOMAIN rows : /\ rows[i].kind = "advance"
                            /\ \E r \in DOMAIN rows[i].repaid : VoidReimbursement(i, r)

SiteInit ==
  /\ open = Projects /\ archived = {}
  /\ rows \in {<<>>} \cup
       UNION {{<<r>> : r \in Migrated(p, date, text)} : p \in Projects, date \in WorkDates, text \in Texts}

SiteNext == OnReports \/ OnAdvances \/ Elsewhere

SiteSpec == SiteInit /\ [][SiteNext]_vars

-----------------------------------------------------------------------------
(* Properties.                                                             *)

ReportType ==
  [kind : {"report"}, project : Projects, date : WorkDates, text : Texts,
   status : {"draft", "confirmed"}, versions : Seq([number : Nat, text : Texts]), confirmed : Nat]
AdvanceType ==
  [kind : {"advance"}, project : Projects, items : Seq(Items), documents : SUBSET Documents,
   status : {"active", "voided"}, total : Nat, repaid : Seq([amount : Nat, active : BOOLEAN])]

\* No more is repaid than was advanced, and nothing of a voided advance, although
\* repayments, their reversals, changes of the items and voiding come in any order.
RepaidWithinTotal ==
  \A i \in DOMAIN rows : rows[i].kind = "advance" =>
    Repaid(rows[i]) <= IF rows[i].status = "voided" THEN 0 ELSE rows[i].total

\* A confirmed report says what its latest version says, so that it can be reopened; and
\* versions are numbered upwards, none below the count of confirmations it came with,
\* those before versions were kept included.
ConfirmedIsVersioned ==
  \A i \in DOMAIN rows : rows[i].kind = "report" =>
    LET versions == rows[i].versions IN
    /\ rows[i].status = "confirmed" => versions # <<>> /\ Last(versions).text = rows[i].text
    /\ \A v \in DOMAIN versions : versions[v].number >= rows[i].confirmed - (Len(versions) - v)
    /\ \A v, w \in DOMAIN versions : v < w => versions[v].number < versions[w].number
=============================================================================
