--------------------------- MODULE DeliveryRecords ---------------------------
(***************************************************************************)
(* What is recorded while a project is delivered and after: sign-offs of   *)
(* drawings, commissioning sessions, engineering changes, invoices, the    *)
(* term of the warranty and after-sales cases (features/delivery.py).      *)
(* Acceptance is in ProjectCompletion.                                     *)
(***************************************************************************)
EXTENDS ProjectRows

CONSTANTS
  SignoffForms,   \* requests of an instance: project, discipline, status, documents;
  SessionForms,   \* project, status, ended, documents;
  ChangeForms,    \* project, terms, documents;
  InvoiceForms,   \* project, status, requested, recorded, number, amount, documents;
  TermForms,      \* project, from, to;
  CaseForms,      \* project, reported, coverage
  Key(_)          \* of an invoice number: without case and spaces around it

ASSUME SignoffFormsAssumption ==
  SignoffForms \subseteq
    [project : Projects, discipline : STRING, status : STRING, documents : SUBSET Documents]
ASSUME SessionFormsAssumption ==
  SessionForms \subseteq
    [project : Projects, status : STRING, ended : BOOLEAN, documents : SUBSET Documents]
ASSUME ChangeFormsAssumption ==
  ChangeForms \subseteq [project : Projects, terms : STRING, documents : SUBSET Documents]
ASSUME InvoiceFormsAssumption ==
  InvoiceForms \subseteq
    [project : Projects, status : {"planned", "requested", "recorded"}, requested : SUBSET Nat,
     recorded : SUBSET Nat, number : SUBSET STRING, amount : SUBSET Nat,
     documents : SUBSET Documents]
ASSUME TermFormsAssumption == TermForms \subseteq [project : Projects, from : Nat, to : Nat]
ASSUME CaseFormsAssumption ==
  CaseForms \subseteq [project : Projects, reported : Nat, coverage : STRING]

-----------------------------------------------------------------------------
(* Sign-offs and commissioning: any status may follow any other.           *)

Signoff(form) ==
  [kind |-> "signoff", project |-> form.project, discipline |-> form.discipline,
   status |-> form.status, documents |-> form.documents]

PutSignoff(form) ==
  LET old == {i \in RowsOf("signoff", form.project) : rows[i].discipline = form.discipline} IN
  /\ Linkable(form.documents)
  /\ IF old = {} THEN Add(Signoff(form)) ELSE \E i \in old : Save(i, Signoff(form))

Session(form) ==
  [kind |-> "session", project |-> form.project, status |-> form.status, ended |-> form.ended,
   documents |-> form.documents]

Over(form) == form.status \in {"completed", "cancelled"} => form.ended

CreateSession(form) ==
  Over(form) /\ Linkable(form.documents) /\ Add(Session(form))

UpdateSession(i, form) ==
  /\ rows[i].kind = "session" /\ form.project = rows[i].project
  /\ Over(form) /\ Linkable(form.documents)
  /\ Save(i, Session(form))

-----------------------------------------------------------------------------
(* Engineering changes.                                                    *)

ChangeNumber(p) == Max({rows[i].number : i \in RowsOf("change", p)} \cup {0}) + 1

Change(form) ==
  [kind |-> "change", project |-> form.project, terms |-> form.terms,
   documents |-> form.documents, number |-> ChangeNumber(form.project), status |-> "proposed"]

CreateChange(form) == Linkable(form.documents) /\ Add(Change(form))

UpdateChange(i, form) ==
  /\ rows[i].kind = "change" /\ form.project = rows[i].project
  /\ rows[i].status = "proposed" /\ Linkable(form.documents)
  /\ Save(i, [rows[i] EXCEPT !.terms = form.terms, !.documents = form.documents])

ChangeTransitions ==
  {<<"proposed", "approved">>, <<"proposed", "rejected">>, <<"proposed", "cancelled">>,
   <<"approved", "implemented">>, <<"approved", "cancelled">>}

TransitionChange(i, status) ==
  /\ rows[i].kind = "change" /\ <<rows[i].status, status>> \in ChangeTransitions
  /\ Save(i, [rows[i] EXCEPT !.status = status])

-----------------------------------------------------------------------------
(* Invoices.  What may be missing is a set that holds it, or is Unset.     *)

Unset == {}

WellFormed(form) ==
  /\ form.status # "planned" => form.requested # Unset
  /\ form.status = "recorded" =>
       form.recorded # Unset /\ form.number # Unset /\ form.amount # Unset
  /\ \A first \in form.requested, last \in form.recorded : first <= last

Standing == {i \in DOMAIN rows : rows[i].kind = "invoice" /\ rows[i].status # "void"}

\* Mutation: numbers are compared as they were typed.
SpellingFree(number, others) ==
  \A n \in number, i \in Standing \cap others : n \notin rows[i].number

NumberFree(number, others) ==
  \A n \in number, i \in Standing \cap others : \A m \in rows[i].number : Key(m) # Key(n)

Invoice(form) ==
  [kind |-> "invoice", project |-> form.project, status |-> form.status,
   requested |-> form.requested, recorded |-> form.recorded, number |-> form.number,
   amount |-> form.amount, documents |-> form.documents]

CreateInvoice(form) ==
  /\ WellFormed(form) /\ NumberFree(form.number, DOMAIN rows) /\ Linkable(form.documents)
  /\ Add(Invoice(form))

Formal == {"status", "recorded", "number", "amount"}

\* Mutation: the amount of a recorded invoice may change.
FormalButAmount(form, row) == \A f \in Formal \ {"amount"} : form[f] = row[f]

FormalKept(form, row) == \A f \in Formal : form[f] = row[f]

UpdateInvoice(i, form) ==
  /\ rows[i].kind = "invoice" /\ form.project = rows[i].project /\ rows[i].status # "void"
  /\ WellFormed(form)
  /\ rows[i].status = "recorded" => FormalKept(form, rows[i])
  /\ NumberFree(form.number, DOMAIN rows \ {i}) /\ Linkable(form.documents)
  /\ Save(i, Invoice(form))

VoidInvoice(i) ==
  /\ rows[i].kind = "invoice" /\ rows[i].status # "void"
  /\ Save(i, [rows[i] EXCEPT !.status = "void"])

-----------------------------------------------------------------------------
(* The warranty and after-sales cases.                                     *)

Warranty(form) ==
  [kind |-> "warranty", project |-> form.project, from |-> form.from, to |-> form.to]

UnderWarranty(p, day) == \E i \in RowsOf("warranty", p) : day \in rows[i].from .. rows[i].to

\* Mutation: a new term is applied to the cases there are.
PutTermEverywhere(form) ==
  LET old == RowsOf("warranty", form.project)
      fits(i) == rows[i].reported \in form.from .. form.to
  IN \/ old = {} /\ Add(Warranty(form))
     \/ /\ old # {} /\ form.project \in open
        /\ rows' = [i \in DOMAIN rows |->
                     CASE i \in old -> Warranty(form)
                       [] i \in RowsOf("case", form.project) -> [rows[i] EXCEPT !.under = fits(i)]
                       [] OTHER -> rows[i]]
        /\ UNCHANGED <<open, archived>>

\* The final acceptance that a first term needs is in ProjectCompletion.
PutTerm(form) ==
  LET old == RowsOf("warranty", form.project)
  IN IF old = {} THEN Add(Warranty(form)) ELSE \E i \in old : Save(i, Warranty(form))

Covered(form) == form.coverage = "warranty" => UnderWarranty(form.project, form.reported)

Case(form) ==
  [kind |-> "case", project |-> form.project, reported |-> form.reported,
   coverage |-> form.coverage, under |-> UnderWarranty(form.project, form.reported),
   status |-> "open", resolved |-> FALSE]

CreateCase(form) == Covered(form) /\ Add(Case(form))

Closed == {"completed", "cancelled"}

UpdateCase(i, form) ==
  /\ rows[i].kind = "case" /\ form.project = rows[i].project
  /\ rows[i].status \notin Closed /\ Covered(form)
  /\ Save(i, [rows[i] EXCEPT !.reported = form.reported, !.coverage = form.coverage,
                             !.under = UnderWarranty(form.project, form.reported)])

CaseTransitions ==
  {<<"open", "in_progress">>, <<"open", "completed">>, <<"open", "cancelled">>,
   <<"in_progress", "completed">>, <<"in_progress", "cancelled">>}

\* Each transition gives the resolution anew; completion needs one.
TransitionCase(i, status, resolved) ==
  /\ rows[i].kind = "case" /\ <<rows[i].status, status>> \in CaseTransitions
  /\ status = "completed" => resolved
  /\ Save(i, [rows[i] EXCEPT !.status = status, !.resolved = resolved])

-----------------------------------------------------------------------------
OnDrawings ==
  \/ \E form \in SignoffForms : PutSignoff(form)
  \/ \E form \in SessionForms : CreateSession(form)
  \/ \E i \in DOMAIN rows, form \in SessionForms : UpdateSession(i, form)

OnChanges ==
  \/ \E form \in ChangeForms : CreateChange(form)
  \/ \E i \in DOMAIN rows, form \in ChangeForms : UpdateChange(i, form)
  \/ \E i \in DOMAIN rows, status \in {t[2] : t \in ChangeTransitions} : TransitionChange(i, status)

OnInvoices ==
  \/ \E form \in InvoiceForms : CreateInvoice(form)
  \/ \E i \in DOMAIN rows, form \in InvoiceForms : UpdateInvoice(i, form)
  \/ \E i \in DOMAIN rows : VoidInvoice(i)

OnCases ==
  \/ \E form \in TermForms : PutTerm(form)
  \/ \E form \in CaseForms : CreateCase(form)
  \/ \E i \in DOMAIN rows, form \in CaseForms : UpdateCase(i, form)
  \/ \E i \in DOMAIN rows, status \in {t[2] : t \in CaseTransitions}, resolved \in BOOLEAN :
       TransitionCase(i, status, resolved)

DeliveryInit == open = Projects /\ archived = {} /\ rows = <<>>

DeliveryNext == OnDrawings \/ OnChanges \/ OnInvoices \/ OnCases \/ Elsewhere

DeliverySpec == DeliveryInit /\ [][DeliveryNext]_vars

-----------------------------------------------------------------------------
(* Properties.                                                             *)

SignoffType ==
  [kind : {"signoff"}, project : Projects, discipline : STRING, status : STRING,
   documents : SUBSET Documents]
SessionType ==
  [kind : {"session"}, project : Projects, status : STRING, ended : BOOLEAN,
   documents : SUBSET Documents]
ChangeType ==
  [kind : {"change"}, project : Projects, terms : STRING, documents : SUBSET Documents,
   number : Nat, status : {"proposed", "approved", "rejected", "cancelled", "implemented"}]
InvoiceType ==
  [kind : {"invoice"}, project : Projects, status : {"planned", "requested", "recorded", "void"},
   requested : SUBSET Nat, recorded : SUBSET Nat, number : SUBSET STRING, amount : SUBSET Nat,
   documents : SUBSET Documents]
WarrantyType == [kind : {"warranty"}, project : Projects, from : Nat, to : Nat]
CaseType ==
  [kind : {"case"}, project : Projects, reported : Nat, coverage : STRING, under : BOOLEAN,
   status : {"open", "in_progress"} \cup Closed, resolved : BOOLEAN]

\* Of all projects' invoices that are not void no two have one number, in whatever
\* spelling: projects are archived and restored, invoices voided, renumbered and entered
\* again, and project_invoices has no index that would refuse it.
NumbersUnique ==
  \A i, j \in Standing : i # j =>
    \A m \in rows[i].number, n \in rows[j].number : Key(m) # Key(n)

\* What was settled stays: the formal fields of a recorded invoice until it is void and a
\* void one for good, a change once it was decided, a closed case.  A new term of the
\* warranty leaves the cases as they are; who saves one that is open has it judged by the
\* term of that moment, and only what is under it is covered by it.
SettledStays ==
  [][\A i \in DOMAIN rows :
       LET old == rows[i] new == rows'[i] IN
       /\ old.kind = "invoice" /\ old.status = "recorded" =>
            (\A f \in Formal : new[f] = old[f]) \/ new = [old EXCEPT !.status = "void"]
       /\ old.kind = "invoice" /\ old.status = "void" => new = old
       /\ old.kind = "change" /\ old.status # "proposed" =>
            new = [old EXCEPT !.status = new.status]
       /\ old.kind = "change" /\ old.status \notin {"proposed", "approved"} => new = old
       /\ old.kind = "case" /\ old.status \in Closed => new = old
       /\ old.kind = "case" =>
            \/ new = [old EXCEPT !.status = new.status, !.resolved = new.resolved]
            \/ /\ new.under = UnderWarranty(old.project, new.reported)
               /\ new.coverage = "warranty" => new.under]_vars
=============================================================================
