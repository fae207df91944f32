------------------------ MODULE ProjectRecordsProofs ------------------------
(* For any requests, projects and numbers of rows: records keep their      *)
(* columns, invoice numbers are unique, confirmed reports are their latest *)
(* version, no more is repaid than was advanced and what was settled       *)
(* stays.                                                                  *)
EXTENDS ProjectRecords, SequenceTheorems, SumTheorems, TLAPS

-----------------------------------------------------------------------------
(* What a step adds, and what it makes of a record.                        *)

\* What is said of one report by ConfirmedIsVersioned.
Versioned(report) ==
  /\ report.status = "confirmed" =>
       report.versions # <<>> /\ Last(report.versions).text = report.text
  /\ \A v \in DOMAIN report.versions :
       report.versions[v].number >= report.confirmed - (Len(report.versions) - v)
  /\ \A v, w \in DOMAIN report.versions :
       v < w => report.versions[v].number < report.versions[w].number

\* The numbers of changes do not outrun the rows, so that they have a greatest one.
Numbered == \A i \in DOMAIN rows : rows[i].kind = "change" => rows[i].number <= Len(rows)

Reports == \A i \in DOMAIN rows : rows[i].kind = "report" => Versioned(rows[i])

\* What is said of one advance by RepaidWithinTotal.
Honest(advance) ==
  Repaid(advance) <= IF advance.status = "voided" THEN 0 ELSE advance.total

Advances == \A i \in DOMAIN rows : rows[i].kind = "advance" => Honest(rows[i])

IInv == TypeOK /\ Numbered /\ Reports /\ Advances /\ NumbersUnique

NewRow(row) ==
  /\ row \in RowType
  /\ row.kind = "change" => row.number <= Len(rows) + 1
  /\ row.kind = "report" => Versioned(row)
  /\ row.kind = "advance" => Honest(row)
  /\ row.kind = "invoice" => NumberFree(row.number, DOMAIN rows)

\* What it says of a case: only who saves it has it judged by the term.
Judged(old, new) ==
  \/ new = [old EXCEPT !.status = new.status, !.resolved = new.resolved]
  \/ /\ new.under = UnderWarranty(old.project, new.reported)
     /\ new.coverage = "warranty" => new.under

\* What SettledStays says of one record.
Settled(old, new) ==
  /\ old.kind = "invoice" /\ old.status = "recorded" =>
       (\A f \in Formal : new[f] = old[f]) \/ new = [old EXCEPT !.status = "void"]
  /\ old.kind = "invoice" /\ old.status = "void" => new = old
  /\ old.kind = "change" /\ old.status # "proposed" => new = [old EXCEPT !.status = new.status]
  /\ old.kind = "change" /\ old.status \notin {"proposed", "approved"} => new = old
  /\ old.kind = "case" /\ old.status \in Closed => new = old
  /\ old.kind = "case" => Judged(old, new)

SavedRow(i, row) ==
  /\ row \in RowType /\ row.kind = rows[i].kind
  /\ row.kind = "change" => row.number = rows[i].number
  /\ row.kind = "report" => Versioned(row)
  /\ row.kind = "advance" => Honest(row)
  /\ row.kind = "invoice" => row.status = "void" \/ NumberFree(row.number, DOMAIN rows \ {i})
  /\ Settled(rows[i], row)

Adds == \E row : NewRow(row) /\ Add(row)
Saves == \E i \in DOMAIN rows : \E row : SavedRow(i, row) /\ Save(i, row)

-----------------------------------------------------------------------------
(* Records of a kind have the columns of their table.                      *)

LEMMA Columns ==
  ASSUME NEW r \in RowType
  PROVE  /\ r.kind = "report" => r \in ReportType
         /\ r.kind = "advance" => r \in AdvanceType
         /\ r.kind = "signoff" => r \in SignoffType
         /\ r.kind = "session" => r \in SessionType
         /\ r.kind = "change" => r \in ChangeType
         /\ r.kind = "invoice" => r \in InvoiceType
         /\ r.kind = "warranty" => r \in WarrantyType
         /\ r.kind = "case" => r \in CaseType
BY DEF RowType, ReportType, AdvanceType, SignoffType, SessionType, ChangeType, InvoiceType,
   WarrantyType, CaseType

LEMMA Rows ==
  ASSUME TypeOK
  PROVE  /\ rows \in Seq(RowType) /\ Len(rows) \in Nat /\ DOMAIN rows = 1 .. Len(rows)
         /\ \A i \in DOMAIN rows : rows[i] \in RowType
BY DEF TypeOK

LEMMA Added ==
  ASSUME TypeOK, NEW row \in RowType, Add(row)
  PROVE  /\ TypeOK' /\ Len(rows') = Len(rows) + 1 /\ DOMAIN rows' = 1 .. Len(rows) + 1
         /\ \A i \in DOMAIN rows : rows'[i] = rows[i]
         /\ rows'[Len(rows) + 1] = row
<1>1. rows' = Append(rows, row) /\ UNCHANGED <<open, archived>>
  BY DEF Add
<1>2. rows \in Seq(RowType)
  BY Rows
<1>3. /\ rows' \in Seq(RowType) /\ Len(rows') = Len(rows) + 1
      /\ \A i \in 1 .. Len(rows) : rows'[i] = rows[i]
      /\ rows'[Len(rows) + 1] = row
  BY <1>1, <1>2, AppendProperties, Zenon
<1>4. DOMAIN rows' = 1 .. Len(rows) + 1 /\ DOMAIN rows = 1 .. Len(rows)
  BY <1>2, <1>3, LenProperties
<1>5. QED
  BY <1>1, <1>3, <1>4 DEF TypeOK

LEMMA Saved ==
  ASSUME TypeOK, NEW i \in DOMAIN rows, NEW row \in RowType, Save(i, row)
  PROVE  /\ TypeOK' /\ Len(rows') = Len(rows) /\ DOMAIN rows' = DOMAIN rows
         /\ \A j \in DOMAIN rows : rows'[j] = IF j = i THEN row ELSE rows[j]
<1>1. rows' = [rows EXCEPT ![i] = row] /\ UNCHANGED <<open, archived>>
  BY DEF Save
<1>2. rows \in Seq(RowType) /\ DOMAIN rows = 1 .. Len(rows) /\ Len(rows) \in Nat
  BY Rows
<1>3. /\ rows' \in Seq(RowType) /\ Len(rows') = Len(rows)
      /\ \A j \in 1 .. Len(rows) : rows'[j] = IF j = i THEN row ELSE rows[j]
  BY <1>1, <1>2, ExceptSeq
<1>4. QED
  BY <1>1, <1>2, <1>3 DEF TypeOK

-----------------------------------------------------------------------------
(* Such steps keep the invariant and what is settled.                      *)

LEMMA AddsKeep ==
  ASSUME IInv, Adds
  PROVE  IInv' /\ \A i \in DOMAIN rows : rows'[i] = rows[i]
<1>1. PICK row : NewRow(row) /\ Add(row)
  BY DEF Adds
<1> DEFINE n == Len(rows) + 1
<1>2. TypeOK /\ row \in RowType
  BY <1>1 DEF IInv, NewRow
<1>3. /\ TypeOK' /\ Len(rows') = n /\ DOMAIN rows' = 1 .. n
      /\ \A i \in DOMAIN rows : rows'[i] = rows[i]
      /\ rows'[n] = row
  BY <1>1, <1>2, Added
<1>4. DOMAIN rows' = DOMAIN rows \cup {n} /\ n \notin DOMAIN rows /\ Len(rows) \in Nat
  BY <1>2, <1>3, Rows
<1>5. Numbered'
  <2>1. \A i \in DOMAIN rows : rows[i].kind = "change" => rows[i].number \in Nat
    BY <1>2, Rows, Columns DEF ChangeType
  <2>2. \A i \in DOMAIN rows : rows'[i].kind = "change" => rows'[i].number <= n
    BY <1>3, <1>4, <2>1 DEF IInv, Numbered
  <2>3. row.kind = "change" => row.number <= n
    BY <1>1 DEF NewRow
  <2>4. QED
    BY <1>3, <1>4, <2>2, <2>3 DEF Numbered
<1> HIDE DEF n
<1>6. Reports'
  <2>1. row.kind = "report" => Versioned(row)
    BY <1>1 DEF NewRow
  <2>2. \A i \in DOMAIN rows : rows[i].kind = "report" => Versioned(rows[i])
    BY DEF IInv, Reports
  <2>3. QED
    BY <1>3, <1>4, <2>1, <2>2 DEF Reports
<1>7. Advances'
  <2>1. row.kind = "advance" => Honest(row)
    BY <1>1 DEF NewRow
  <2>2. \A i \in DOMAIN rows : rows[i].kind = "advance" => Honest(rows[i])
    BY DEF IInv, Advances
  <2>3. QED
    BY <1>3, <1>4, <2>1, <2>2 DEF Advances
<1>8. NumbersUnique'
  <2>1. row.kind = "invoice" => NumberFree(row.number, DOMAIN rows)
    BY <1>1 DEF NewRow
  <2>2. Standing' \subseteq Standing \cup {n} /\ Standing \subseteq DOMAIN rows
    BY <1>3, <1>4 DEF Standing
  <2>3. n \in Standing' => row.kind = "invoice"
    BY <1>3 DEF Standing
  <2>4. n \in Standing' => \A i \in Standing : \A m \in row.number, k \in rows[i].number : Key(k) # Key(m)
    BY <2>1, <2>2, <2>3 DEF NumberFree
  <2>5. QED
    BY <1>3, <1>4, <2>2, <2>4 DEF IInv, NumbersUnique
<1>9. QED
  BY <1>3, <1>5, <1>6, <1>8, <1>7 DEF IInv

LEMMA SavesKeep ==
  ASSUME IInv, Saves
  PROVE  IInv' /\ \A i \in DOMAIN rows : rows'[i] = rows[i] \/ Settled(rows[i], rows'[i])
<1>1. PICK i \in DOMAIN rows : \E row : SavedRow(i, row) /\ Save(i, row)
  BY DEF Saves
<1>2. PICK row : SavedRow(i, row) /\ Save(i, row)
  BY <1>1
<1>3. TypeOK /\ row \in RowType
  BY <1>2 DEF IInv, SavedRow
<1>4. /\ TypeOK' /\ Len(rows') = Len(rows) /\ DOMAIN rows' = DOMAIN rows
      /\ \A j \in DOMAIN rows : rows'[j] = IF j = i THEN row ELSE rows[j]
  BY <1>2, <1>3, Saved
<1>5. Numbered'
  BY <1>2, <1>4 DEF IInv, Numbered, SavedRow
<1>6. Reports'
  <2>1. row.kind = "report" => Versioned(row)
    BY <1>2 DEF SavedRow
  <2>2. QED
    BY <1>4, <2>1 DEF IInv, Reports
<1>7. Advances'
  <2>1. row.kind = "advance" => Honest(row)
    BY <1>2 DEF SavedRow
  <2>2. QED
    BY <1>4, <2>1 DEF IInv, Advances
<1>8. NumbersUnique'
  <2>1. row.kind = "invoice" => row.status = "void" \/ NumberFree(row.number, DOMAIN rows \ {i})
    BY <1>2 DEF SavedRow
  <2>2. Standing' \subseteq Standing \cup {i} /\ Standing \subseteq DOMAIN rows
    BY <1>4 DEF Standing
  <2>3. i \in Standing' => row.kind = "invoice" /\ row.status # "void"
    BY <1>2, <1>4 DEF Standing
  <2>4. i \in Standing' =>
          \A j \in Standing \ {i} : \A m \in row.number, k \in rows[j].number : Key(k) # Key(m)
    BY <2>1, <2>2, <2>3 DEF NumberFree
  <2>5. QED
    BY <1>4, <2>2, <2>4 DEF IInv, NumbersUnique
<1>9. Settled(rows[i], row)
  BY <1>2 DEF SavedRow
<1>10. QED
  BY <1>4, <1>5, <1>6, <1>8, <1>9, <1>7 DEF IInv

-----------------------------------------------------------------------------
(* Site: reports and advances.                                             *)

LEMMA NewVersion ==
  ASSUME NEW report \in ReportType, Versioned(report)
  PROVE  LET row == [report EXCEPT !.status = "confirmed", !.confirmed = @ + 1,
                       !.versions = Append(@, Version(NextNumber(report), report.text))]
         IN row \in ReportType /\ Versioned(row)
<1> DEFINE old == report.versions
           n == Len(old)
           new == Version(NextNumber(report), report.text)
           versions == Append(old, new)
           row == [report EXCEPT !.status = "confirmed", !.confirmed = @ + 1,
                                 !.versions = Append(@, Version(NextNumber(report), report.text))]
           Numbers == [number : Nat, text : Texts]
<1> HIDE DEF new, versions, row
<1>1. /\ old \in Seq(Numbers) /\ report.confirmed \in Nat /\ report.text \in Texts
  BY DEF ReportType
<1> HIDE DEF old
<1>2. /\ n \in Nat /\ DOMAIN old = 1 .. n /\ \A v \in 1 .. n : old[v] \in Numbers
      /\ old # <<>> => n \in 1 .. n /\ Last(old) = old[n]
  <2> HIDE DEF Numbers
  <2>1. /\ n \in Nat /\ DOMAIN old = 1 .. n /\ \A v \in 1 .. n : old[v] \in Numbers
    BY <1>1, LenProperties, ElementOfSeq
  <2>2. old # <<>> => n \in 1 .. n
    BY <1>1, <2>1
  <2>3. Last(old) = old[n]
    BY DEF Last
  <2>4. QED
    BY <2>1, <2>2, <2>3
<1>3. \A v \in 1 .. n : old[v].number \in Nat
  BY <1>2
<1>4. /\ \A v \in 1 .. n : old[v].number >= report.confirmed - (n - v)
      /\ \A v, w \in 1 .. n : v < w => old[v].number < old[w].number
  BY <1>2 DEF Versioned, old
<1> DEFINE next == NextNumber(report)
<1>5. /\ next \in Nat /\ next > report.confirmed
      /\ \A v \in 1 .. n : old[v].number < next
  <2>1. CASE old = <<>>
    <3>1. next = report.confirmed + 1 /\ n = 0
      BY <1>1, <2>1 DEF NextNumber, old
    <3>2. QED
      BY <1>1, <3>1
  <2>2. CASE old # <<>>
    <3> DEFINE m == old[n].number
    <3>1. m \in Nat /\ n \in 1 .. n
      BY <1>2, <1>3, <2>2
    <3>2. next = (IF m > report.confirmed THEN m ELSE report.confirmed) + 1
      BY <1>2, <2>2 DEF NextNumber, old
    <3>3. \A v \in 1 .. n : v < n => old[v].number < m
      BY <1>4, <3>1
    <3> HIDE DEF m
    <3>4. next \in Nat /\ next > report.confirmed /\ next > m
      BY <1>1, <3>1, <3>2
    <3> HIDE DEF next, n
    <3>5. ASSUME NEW v \in 1 .. n PROVE old[v].number < next
      <4>1. v < n \/ v = n
        BY <1>2
      <4>2. old[v].number \in Nat
        BY <1>3
      <4>3. CASE v < n
        BY <3>1, <3>3, <3>4, <4>2, <4>3
      <4>4. CASE v = n
        BY <3>4, <4>4 DEF m
      <4>5. QED
        BY <4>1, <4>3, <4>4
    <3>6. QED
      BY <3>4, <3>5
  <2>3. QED
    BY <2>1, <2>2
<1> HIDE DEF next, n
<1>6. new \in Numbers /\ new.number = next /\ new.text = report.text
  BY <1>1, <1>5 DEF Version, new, next
<1> HIDE DEF Numbers
<1>7. /\ versions \in Seq(Numbers) /\ Len(versions) = n + 1
      /\ \A v \in 1 .. n : versions[v] = old[v]
      /\ versions[n + 1] = new
  <2>1. /\ Append(old, new) \in Seq(Numbers) /\ Len(Append(old, new)) = Len(old) + 1
        /\ \A v \in 1 .. Len(old) : Append(old, new)[v] = old[v]
        /\ Append(old, new)[Len(old) + 1] = new
    BY <1>1, <1>6, AppendProperties, Zenon
  <2>2. QED
    BY <2>1, Zenon DEF versions, n
<1>8. DOMAIN versions = 1 .. n + 1 /\ versions # <<>> /\ Last(versions) = new
  <2>1. DOMAIN versions = 1 .. n + 1
    BY <1>7, LenProperties
  <2>2. versions # <<>>
    BY <1>2, <1>7
  <2>3. QED
    BY <1>7, <2>1, <2>2 DEF Last
<1>9. row = [report EXCEPT !.status = "confirmed", !.confirmed = report.confirmed + 1,
                           !.versions = versions]
  BY DEF row, versions, new, old
<1>10. /\ row.status = "confirmed" /\ row.confirmed = report.confirmed + 1
       /\ row.versions = versions /\ row.text = report.text
       /\ row \in ReportType
  <2>1. /\ row.status = "confirmed" /\ row.confirmed = report.confirmed + 1
        /\ row.versions = versions /\ row.text = report.text
    BY <1>9 DEF ReportType
  <2>2. row \in ReportType
    <3>1. versions \in Seq([number : Nat, text : Texts]) /\ report.confirmed + 1 \in Nat
      BY <1>1, <1>7 DEF Numbers
    <3>2. QED
      BY <1>9, <3>1 DEF ReportType
  <2>3. QED
    BY <2>1, <2>2
<1>11. \A v \in 1 .. n + 1 : v \in 1 .. n \/ v = n + 1
  BY <1>2
<1>12. ASSUME NEW v \in 1 .. n + 1
       PROVE  versions[v].number >= (report.confirmed + 1) - ((n + 1) - v)
  <2>1. CASE v \in 1 .. n
    <3>1. old[v].number >= report.confirmed - (n - v) /\ old[v].number \in Nat
      BY <1>3, <1>4, <2>1
    <3>2. versions[v].number = old[v].number
      BY <1>7, <2>1
    <3>3. QED
      BY <1>1, <1>2, <3>1, <3>2
  <2>2. CASE v = n + 1
    <3>1. versions[v].number = next
      BY <1>6, <1>7, <2>2
    <3>2. QED
      BY <1>1, <1>2, <1>5, <2>2, <3>1
  <2>3. QED
    BY <1>11, <2>1, <2>2
<1>13. ASSUME NEW v \in 1 .. n + 1, NEW w \in 1 .. n + 1, v < w
       PROVE  versions[v].number < versions[w].number
  <2>1. v \in 1 .. n
    BY <1>2, <1>13
  <2>2. versions[v].number = old[v].number
    BY <1>7, <2>1
  <2>3. CASE w \in 1 .. n
    <3>1. versions[w].number = old[w].number
      BY <1>7, <2>3
    <3>2. QED
      BY <1>4, <1>13, <2>1, <2>2, <2>3, <3>1
  <2>4. CASE w = n + 1
    BY <1>5, <1>6, <1>7, <2>1, <2>2, <2>4
  <2>5. QED
    BY <1>11, <2>3, <2>4
<1>14. Versioned(row)
  BY <1>6, <1>7, <1>8, <1>10, <1>12, <1>13 DEF Versioned
<1>15. QED
  BY <1>10, <1>14 DEF row

LEMMA ReportsStep ==
  ASSUME IInv, OnReports
  PROVE  Adds \/ Saves
<1>1. TypeOK /\ \A i \in DOMAIN rows : rows[i] \in RowType
  BY Rows DEF IInv
<1>2. \A r \in ReportType : r \in RowType /\ r.kind = "report"
  BY DEF RowType, ReportType
<1>3. ASSUME NEW p \in Projects, NEW date \in WorkDates, NEW text \in Texts,
             CreateReport(p, date, text)
      PROVE  Adds
  <2> DEFINE row == Report(p, date, text)
  <2>1. row \in ReportType /\ Versioned(row)
    BY DEF Report, ReportType, Versioned
  <2>2. NewRow(row)
    BY <1>2, <2>1 DEF NewRow
  <2>3. QED
    BY <1>3, <2>2 DEF CreateReport, Adds
<1>4. ASSUME NEW i \in DOMAIN rows, rows[i].kind = "report",
             NEW row, row \in ReportType, Versioned(row), Save(i, row)
      PROVE  Saves
  <2>1. Settled(rows[i], row)
    BY <1>4 DEF Settled
  <2>2. SavedRow(i, row)
    BY <1>2, <1>4, <2>1 DEF SavedRow
  <2>3. QED
    BY <1>4, <2>2 DEF Saves
<1>5. ASSUME NEW i \in DOMAIN rows, rows[i].kind = "report"
      PROVE  rows[i] \in ReportType /\ Versioned(rows[i])
  BY <1>1, <1>5, Columns DEF IInv, Reports
<1>6. ASSUME NEW i \in DOMAIN rows, NEW text \in Texts, UpdateReport(i, text)
      PROVE  Saves
  <2> DEFINE row == [rows[i] EXCEPT !.text = text]
  <2>1. rows[i].kind = "report" /\ rows[i].status = "draft" /\ Save(i, row)
    BY <1>6 DEF UpdateReport
  <2>2. rows[i] \in ReportType /\ Versioned(rows[i])
    BY <1>5, <2>1
  <2>3. row \in ReportType /\ Versioned(row)
    BY <2>1, <2>2 DEF ReportType, Versioned
  <2>4. QED
    BY <1>4, <2>1, <2>3
<1>7. ASSUME NEW i \in DOMAIN rows, ConfirmReport(i)
      PROVE  Saves
  <2> DEFINE row == [rows[i] EXCEPT !.status = "confirmed", !.confirmed = @ + 1,
                       !.versions = Append(@, Version(NextNumber(rows[i]), rows[i].text))]
  <2>1. rows[i].kind = "report" /\ Save(i, row)
    BY <1>7 DEF ConfirmReport
  <2>2. rows[i] \in ReportType /\ Versioned(rows[i])
    BY <1>5, <2>1
  <2>3. row \in ReportType /\ Versioned(row)
    BY <2>2, NewVersion
  <2>4. QED
    BY <1>4, <2>1, <2>3
<1>8. ASSUME NEW i \in DOMAIN rows, ReopenReport(i)
      PROVE  Saves
  <2> DEFINE row == [rows[i] EXCEPT !.status = "draft"]
  <2>1. rows[i].kind = "report" /\ Save(i, row)
    BY <1>8 DEF ReopenReport
  <2>2. rows[i] \in ReportType /\ Versioned(rows[i])
    BY <1>5, <2>1
  <2>3. row \in ReportType /\ Versioned(row)
    BY <2>2 DEF ReportType, Versioned
  <2>4. QED
    BY <1>4, <2>1, <2>3
<1>9. QED
  BY <1>3, <1>6, <1>7, <1>8 DEF OnReports

\* Rows of these kinds are neither numbered nor settled.
LEMMA FreeRows ==
  ASSUME NEW row \in RowType, row.kind \in {"signoff", "session", "warranty"}
  PROVE  /\ Add(row) => Adds
         /\ \A i \in DOMAIN rows : rows[i].kind = row.kind /\ Save(i, row) => Saves
<1>1. NewRow(row)
  BY DEF NewRow
<1>2. \A i \in DOMAIN rows : rows[i].kind = row.kind => SavedRow(i, row)
  BY DEF SavedRow, Settled
<1>3. QED
  BY <1>1, <1>2 DEF Adds, Saves

Repayments == [amount : Nat, active : BOOLEAN]

LEMMA RepaymentsInForce ==
  ASSUME NEW s \in AdvanceType
  PROVE  /\ s.repaid \in Seq(Repayments) /\ DOMAIN s.repaid = 1 .. Len(s.repaid)
         /\ IsFiniteSet(InForce(s)) /\ \A r \in DOMAIN s.repaid : s.repaid[r] \in Repayments
<1>1. s.repaid \in Seq(Repayments)
  BY DEF AdvanceType, Repayments
<1>2. DOMAIN s.repaid = 1 .. Len(s.repaid) /\ \A r \in DOMAIN s.repaid : s.repaid[r] \in Repayments
  BY <1>1, LenProperties, ElementOfSeq
<1>3. IsFiniteSet(1 .. Len(s.repaid))
  BY <1>1, FS_Interval, LenProperties
<1>4. InForce(s) \in SUBSET (1 .. Len(s.repaid))
  BY <1>2 DEF InForce
<1>5. QED
  BY <1>1, <1>2, <1>3, <1>4, FS_Subset

LEMMA RepaidIsNumber ==
  ASSUME NEW s \in AdvanceType
  PROVE  Repaid(s) \in Nat
<1> DEFINE f == [r \in InForce(s) |-> s.repaid[r].amount]
<1>1. IsFiniteSet(DOMAIN f) /\ \A r \in DOMAIN f : f[r] \in Nat
  BY RepaymentsInForce DEF InForce, Repayments
<1> HIDE DEF f
<1>2. SumFunction(f) \in Nat
  BY <1>1, SumNatural
<1>3. QED
  BY <1>2 DEF f, Repaid

\* What is repaid depends on the repayments only.
LEMMA RepaidSame ==
  ASSUME NEW s, NEW t, t.repaid = s.repaid
  PROVE  Repaid(t) = Repaid(s)
BY DEF Repaid, InForce

\* An advance of which one repayment more is in force.
LEMMA RepaidMore ==
  ASSUME NEW s \in AdvanceType, NEW t \in AdvanceType, NEW e \in DOMAIN t.repaid,
         e \notin InForce(s), InForce(t) = InForce(s) \cup {e},
         \A r \in InForce(s) : t.repaid[r].amount = s.repaid[r].amount
  PROVE  Repaid(t) = Repaid(s) + t.repaid[e].amount
<1> DEFINE f == [r \in InForce(s) |-> s.repaid[r].amount]
           g == [r \in InForce(t) |-> t.repaid[r].amount]
<1>1. Summable(f)
  <2>1. IsFiniteSet(DOMAIN f) /\ \A r \in DOMAIN f : f[r] \in Int
    <3>1. \A r \in InForce(s) : s.repaid[r] \in Repayments
      BY RepaymentsInForce DEF InForce
    <3>2. \A r \in InForce(s) : s.repaid[r].amount \in Int
      BY <3>1 DEF Repayments
    <3>3. QED
      BY <3>2, RepaymentsInForce
  <2>2. QED
    BY <2>1 DEF Summable
<1>2. g[e] = t.repaid[e].amount /\ g[e] \in Int
  BY RepaymentsInForce DEF Repayments
<1>3. e \notin DOMAIN f /\ DOMAIN g = DOMAIN f \cup {e} /\ \A r \in DOMAIN f : g[r] = f[r]
  OBVIOUS
<1>4. SumFunction(g) = SumFunction(f) + g[e]
  <2> HIDE DEF f, g
  <2>1. QED
    BY <1>1, <1>2, <1>3, SumGrown
<1>5. QED
  BY <1>2, <1>4 DEF Repaid

\* The items of a request add up to an amount.
LEMMA TotalIsNumber ==
  ASSUME NEW items \in Seq(Items)
  PROVE  TotalOf(items) \in Nat
<1> DEFINE f == [k \in DOMAIN items |-> LineAmount(items[k])]
<1>1. DOMAIN items = 1 .. Len(items) /\ \A k \in DOMAIN items : items[k] \in Items
  BY LenProperties, ElementOfSeq
<1>2. IsFiniteSet(DOMAIN items)
  BY <1>1, FS_Interval, LenProperties
<1>3. ASSUME NEW k \in DOMAIN items PROVE LineAmount(items[k]) \in Nat
  <2>1. items[k].price \in Nat /\ items[k].quantity \in Nat
    BY <1>1 DEF Items
  <2>2. \A a, b \in Nat : (a * b + 500) \div 1000 \in Nat
    <3>1. \A a, b \in Nat : a * b \in Nat
      OBVIOUS
    <3>2. \A n \in Nat : (n + 500) \div 1000 \in Nat
      OBVIOUS
    <3>3. QED
      BY <3>1, <3>2
  <2>3. QED
    BY <2>1, <2>2 DEF LineAmount
<1>4. IsFiniteSet(DOMAIN f) /\ \A k \in DOMAIN f : f[k] \in Nat
  BY <1>2, <1>3
<1>5. SumFunction(f) \in Nat
  <2> HIDE DEF f
  <2>1. QED
    BY <1>4, SumNatural
<1>6. QED
  BY <1>5 DEF f, TotalOf

LEMMA AdvancesStep ==
  ASSUME IInv, OnAdvances
  PROVE  Adds \/ Saves
<1>1. TypeOK /\ \A i \in DOMAIN rows : rows[i] \in RowType
  BY Rows DEF IInv
<1>2. \A r \in AdvanceType : r \in RowType /\ r.kind = "advance"
  BY DEF RowType, AdvanceType
<1>3. ASSUME NEW form \in AdvanceForms, CreateAdvance(form)
      PROVE  Adds
  <2>1. Advance(form) \in AdvanceType
    <3>1. form.items \in Seq(Items) /\ TotalOf(form.items) \in Nat
      BY AdvanceFormsAssumption, TotalIsNumber
    <3>2. QED
      BY <3>1, AdvanceFormsAssumption DEF Advance, AdvanceType
  <2>2. InForce(Advance(form)) = {}
    BY DEF InForce, Advance
  <2>3. Repaid(Advance(form)) = 0
    BY <2>2, SumEmpty DEF Repaid
  <2>4. Honest(Advance(form))
    BY <2>1, <2>3 DEF Honest, AdvanceType
  <2>5. NewRow(Advance(form))
    BY <1>2, <2>1, <2>4 DEF NewRow
  <2>6. QED
    BY <1>3, <2>5 DEF CreateAdvance, Adds
<1>4. ASSUME NEW i \in DOMAIN rows, rows[i].kind = "advance", NEW row \in AdvanceType, Honest(row),
             Save(i, row)
      PROVE  Saves
  <2>1. SavedRow(i, row)
    BY <1>2, <1>4 DEF SavedRow, Settled
  <2>2. QED
    BY <1>4, <2>1 DEF Saves
<1>5. ASSUME NEW i \in DOMAIN rows, rows[i].kind = "advance"
      PROVE  rows[i] \in AdvanceType /\ Honest(rows[i])
  BY <1>1, <1>5, Columns DEF IInv, Advances
<1>6. ASSUME NEW i \in DOMAIN rows, NEW form \in AdvanceForms, UpdateAdvance(i, form)
      PROVE  Saves
  <2> DEFINE row == [rows[i] EXCEPT !.items = form.items, !.total = TotalOf(form.items),
                                    !.documents = form.documents]
  <2>1. rows[i].kind = "advance" /\ Save(i, row)
    BY <1>6 DEF UpdateAdvance
  <2>2. form.items \in Seq(Items) /\ TotalOf(form.items) \in Nat /\ form.documents \in SUBSET Documents
    BY AdvanceFormsAssumption, TotalIsNumber
  <2>3. row \in AdvanceType
    BY <1>5, <2>1, <2>2 DEF AdvanceType
  <2>4. Honest(row)
    <3>1. Repaid(rows[i]) = 0
      BY <1>6 DEF UpdateAdvance, Unreimbursed
    <3>2. row.repaid = rows[i].repaid /\ row.total \in Nat
      BY <1>5, <2>1, <2>3 DEF AdvanceType
    <3>3. Repaid(row) = 0
      BY <3>1, <3>2, RepaidSame
    <3>4. QED
      BY <3>2, <3>3 DEF Honest
  <2>5. QED
    BY <1>4, <2>1, <2>3, <2>4
<1>7. ASSUME NEW i \in DOMAIN rows, VoidAdvance(i)
      PROVE  Saves
  <2> DEFINE row == [rows[i] EXCEPT !.status = "voided"]
  <2>1. rows[i].kind = "advance" /\ Save(i, row)
    BY <1>7 DEF VoidAdvance
  <2>2. row \in AdvanceType
    BY <1>5, <2>1 DEF AdvanceType
  <2>3. Honest(row)
    <3>1. Repaid(rows[i]) = 0
      BY <1>7 DEF VoidAdvance, Unreimbursed
    <3>2. row.repaid = rows[i].repaid /\ row.total \in Nat
      BY <1>5, <2>1, <2>2 DEF AdvanceType
    <3>3. Repaid(row) = 0
      BY <3>1, <3>2, RepaidSame
    <3>4. QED
      BY <3>2, <3>3 DEF Honest
  <2>4. QED
    BY <1>4, <2>1, <2>2, <2>3
<1>8. ASSUME NEW i \in DOMAIN rows, NEW amount \in Amounts, Reimburse(i, amount)
      PROVE  Saves
  <2> DEFINE repaid == Append(rows[i].repaid, [amount |-> amount, active |-> TRUE])
             row == [rows[i] EXCEPT !.repaid = repaid]
  <2>1. rows[i].kind = "advance" /\ Save(i, row)
    BY <1>8 DEF Reimburse
  <2>2. rows[i] \in AdvanceType /\ rows[i].repaid \in Seq([amount : Nat, active : BOOLEAN])
    BY <1>5, <2>1 DEF AdvanceType
  <2>3. [amount |-> amount, active |-> TRUE] \in [amount : Nat, active : BOOLEAN]
    BY AmountsAssumption
  <2>4. repaid \in Seq([amount : Nat, active : BOOLEAN])
    BY <2>2, <2>3, AppendProperties, Zenon
  <2> HIDE DEF repaid
  <2>5. row \in AdvanceType
    BY <2>2, <2>4 DEF AdvanceType
  <2>6. Honest(row)
    <3> DEFINE n == Len(rows[i].repaid) + 1
    <3>1. /\ DOMAIN repaid = DOMAIN rows[i].repaid \cup {n} /\ n \notin DOMAIN rows[i].repaid
          /\ repaid[n] = [amount |-> amount, active |-> TRUE]
          /\ \A r \in DOMAIN rows[i].repaid : repaid[r] = rows[i].repaid[r]
      BY <2>2, <2>3, AppendProperties, LenProperties DEF repaid
    <3>2. row.repaid = repaid /\ row.total = rows[i].total /\ row.status = rows[i].status
      BY <2>2 DEF AdvanceType
    <3> HIDE DEF n, row
    <3>3. InForce(row) = InForce(rows[i]) \cup {n} /\ n \notin InForce(rows[i])
      BY <3>1, <3>2 DEF InForce
    <3>4. \A r \in InForce(rows[i]) : row.repaid[r].amount = rows[i].repaid[r].amount
      BY <3>1, <3>2 DEF InForce
    <3>5. Repaid(row) = Repaid(rows[i]) + amount
      BY <2>2, <2>5, <3>1, <3>2, <3>3, <3>4, RepaidMore
    <3>6. Repaid(rows[i]) + amount <= rows[i].total /\ rows[i].status = "active"
      BY <1>8 DEF Reimburse
    <3>7. QED
      BY <3>2, <3>5, <3>6 DEF Honest
  <2>7. QED
    BY <1>4, <2>1, <2>5, <2>6
<1>9. ASSUME NEW i \in DOMAIN rows, rows[i].kind = "advance", NEW r \in DOMAIN rows[i].repaid,
             VoidReimbursement(i, r)
      PROVE  Saves
  <2> DEFINE old == rows[i].repaid
             repaid == [old EXCEPT ![r] = [old[r] EXCEPT !.active = FALSE]]
             row == [rows[i] EXCEPT !.repaid = repaid]
  <2>1. Save(i, row)
    BY <1>9 DEF VoidReimbursement
  <2>2. rows[i] \in AdvanceType /\ old \in Seq([amount : Nat, active : BOOLEAN])
    BY <1>5, <1>9 DEF AdvanceType
  <2>3. r \in 1 .. Len(old) /\ old[r] \in [amount : Nat, active : BOOLEAN]
    BY <1>9, <2>2, LenProperties, ElementOfSeq
  <2>4. [old[r] EXCEPT !.active = FALSE] \in [amount : Nat, active : BOOLEAN]
    BY <2>3
  <2>5. repaid \in Seq([amount : Nat, active : BOOLEAN])
    BY <2>2, <2>3, <2>4, ExceptSeq
  <2> HIDE DEF repaid
  <2>6. row \in AdvanceType
    BY <2>2, <2>5 DEF AdvanceType
  <2>7. Honest(row)
    <3>1. /\ DOMAIN repaid = DOMAIN old /\ repaid[r] = [old[r] EXCEPT !.active = FALSE]
          /\ \A q \in DOMAIN old \ {r} : repaid[q] = old[q]
      BY <1>9 DEF repaid
    <3>2. row.repaid = repaid /\ row.total = rows[i].total /\ row.status = rows[i].status
      BY <2>2 DEF AdvanceType
    <3>3. old[r].active /\ repaid[r].active = FALSE /\ old[r].amount \in Nat
      BY <1>9, <2>3, <3>1 DEF VoidReimbursement
    <3> HIDE DEF row
    <3>4. InForce(rows[i]) = InForce(row) \cup {r} /\ r \notin InForce(row)
      BY <1>9, <3>1, <3>2, <3>3 DEF InForce
    <3>5. \A q \in InForce(row) : rows[i].repaid[q].amount = row.repaid[q].amount
      BY <3>1, <3>2, <3>4 DEF InForce
    <3>6. Repaid(rows[i]) = Repaid(row) + old[r].amount
      BY <1>9, <2>2, <2>6, <3>4, <3>5, RepaidMore
    <3>7. Repaid(row) \in Nat /\ Repaid(rows[i]) \in Nat /\ rows[i].total \in Nat
      BY <2>2, <2>6, RepaidIsNumber DEF AdvanceType
    <3>8. Honest(rows[i])
      BY <1>5, <1>9
    <3>9. QED
      BY <3>2, <3>6, <3>7, <3>8, <3>3 DEF Honest
  <2>8. QED
    BY <1>4, <1>9, <2>1, <2>6, <2>7
<1>10. QED
  BY <1>3, <1>6, <1>7, <1>8, <1>9 DEF OnAdvances

-----------------------------------------------------------------------------
(* Delivery.                                                               *)

LEMMA DrawingsStep ==
  ASSUME IInv, OnDrawings
  PROVE  Adds \/ Saves
<1>1. \A form \in SignoffForms : Signoff(form) \in RowType /\ Signoff(form).kind = "signoff"
  BY SignoffFormsAssumption DEF Signoff, SignoffType, RowType
<1>2. \A form \in SessionForms : Session(form) \in RowType /\ Session(form).kind = "session"
  BY SessionFormsAssumption DEF Session, SessionType, RowType
<1>3. ASSUME NEW form \in SignoffForms, PutSignoff(form) PROVE Adds \/ Saves
  <2>1. \/ Add(Signoff(form))
        \/ \E i \in RowsOf("signoff", form.project) : Save(i, Signoff(form))
    BY <1>3 DEF PutSignoff
  <2>2. QED
    BY <1>1, <2>1, FreeRows DEF RowsOf
<1>4. ASSUME NEW form \in SessionForms, CreateSession(form) PROVE Adds
  BY <1>2, <1>4, FreeRows DEF CreateSession
<1>5. ASSUME NEW i \in DOMAIN rows, NEW form \in SessionForms, UpdateSession(i, form) PROVE Saves
  BY <1>2, <1>5, FreeRows DEF UpdateSession
<1>6. QED
  BY <1>3, <1>4, <1>5 DEF OnDrawings

\* A set of numbers up to n that is not empty has a greatest one.
LEMMA LastExists ==
  ASSUME NEW n \in Nat, NEW S \in SUBSET (0 .. n), S # {}
  PROVE  Max(S) \in S
<1> DEFINE T == {n - x : x \in S}
           R == {ss \in Nat \X Nat : ss[1] < ss[2]}
<1>1. IsWellFoundedOn(R, Nat)
  BY NatLessThanWellFounded DEF OpToRel
<1>2. T \subseteq Nat
  <2>1. \A x \in S : n - x \in Nat
    OBVIOUS
  <2>2. QED
    BY <2>1
<1>3. T # {}
  BY Zenon
<1>4. PICK m \in T : \A y \in T : ~ (<<y, m>> \in R)
  <2> HIDE DEF T, R
  <2> QED BY <1>1, <1>2, <1>3, WFMin
<1>5. PICK x \in S : m = n - x
  OBVIOUS
<1>6. \A y \in S : x >= y
  <2> TAKE y \in S
  <2>1. n - y \in T /\ n - y \in Nat /\ m \in Nat
    BY <1>2, <1>4
  <2>2. ~ (n - y < m)
    BY <1>4, <2>1
  <2>3. x \in Nat /\ y \in Nat
    OBVIOUS
  <2>4. QED
    BY <1>5, <2>2, <2>3
<1>7. QED
  BY <1>6 DEF Max

LEMMA ChangesStep ==
  ASSUME IInv, OnChanges
  PROVE  Adds \/ Saves
<1>1. TypeOK /\ Len(rows) \in Nat /\ \A i \in DOMAIN rows : rows[i] \in RowType
  BY Rows DEF IInv
<1>2. \A r \in ChangeType : r \in RowType /\ r.kind = "change"
  BY DEF RowType, ChangeType
<1>3. \A i \in DOMAIN rows : rows[i].kind = "change" =>
        rows[i] \in ChangeType /\ rows[i].number \in 0 .. Len(rows)
  <2> SUFFICES ASSUME NEW i \in DOMAIN rows, rows[i].kind = "change"
               PROVE  rows[i] \in ChangeType /\ rows[i].number \in 0 .. Len(rows)
    OBVIOUS
  <2>1. rows[i] \in ChangeType
    BY <1>1, Columns
  <2>2. rows[i].number \in Nat /\ rows[i].number <= Len(rows)
    BY <2>1 DEF ChangeType, IInv, Numbered
  <2>3. QED
    BY <1>1, <2>1, <2>2
<1>4. ASSUME NEW form \in ChangeForms, CreateChange(form) PROVE Adds
  <2> DEFINE S == {rows[i].number : i \in RowsOf("change", form.project)} \cup {0}
  <2>1. S \in SUBSET (0 .. Len(rows)) /\ S # {}
    BY <1>1, <1>3 DEF RowsOf
  <2>2. ChangeNumber(form.project) = Max(S) + 1
    BY DEF ChangeNumber
  <2> HIDE DEF S
  <2>3. Max(S) \in 0 .. Len(rows)
    BY <1>1, <2>1, LastExists
  <2>4. ChangeNumber(form.project) \in Nat /\ ChangeNumber(form.project) <= Len(rows) + 1
    BY <1>1, <2>2, <2>3
  <2>5. Change(form) \in ChangeType /\ Change(form).number <= Len(rows) + 1
    BY <2>4, ChangeFormsAssumption DEF Change, ChangeType
  <2>6. NewRow(Change(form))
    BY <1>2, <2>5 DEF NewRow
  <2>7. QED
    BY <1>4, <2>6 DEF CreateChange, Adds
<1>5. ASSUME NEW i \in DOMAIN rows, NEW row \in ChangeType, rows[i].kind = "change",
             row.number = rows[i].number, Settled(rows[i], row), Save(i, row)
      PROVE  Saves
  <2>1. SavedRow(i, row)
    BY <1>2, <1>5 DEF SavedRow
  <2>2. QED
    BY <1>5, <2>1 DEF Saves
<1>6. ASSUME NEW i \in DOMAIN rows, NEW form \in ChangeForms, UpdateChange(i, form) PROVE Saves
  <2> DEFINE row == [rows[i] EXCEPT !.terms = form.terms, !.documents = form.documents]
  <2>1. rows[i].kind = "change" /\ rows[i].status = "proposed" /\ Save(i, row)
    BY <1>6 DEF UpdateChange
  <2>2. row \in ChangeType /\ row.number = rows[i].number
    BY <1>3, <2>1, ChangeFormsAssumption DEF ChangeType
  <2>3. Settled(rows[i], row)
    BY <2>1 DEF Settled
  <2>4. QED
    BY <1>5, <2>1, <2>2, <2>3
<1>7. ASSUME NEW i \in DOMAIN rows, NEW status, TransitionChange(i, status) PROVE Saves
  <2> DEFINE row == [rows[i] EXCEPT !.status = status]
  <2>1. /\ rows[i].kind = "change" /\ rows[i].status \in {"proposed", "approved"} /\ Save(i, row)
        /\ status \in {"approved", "rejected", "cancelled", "implemented"}
    BY <1>7 DEF TransitionChange, ChangeTransitions
  <2>2. row \in ChangeType /\ row.number = rows[i].number /\ row.status = status
    BY <1>3, <2>1 DEF ChangeType
  <2>3. Settled(rows[i], row)
    BY <2>1, <2>2 DEF Settled
  <2>4. QED
    BY <1>5, <2>1, <2>2, <2>3
<1>8. QED
  BY <1>4, <1>6, <1>7 DEF OnChanges

LEMMA InvoicesStep ==
  ASSUME IInv, OnInvoices
  PROVE  Adds \/ Saves
<1>1. TypeOK /\ \A i \in DOMAIN rows : rows[i] \in RowType
  BY Rows DEF IInv
<1>2. \A r \in InvoiceType : r \in RowType /\ r.kind = "invoice"
  BY DEF RowType, InvoiceType
<1>3. \A form \in InvoiceForms :
        /\ Invoice(form) \in InvoiceType /\ Invoice(form).number = form.number
        /\ \A f \in Formal : Invoice(form)[f] = form[f]
  BY InvoiceFormsAssumption DEF Invoice, InvoiceType, Formal
<1>4. ASSUME NEW form \in InvoiceForms, CreateInvoice(form) PROVE Adds
  <2>1. NumberFree(form.number, DOMAIN rows) /\ Add(Invoice(form))
    BY <1>4 DEF CreateInvoice
  <2>2. NewRow(Invoice(form))
    BY <1>2, <1>3, <2>1 DEF NewRow
  <2>3. QED
    BY <2>1, <2>2 DEF Adds
<1>5. ASSUME NEW i \in DOMAIN rows, NEW form \in InvoiceForms, UpdateInvoice(i, form) PROVE Saves
  <2>1. /\ rows[i].kind = "invoice" /\ rows[i].status # "void" /\ Save(i, Invoice(form))
        /\ rows[i].status = "recorded" => \A f \in Formal : form[f] = rows[i][f]
        /\ NumberFree(form.number, DOMAIN rows \ {i})
    BY <1>5 DEF UpdateInvoice, FormalKept
  <2>2. Settled(rows[i], Invoice(form))
    BY <1>3, <2>1 DEF Settled
  <2>3. SavedRow(i, Invoice(form))
    BY <1>2, <1>3, <2>1, <2>2 DEF SavedRow
  <2>4. QED
    BY <2>1, <2>3 DEF Saves
<1>6. ASSUME NEW i \in DOMAIN rows, VoidInvoice(i) PROVE Saves
  <2> DEFINE row == [rows[i] EXCEPT !.status = "void"]
  <2>1. rows[i].kind = "invoice" /\ rows[i].status # "void" /\ Save(i, row)
    BY <1>6 DEF VoidInvoice
  <2>2. rows[i] \in InvoiceType
    BY <1>1, <2>1, Columns
  <2>3. row \in InvoiceType /\ row.status = "void"
    BY <2>2 DEF InvoiceType
  <2>4. Settled(rows[i], row)
    BY <2>1 DEF Settled
  <2>5. SavedRow(i, row)
    BY <1>2, <2>1, <2>3, <2>4 DEF SavedRow
  <2>6. QED
    BY <2>1, <2>5 DEF Saves
<1>7. QED
  BY <1>4, <1>5, <1>6 DEF OnInvoices

LEMMA CasesStep ==
  ASSUME IInv, OnCases
  PROVE  Adds \/ Saves
<1>1. TypeOK /\ \A i \in DOMAIN rows : rows[i] \in RowType
  BY Rows DEF IInv
<1>2. \A form \in TermForms : Warranty(form) \in RowType /\ Warranty(form).kind = "warranty"
  BY TermFormsAssumption DEF Warranty, WarrantyType, RowType
<1>3. \A r \in CaseType : r \in RowType /\ r.kind = "case"
  BY DEF RowType, CaseType
<1>4. \A p, day : UnderWarranty(p, day) \in BOOLEAN
  BY DEF UnderWarranty
<1>5. ASSUME NEW form \in TermForms, PutTerm(form) PROVE Adds \/ Saves
  <2>1. \/ Add(Warranty(form))
        \/ \E i \in RowsOf("warranty", form.project) : Save(i, Warranty(form))
    BY <1>5 DEF PutTerm
  <2>2. QED
    BY <1>2, <2>1, FreeRows DEF RowsOf
<1>6. ASSUME NEW form \in CaseForms, CreateCase(form) PROVE Adds
  <2>1. Case(form) \in CaseType
    BY <1>4, CaseFormsAssumption DEF Case, CaseType
  <2>2. NewRow(Case(form))
    BY <1>3, <2>1 DEF NewRow
  <2>3. QED
    BY <1>6, <2>2 DEF CreateCase, Adds
<1>7. ASSUME NEW i \in DOMAIN rows, NEW row \in CaseType, rows[i].kind = "case",
             rows[i].status \notin Closed, Judged(rows[i], row), Save(i, row)
      PROVE  Saves
  <2>1. SavedRow(i, row)
    BY <1>3, <1>7 DEF SavedRow, Settled
  <2>2. QED
    BY <1>7, <2>1 DEF Saves
<1>8. ASSUME NEW i \in DOMAIN rows, NEW form \in CaseForms, UpdateCase(i, form) PROVE Saves
  <2> DEFINE under == UnderWarranty(form.project, form.reported)
             row == [rows[i] EXCEPT !.reported = form.reported, !.coverage = form.coverage,
                                    !.under = under]
  <2>1. /\ rows[i].kind = "case" /\ rows[i].status \notin Closed /\ Save(i, row)
        /\ rows[i].project = form.project
        /\ form.coverage = "warranty" => under
    BY <1>8 DEF UpdateCase, Covered
  <2>2. rows[i] \in CaseType /\ under \in BOOLEAN
    BY <1>1, <1>4, <2>1, Columns
  <2> HIDE DEF under
  <2>3. row \in CaseType
    BY <2>2, CaseFormsAssumption DEF CaseType
  <2>4. row.under = under /\ row.coverage = form.coverage /\ row.reported = form.reported
    BY <2>2 DEF CaseType
  <2>5. Judged(rows[i], row)
    <3> HIDE DEF row
    <3>1. under = UnderWarranty(rows[i].project, row.reported)
      BY <2>1, <2>4 DEF under
    <3>2. QED
      BY <2>1, <2>4, <3>1 DEF Judged
  <2>6. QED
    BY <1>7, <2>1, <2>3, <2>5
<1>9. ASSUME NEW i \in DOMAIN rows, NEW status, NEW resolved \in BOOLEAN,
             TransitionCase(i, status, resolved)
      PROVE  Saves
  <2> DEFINE row == [rows[i] EXCEPT !.status = status, !.resolved = resolved]
  <2>1. /\ rows[i].kind = "case" /\ rows[i].status \notin Closed /\ Save(i, row)
        /\ status \in {"open", "in_progress"} \cup Closed
    BY <1>9 DEF TransitionCase, CaseTransitions, Closed
  <2>2. row \in CaseType /\ Judged(rows[i], row)
    BY <1>1, <2>1, Columns DEF CaseType, Judged
  <2>3. QED
    BY <1>7, <2>1, <2>2
<1>10. QED
  BY <1>5, <1>6, <1>8, <1>9 DEF OnCases

-----------------------------------------------------------------------------
(* The specification.                                                      *)

LEMMA Start ==
  Init => IInv
<1> SUFFICES ASSUME Init PROVE IInv
  OBVIOUS
<1>1. /\ open = Projects /\ archived = {}
      /\ \/ rows = <<>>
         \/ \E p \in Projects, date \in WorkDates, text \in Texts :
              \E r \in Migrated(p, date, text) : rows = <<r>>
  BY DEF Init, SiteInit
<1>2. CASE rows = <<>>
  <2>1. rows \in Seq(RowType) /\ DOMAIN rows = {}
    BY <1>2
  <2>2. QED
    BY <1>1, <2>1 DEF IInv, TypeOK, Numbered, Reports, Advances, NumbersUnique, Standing
<1>3. CASE \E p \in Projects, date \in WorkDates, text \in Texts :
             \E r \in Migrated(p, date, text) : rows = <<r>>
  <2>0. PICK p \in Projects, date \in WorkDates, text \in Texts :
          \E r \in Migrated(p, date, text) : rows = <<r>>
    BY <1>3
  <2>1. PICK r \in Migrated(p, date, text) : rows = <<r>>
    BY <2>0
  <2>2. r \in ReportType /\ Versioned(r)
    <3> DEFINE plain == Report(p, date, text)
    <3>1. plain \in ReportType /\ Versioned(plain) /\ plain.status = "draft"
      BY DEF Report, ReportType, Versioned
    <3>2. CASE r = plain
      BY <3>1, <3>2
    <3>3. ASSUME NEW n \in 1 .. 2, r = [plain EXCEPT !.confirmed = n]
          PROVE  r \in ReportType /\ Versioned(r)
      <4>1. r.status = "draft" /\ r.versions = <<>> /\ DOMAIN r.versions = {}
        BY <3>3 DEF Report
      <4>2. r \in ReportType
        <5>1. plain \in ReportType /\ n \in Nat
          BY <3>1
        <5> HIDE DEF plain
        <5>2. QED
          BY <3>3, <5>1 DEF ReportType
      <4>3. QED
        BY <4>1, <4>2 DEF Versioned
    <3>4. ASSUME NEW n \in 0 .. 2,
                 r = [plain EXCEPT !.confirmed = n, !.status = "confirmed",
                        !.versions = <<Version(IF n = 0 THEN 1 ELSE n, text)>>]
          PROVE  r \in ReportType /\ Versioned(r)
      <4> DEFINE number == IF n = 0 THEN 1 ELSE n
                 first == <<Version(number, text)>>
      <4>1. /\ r.confirmed = n /\ r.status = "confirmed" /\ r.versions = first /\ r.text = text
        BY <3>4 DEF Report
      <4>2. /\ number \in Nat /\ number >= n /\ Len(first) = 1 /\ DOMAIN first = {1}
            /\ Last(first) = Version(number, text) /\ first # <<>>
            /\ first[1] = Version(number, text)
        BY DEF Last
      <4>3. Version(number, text).number = number /\ Version(number, text).text = text
        BY DEF Version
      <4>4. Versioned(r)
        BY <4>1, <4>2, <4>3 DEF Versioned
      <4>5. first \in Seq([number : Nat, text : Texts])
        BY <4>2 DEF Version
      <4>6. r \in ReportType
        <5>1. plain \in ReportType /\ n \in Nat
          BY <3>1
        <5>2. r = [plain EXCEPT !.confirmed = n, !.status = "confirmed", !.versions = first]
          BY <3>4
        <5> HIDE DEF plain, first
        <5>3. QED
          BY <4>5, <5>1, <5>2 DEF ReportType
      <4>7. QED
        BY <4>4, <4>6
    <3>5. QED
      BY <3>2, <3>3, <3>4 DEF Migrated
  <2>3. r \in RowType /\ r.kind = "report"
    BY <2>2 DEF ReportType, RowType
  <2>4. rows \in Seq(RowType) /\ DOMAIN rows = {1} /\ rows[1] = r
    BY <2>1, <2>3
  <2>5. QED
    BY <1>1, <2>2, <2>3, <2>4 DEF IInv, TypeOK, Numbered, Reports, Advances, NumbersUnique, Standing
<1>4. QED
  BY <1>1, <1>2, <1>3

\* Each step leaves the rows alone, adds one or saves one.
LEMMA Steps ==
  ASSUME IInv, [Next]_vars
  PROVE  Adds \/ Saves \/ (TypeOK' /\ UNCHANGED rows)
<1>1. CASE Elsewhere
  BY <1>1 DEF IInv, TypeOK, Elsewhere, CloseProject, RestoreProject, ArchiveDocument
<1>2. CASE UNCHANGED vars
  BY <1>2 DEF IInv, TypeOK, vars
<1>3. QED
  BY <1>1, <1>2, ReportsStep, AdvancesStep, DrawingsStep, ChangesStep, InvoicesStep, CasesStep
     DEF Next

LEMMA StepKeeps ==
  IInv /\ [Next]_vars => IInv'
<1> SUFFICES ASSUME IInv, [Next]_vars PROVE IInv'
  OBVIOUS
<1>1. CASE TypeOK' /\ UNCHANGED rows
  BY <1>1 DEF IInv, Numbered, Reports, Advances, NumbersUnique, Standing
<1>2. QED
  BY <1>1, Steps, AddsKeep, SavesKeep

LEMMA StepSettles ==
  IInv /\ [Next]_vars => [\A i \in DOMAIN rows : Settled(rows[i], rows'[i])]_vars
<1> SUFFICES ASSUME IInv, [Next]_vars, NEW i \in DOMAIN rows PROVE Settled(rows[i], rows'[i])
  OBVIOUS
<1>1. rows'[i] = rows[i] \/ Settled(rows[i], rows'[i])
  BY Steps, AddsKeep, SavesKeep
<1>2. rows[i] \in RowType
  BY Rows DEF IInv
<1>3. CASE rows'[i] = rows[i]
  <2>1. rows[i].kind = "change" => rows[i] = [rows[i] EXCEPT !.status = rows[i].status]
    BY <1>2, Columns DEF ChangeType
  <2>2. rows[i].kind = "case" => Judged(rows[i], rows[i])
    BY <1>2, Columns DEF CaseType, Judged
  <2>3. QED
    BY <1>3, <2>1, <2>2 DEF Settled
<1>4. QED
  BY <1>1, <1>3

LEMMA Invariance ==
  Spec => []IInv
BY Start, StepKeeps, PTL DEF Spec

\* Each record has the columns of its table (migration 009), for any requests.
THEOREM ColumnsKept ==
  Spec => []TypeOK
<1>1. IInv => TypeOK
  BY DEF IInv
<1>2. QED
  BY <1>1, Invariance, PTL

\* No two invoices that are not void have one number, of whatever project and in whatever
\* spelling (_require_available_invoice_number), which no index ensures.
THEOREM InvoiceNumbersUnique ==
  Spec => []NumbersUnique
<1>1. IInv => NumbersUnique
  BY DEF IInv
<1>2. QED
  BY <1>1, Invariance, PTL

\* A confirmed report is its latest version, and versions are numbered upwards, those of
\* reports that are older than versions included (_create_report_version).
THEOREM ReportsVersioned ==
  Spec => []ConfirmedIsVersioned
<1>1. IInv => ConfirmedIsVersioned
  BY DEF IInv, Reports, Versioned, ConfirmedIsVersioned
<1>2. QED
  BY <1>1, Invariance, PTL

\* No more is repaid than was advanced, and nothing of what is voided, whatever is repaid,
\* reversed, changed and voided in between (_reimbursed_total).
THEOREM RepaidWithin ==
  Spec => []RepaidWithinTotal
<1>1. IInv => RepaidWithinTotal
  BY DEF IInv, Advances, Honest, RepaidWithinTotal
<1>2. QED
  BY <1>1, Invariance, PTL

\* What was settled stays: recorded and void invoices, decided changes, closed cases,
\* and open ones are judged by the term of the warranty at their own saving only.
THEOREM RecordsSettled ==
  Spec => SettledStays
<1>1. IInv /\ [Next]_vars =>
        [\A i \in DOMAIN rows :
           LET old == rows[i] new == rows'[i] IN
           /\ old.kind = "invoice" /\ old.status = "recorded" =>
                (\A f \in Formal : new[f] = old[f]) \/ new = [old EXCEPT !.status = "void"]
           /\ old.kind = "invoice" /\ old.status = "void" => new = old
           /\ old.kind = "change" /\ old.status # "proposed" =>
                new = [old EXCEPT !.status = new.status]
           /\ old.kind = "change" /\ old.status \notin {"proposed", "approved"} => new = old
           /\ old.kind = "case" /\ old.status \in Closed => new = old
           /\ old.kind = "case" =>
                \/ new = [old EXCEPT !.status = new.status, !.resolved = new.resolved]
                \/ /\ new.under = UnderWarranty(old.project, new.reported)
                   /\ new.coverage = "warranty" => new.under]_vars
  BY StepSettles DEF Settled, Judged
<1>2. QED
  BY <1>1, Invariance, PTL DEF Spec, SettledStays
=============================================================================
