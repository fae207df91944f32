--------------------------- MODULE ProjectRecords ---------------------------
(***************************************************************************)
(* The records of site and delivery together: they share the projects'     *)
(* status, the documents and, in an instance, the room for rows.           *)
(***************************************************************************)
EXTENDS SiteOperations, DeliveryRecords

Init == SiteInit

Next == OnReports \/ OnAdvances \/ OnDrawings \/ OnChanges \/ OnInvoices \/ OnCases \/ Elsewhere

Spec == Init /\ [][Next]_vars

-----------------------------------------------------------------------------
RowType ==
  ReportType \cup AdvanceType \cup SignoffType \cup SessionType \cup ChangeType
    \cup InvoiceType \cup WarrantyType \cup CaseType

\* Each record has the columns of its table.
TypeOK == open \subseteq Projects /\ archived \subseteq Documents /\ rows \in Seq(RowType)
=============================================================================
