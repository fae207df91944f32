SPECIFICATION Spec
CONSTANTS
  p1 = p1
  p2 = p2
  d1 = d1
  Projects = {p1, p2}
  Documents = {d1}
  WorkDates = {1}
  Texts = {"first", "second"}
  Amounts = {1, 2}
  AdvanceForms <- MCAdvanceForms
  SignoffForms <- MCSignoffForms
  SessionForms <- MCSessionForms
  ChangeForms <- MCChangeForms
  InvoiceForms <- MCInvoiceForms
  TermForms <- MCTermForms
  CaseForms <- MCCaseForms
  Key <- MCKey
  MaxRows = 2
  MaxVersions = 3
  MaxRepayments = 3
INVARIANTS RepaidWithinTotal ConfirmedIsVersioned NumbersUnique
PROPERTIES SettledStays
CHECK_DEADLOCK FALSE
