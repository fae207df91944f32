SPECIFICATION Spec
SYMMETRY OrderSymmetry
CONSTANTS
  o1 = o1
  o2 = o2
  l1 = l1
  l2 = l2
  i1 = i1
  i2 = i2
  Orders = {o1, o2}
  Lines = {l1, l2}
  Items = {i1, i2}
  Requirement <- MCRequirement
  Opening <- MCOpening
  Scale = 4
  OrderForms <- MCOrderForms
  ReceiptForms <- MCReceiptForms
  IssueForms <- MCIssueForms
  AdjustmentForms <- MCAdjustmentForms
  AllocationForms <- MCAllocationForms
  MaxFacts = 3
  MaxEdits = 1
INVARIANTS BalanceIsLedger ReceivedIsReceipts
  ReceiptsWorthTheLine LimitsHold
  CancelledIsBare
PROPERTIES ConfirmedAsSeen
CHECK_DEADLOCK FALSE
