SPECIFICATION Spec
CONSTANTS
  standard = standard
  trade = trade
  Projects = {standard, trade}
  Trade = {trade}
  Stages = {s}
  Begun = "in_progress"
  Contracts = {c1}
  ContractForms <- Forms
  Plans = {1}
  Payments = {1}
  Days = {1, 2}
  Inspected = {standard}
  MaxReceipts = 2
  MaxAcceptances = 2
INVARIANTS CompletedStaysDone CompletedStaysPaid ReceivedWithinShare
CHECK_DEADLOCK FALSE
