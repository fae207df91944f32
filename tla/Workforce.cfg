SPECIFICATION Spec
SYMMETRY AssignmentSymmetry
CONSTANTS
  p1 = p1
  p2 = p2
  w1 = w1
  w2 = w2
  a1 = a1
  a2 = a2
  Projects = {p1, p2}
  Workers = {w1, w2}
  Assignments = {a1, a2}
  Days = {1, 2}
  AssignmentForms <- MCAssignmentForms
  Targets = {"completed"}
  LeaveForms <- MCLeaveForms
  Works <- MCWorks
  MaxLabor = 3
INVARIANTS OneEntryInForce ReplacedOnce
PROPERTIES WagesStay
CHECK_DEADLOCK FALSE
