---------------------------- MODULE MCWorkforce ----------------------------
(* A small instance of Workforce for TLC.                                  *)
EXTENDS Workforce, TLC

CONSTANTS p1, p2, w1, w2, a1, a2

ByDay == [basis |-> "daily", rate |-> 25101]
ByHour == [basis |-> "hourly", rate |-> 3001]

MCAssignmentForms ==
  {[project |-> p1, worker |-> w1, from |-> 1, to |-> 1, pay |-> ByDay],
   [project |-> p1, worker |-> w2, from |-> 1, to |-> Forever, pay |-> ByHour],
   [project |-> p2, worker |-> w1, from |-> 1, to |-> 2, pay |-> ByDay]}

MCLeaveForms == {[worker |-> w1, day |-> 2]}

MCWorks ==
  {[day |-> 1, unit |-> "daily", quantity |-> 500], [day |-> 2, unit |-> "daily", quantity |-> 1000],
   [day |-> 1, unit |-> "hourly", quantity |-> 90]}

AssignmentSymmetry == Permutations(Assignments)
=============================================================================
