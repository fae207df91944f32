---------------------------- MODULE MCPurchasing ----------------------------
(* Small instances of Purchasing for TLC.                                  *)
EXTENDS Purchasing, TLC

CONSTANTS o1, o2, l1, l2, i1, i2

OrderSymmetry == Permutations(Orders)

MCRequirement == (l1 :> 4 @@ l2 :> 1)
MCOpening == (i1 :> [qty |-> 0, value |-> 0] @@ i2 :> [qty |-> 3, value |-> 2])

Line(qty, cost, tax, taxed, reason) ==
  [qty |-> qty, cost |-> cost, tax |-> tax, taxed |-> taxed, reason |-> reason, received |-> 0]

\* Four for two, whose single batches round up, so that the third finds nothing left;
\* three for four, beyond the requirement with a reason, whose single batches round down
\* and of which two receipts, one of them reversed and repeated, bring in all, so that the
\* last has a rest to take; and one without tax.
MCOrderForms ==
  {(l1 :> Line(4, 1, 1, TRUE, FALSE)),
   (l1 :> Line(3, 4, 1, TRUE, TRUE) @@ l2 :> Line(1, 6, 0, FALSE, FALSE))}

MCReceiptForms == {(l1 :> 1), (l1 :> 2 @@ l2 :> 1)}

MCIssueForms ==
  {<<[item |-> i1, line |-> l1, qty |-> 1]>>,
   <<[item |-> i2, line |-> NoLine, qty |-> 2]>>,
   <<[item |-> i2, line |-> l2, qty |-> 1], [item |-> i2, line |-> l2, qty |-> 1]>>}

MCAdjustmentForms ==
  {[item |-> i1, qty |-> 1, cost |-> 11], [item |-> i2, qty |-> -1, cost |-> 0]}

MCAllocationForms == {(l1 :> 1), (l1 :> 2 @@ l2 :> 1)}
=============================================================================
