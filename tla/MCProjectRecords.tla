-------------------------- MODULE MCProjectRecords --------------------------
(* A small instance of ProjectRecords for TLC.                             *)
EXTENDS ProjectRecords

CONSTANTS p1, p2, d1

Plain(p) == [project |-> p, documents |-> {}]
Linked(p) == [project |-> p, documents |-> {d1}]

\* Three cents for half a unit: two, once rounded.
MCAdvanceForms ==
  {Linked(p1) @@ [items |-> <<[price |-> 3, quantity |-> 500], [price |-> 1, quantity |-> 1000]>>],
   Plain(p1) @@ [items |-> <<[price |-> 2, quantity |-> 1000]>>]}

MCSignoffForms ==
  {Plain(p1) @@ [discipline |-> "mechanical", status |-> "pending"],
   Linked(p1) @@ [discipline |-> "mechanical", status |-> "confirmed"],
   Plain(p1) @@ [discipline |-> "electrical", status |-> "not_required"]}

MCSessionForms ==
  {Plain(p1) @@ [status |-> "blocked", ended |-> FALSE],
   Linked(p1) @@ [status |-> "completed", ended |-> TRUE],
   Plain(p1) @@ [status |-> "cancelled", ended |-> FALSE]}

MCChangeForms == {Plain(p1) @@ [terms |-> "dear"], Linked(p1) @@ [terms |-> "cheap"]}

Asked == [status |-> "requested", requested |-> {1}, recorded |-> Unset, amount |-> Unset]
Issued == [status |-> "recorded", requested |-> {1}, recorded |-> {2}, amount |-> {100}]

MCInvoiceForms ==
  {Plain(p1) @@ Asked @@ [number |-> Unset], Plain(p1) @@ Asked @@ [number |-> {"A1"}],
   Plain(p1) @@ Issued @@ [number |-> {"A1"}], Linked(p1) @@ Issued @@ [number |-> {"B1"}],
   Plain(p1) @@ [Issued EXCEPT !.amount = {200}] @@ [number |-> {"A1"}],
   Plain(p2) @@ Issued @@ [number |-> {"a1"}]}

MCKey(number) == IF number = "a1" THEN "A1" ELSE number

MCTermForms == {[project |-> p1, from |-> 1, to |-> 2], [project |-> p1, from |-> 2, to |-> 3]}

MCCaseForms ==
  {[project |-> p1, reported |-> 1, coverage |-> "warranty"],
   [project |-> p1, reported |-> 2, coverage |-> "warranty"],
   [project |-> p1, reported |-> 3, coverage |-> "paid"]}
=============================================================================
