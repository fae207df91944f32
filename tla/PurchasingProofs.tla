-------------------------- MODULE PurchasingProofs --------------------------
(***************************************************************************)
(* For any items, lines, orders, requests and bounds of Purchasing: every  *)
(* invariant its run checks, in two layers.                                *)
(*                                                                         *)
(* IInv, about shapes and revisions, gives that an order which is not in   *)
(* force has no receipt, payment or invoice in force, and that a user      *)
(* confirms the lines the page showed.  On top of it the books, Books: the *)
(* parts of each fact have the signs of their kind (AllBooked), stock is   *)
(* its ledger (StockBooks), the lines of each order are what its facts in  *)
(* force say (OrderBooks), and issues stay within requirements.  A fact    *)
(* that is recorded or reversed changes one entry of a ledger, so that     *)
(* each action needs the share of that fact only.                          *)
(***************************************************************************)
EXTENDS Purchasing, SumTheorems, TLAPS

\* The shape of orders and facts, as far as the proofs look at it.
IsOrder(r) ==
  /\ r \in [status : Statuses, revision : Nat, lines : {r.lines}]
  /\ r.status = "none" => r.revision = 0

IsFact(f) ==
  f \in [kind : StockKinds \cup MoneyKinds, active : BOOLEAN,
         order : Orders \cup {Unordered}, parts : {f.parts}]

Shape ==
  /\ order = [o \in Orders |-> order[o]] /\ seen = [o \in Orders |-> seen[o]]
  /\ \A o \in Orders : IsOrder(order[o]) /\ IsOrder(seen[o])
  /\ \E S : facts \in Seq(S)
  /\ \A f \in DOMAIN facts : IsFact(facts[f])

\* A page shows the lines of its revision: those of the draft, if that is current.
SeenIsPast ==
  \A o \in Orders :
    /\ seen[o].revision <= order[o].revision
    /\ seen[o].revision = order[o].revision => seen[o].lines = order[o].lines

IInv == Shape /\ SeenIsPast /\ CancelledIsBare

\* An appended fact is the last one, and the others stay.
LEMMA Appended ==
  ASSUME NEW s, NEW S, s \in Seq(S), NEW e
  PROVE  /\ Append(s, e) \in Seq(S \cup {e})
         /\ DOMAIN Append(s, e) = DOMAIN s \cup {Len(s) + 1}
         /\ \A i \in DOMAIN s : Append(s, e)[i] = s[i]
         /\ Append(s, e)[Len(s) + 1] = e
         /\ DOMAIN s = 1..Len(s)
<1>1. s \in Seq(S \cup {e})
  OBVIOUS
<1>2. QED
  BY <1>1

\* Replacing an element keeps the sequence one.
LEMMA Replaced ==
  ASSUME NEW s, NEW S, s \in Seq(S), NEW f \in DOMAIN s, NEW e
  PROVE  [s EXCEPT ![f] = e] \in Seq(S \cup {e})
<1>1. s \in Seq(S \cup {e})
  OBVIOUS
<1>2. QED
  BY <1>1

\* What recording a fact adds.
LEMMA RecordAdds ==
  ASSUME Shape, NEW kind \in StockKinds \cup MoneyKinds,
         NEW o \in Orders \cup {Unordered}, NEW parts, Record(kind, o, parts)
  PROVE  \E n : /\ n \notin DOMAIN facts /\ DOMAIN facts' = DOMAIN facts \cup {n}
                /\ \A f \in DOMAIN facts : facts'[f] = facts[f]
                /\ facts'[n].order = o
                /\ \E S : facts' \in Seq(S)
                /\ \A f \in DOMAIN facts' : IsFact(facts'[f])
<1> DEFINE e == [kind |-> kind, active |-> TRUE, order |-> o, parts |-> parts]
<1>1. PICK S : facts \in Seq(S)
  BY DEF Shape
<1>2. /\ Append(facts, e) \in Seq(S \cup {e})
      /\ DOMAIN Append(facts, e) = DOMAIN facts \cup {Len(facts) + 1}
      /\ \A i \in DOMAIN facts : Append(facts, e)[i] = facts[i]
      /\ Append(facts, e)[Len(facts) + 1] = e
      /\ DOMAIN facts = 1..Len(facts)
  <2> HIDE DEF e
  <2> QED BY <1>1, Appended
<1>3. facts' = Append(facts, e)
  BY DEF Record
<1>4. IsFact(e) /\ e.order = o
  BY DEF IsFact
<1>5. Len(facts) + 1 \notin DOMAIN facts
  BY <1>1, <1>2
<1> HIDE DEF e
<1>6. \A f \in DOMAIN facts' : IsFact(facts'[f])
  BY <1>2, <1>3, <1>4 DEF Shape
<1>7. QED
  BY <1>2, <1>3, <1>4, <1>5, <1>6

\* What reversing a fact takes from it.
LEMMA ReversedTakes ==
  ASSUME Shape, NEW f \in DOMAIN facts, Reversed(f)
  PROVE  /\ DOMAIN facts' = DOMAIN facts
         /\ \A g \in DOMAIN facts : facts'[g].order = facts[g].order
         /\ \A g \in DOMAIN facts : facts'[g].active => facts[g].active
         /\ \E S : facts' \in Seq(S)
         /\ \A g \in DOMAIN facts' : IsFact(facts'[g])
<1> DEFINE e == [facts[f] EXCEPT !.active = FALSE]
<1>1. PICK S : facts \in Seq(S)
  BY DEF Shape
<1>2. facts' = [facts EXCEPT ![f] = e]
  BY DEF Reversed
<1>3. IsFact(facts[f])
  BY DEF Shape
<1>4. IsFact(e) /\ e.order = facts[f].order /\ e.active = FALSE
  BY <1>3 DEF IsFact
<1> HIDE DEF e
<1>5. facts' \in Seq(S \cup {e})
  BY <1>1, <1>2, Replaced
<1>6. \A g \in DOMAIN facts : facts'[g] = IF g = f THEN e ELSE facts[g]
  BY <1>1, <1>2
<1>7. DOMAIN facts' = DOMAIN facts
  BY <1>1, <1>2
<1>8. \A g \in DOMAIN facts' : IsFact(facts'[g])
  BY <1>4, <1>6, <1>7 DEF Shape
<1>9. QED
  BY <1>4, <1>5, <1>6, <1>7, <1>8

\* Putting r in the place of order o, at a later revision.
LEMMA OrderReplaced ==
  ASSUME Shape, SeenIsPast, NEW o \in Orders, NEW r, IsOrder(r),
         r.revision > order[o].revision,
         order' = [order EXCEPT ![o] = r],
         seen' = seen \/ seen' = [seen EXCEPT ![o] = NoOrder]
  PROVE  /\ order' = [p \in Orders |-> order'[p]] /\ seen' = [p \in Orders |-> seen'[p]]
         /\ \A p \in Orders : IsOrder(order'[p]) /\ IsOrder(seen'[p])
         /\ order'[o] = r
         /\ \A p \in Orders : p # o => order'[p] = order[p]
         /\ SeenIsPast'
<1>1. /\ order' = [p \in Orders |-> order'[p]]
      /\ order'[o] = r
      /\ \A p \in Orders : p # o => order'[p] = order[p]
  BY DEF Shape
<1>2. /\ seen' = [p \in Orders |-> seen'[p]]
      /\ \A p \in Orders : seen'[p] = seen[p] \/ (p = o /\ seen'[p] = NoOrder)
  BY DEF Shape
<1>3. IsOrder(NoOrder) /\ NoOrder.revision = 0
  BY DEF IsOrder, NoOrder, Statuses
<1>4. \A p \in Orders : IsOrder(order'[p]) /\ IsOrder(seen'[p])
  BY <1>1, <1>2, <1>3 DEF Shape
<1>5. ASSUME NEW p \in Orders
      PROVE  /\ seen'[p].revision <= order'[p].revision
             /\ seen'[p].revision = order'[p].revision => seen'[p].lines = order'[p].lines
  <2>1. /\ seen[p].revision \in Nat /\ order[p].revision \in Nat /\ r.revision \in Nat
        /\ seen[p].revision <= order[p].revision
        /\ seen[p].revision = order[p].revision => seen[p].lines = order[p].lines
    BY DEF Shape, SeenIsPast, IsOrder
  <2>2. CASE p = o
    BY <1>1, <1>2, <1>3, <2>1, <2>2
  <2>3. CASE p # o
    BY <1>1, <1>2, <2>1, <2>3
  <2>4. QED
    BY <2>2, <2>3
<1>6. QED
  BY <1>1, <1>2, <1>4, <1>5 DEF SeenIsPast

\* Nothing is in force of an order that is not, when the facts stay or a fact
\* of an order in force, or of none, is recorded, and the orders in force stay so.
LEMMA BareAfterRecord ==
  ASSUME CancelledIsBare, NEW o, NEW n, DOMAIN facts' = DOMAIN facts \cup {n},
         \A f \in DOMAIN facts : facts'[f] = facts[f], facts'[n].order = o,
         \A p \in Orders : order'[p].status \notin Ordering => order[p].status \notin Ordering,
         \A p \in Orders : p = o => order'[p].status \in Ordering
  PROVE  CancelledIsBare'
BY DEF CancelledIsBare, ActiveFacts

LEMMA BareAfterReversal ==
  ASSUME CancelledIsBare, DOMAIN facts' = DOMAIN facts,
         \A g \in DOMAIN facts : facts'[g].order = facts[g].order,
         \A g \in DOMAIN facts : facts'[g].active => facts[g].active,
         \A p \in Orders : order'[p].status \notin Ordering => order[p].status \notin Ordering
  PROVE  CancelledIsBare'
BY DEF CancelledIsBare, ActiveFacts

\* A receipt, or its reversal, moves the order on to a status in force.
LEMMA ReceiptKeeps ==
  ASSUME Shape, SeenIsPast, NEW o \in Orders, NEW qty, NEW sign, Receipt(o, qty, sign), seen' = seen
  PROVE  /\ order' = [p \in Orders |-> order'[p]] /\ seen' = [p \in Orders |-> seen'[p]]
         /\ \A p \in Orders : IsOrder(order'[p]) /\ IsOrder(seen'[p])
         /\ order'[o].status \in Ordering
         /\ \A p \in Orders : p # o => order'[p] = order[p]
         /\ SeenIsPast'
<1> DEFINE lines == [l \in DOMAIN order[o].lines |->
                       [order[o].lines[l] EXCEPT !.received =
                          @ + sign * (IF l \in DOMAIN qty THEN qty[l] ELSE 0)]]
           r == [status |-> Refreshed(lines), revision |-> order[o].revision + 1, lines |-> lines]
<1>1. order' = [order EXCEPT ![o] = r]
  <2>1. order' = [order EXCEPT ![o] = [status |-> Refreshed(lines),
                                       revision |-> @.revision + 1, lines |-> lines]]
    BY DEF Receipt
  <2> HIDE DEF lines
  <2>2. QED
    BY <2>1
<1>2. Refreshed(lines) \in Ordering
  <2> HIDE DEF lines
  <2>1. QED
    BY DEF Refreshed, Ordering, Received
<1> HIDE DEF lines
<1>3. order[o].revision \in Nat
  BY DEF Shape, IsOrder
<1>4. r.status \in Ordering /\ IsOrder(r) /\ r.revision > order[o].revision
  BY <1>2, <1>3 DEF IsOrder, Statuses, Ordering, Received
<1> HIDE DEF r
<1>5. QED
  BY <1>1, <1>4, OrderReplaced

LEMMA InitIInv == Init => IInv
<1> SUFFICES ASSUME Init PROVE IInv
  OBVIOUS
<1>1. IsOrder(NoOrder) /\ NoOrder.revision = 0
  BY DEF IsOrder, NoOrder, Statuses
<1>2. Shape
  <2>1. facts \in Seq({}) /\ DOMAIN facts = {}
    BY DEF Init
  <2>2. QED
    BY <1>1, <2>1 DEF Init, Shape
<1>3. SeenIsPast
  BY <1>1 DEF Init, SeenIsPast
<1>4. CancelledIsBare
  BY DEF Init, CancelledIsBare, ActiveFacts
<1>5. QED
  BY <1>2, <1>3, <1>4 DEF IInv


\* The facts stay: an order in force stays so, and one that leaves is bare.
LEMMA FactsStay ==
  ASSUME Shape, CancelledIsBare, facts' = facts,
         order' = [p \in Orders |-> order'[p]], seen' = [p \in Orders |-> seen'[p]],
         \A p \in Orders : IsOrder(order'[p]) /\ IsOrder(seen'[p]), SeenIsPast',
         \A p \in Orders : \/ order'[p].status \notin Ordering => order[p].status \notin Ordering
                           \/ ActiveFacts(p) = {}
  PROVE  IInv'
<1>1. Shape'
  BY DEF Shape
<1>2. CancelledIsBare'
  BY DEF CancelledIsBare, ActiveFacts
<1>3. QED
  BY <1>1, <1>2 DEF IInv

\* Only stock, link and facts change: what is recorded is of an order in force or of none.
LEMMA RecordKeeps ==
  ASSUME IInv, NEW kind \in StockKinds \cup MoneyKinds, NEW o \in Orders \cup {Unordered},
         NEW parts, Record(kind, o, parts), o \in Orders => order[o].status \in Ordering,
         order' = order, seen' = seen
  PROVE  IInv'
<1>1. Shape /\ SeenIsPast /\ CancelledIsBare
  BY DEF IInv
<1>2. PICK n : /\ n \notin DOMAIN facts /\ DOMAIN facts' = DOMAIN facts \cup {n}
               /\ \A f \in DOMAIN facts : facts'[f] = facts[f]
               /\ facts'[n].order = o
               /\ \E S : facts' \in Seq(S)
               /\ \A f \in DOMAIN facts' : IsFact(facts'[f])
  BY <1>1, RecordAdds
<1>3. CancelledIsBare'
  BY <1>1, <1>2, BareAfterRecord
<1>4. Shape' /\ SeenIsPast'
  BY <1>1, <1>2 DEF Shape, SeenIsPast
<1>5. QED
  BY <1>3, <1>4 DEF IInv

\* Only stock and facts change: something is no longer in force.
LEMMA ReversalKeeps ==
  ASSUME IInv, NEW f \in DOMAIN facts, Reversed(f), order' = order, seen' = seen
  PROVE  IInv'
<1>1. Shape /\ SeenIsPast /\ CancelledIsBare
  BY DEF IInv
<1>2. /\ DOMAIN facts' = DOMAIN facts
      /\ \A g \in DOMAIN facts : facts'[g].order = facts[g].order
      /\ \A g \in DOMAIN facts : facts'[g].active => facts[g].active
      /\ \E S : facts' \in Seq(S)
      /\ \A g \in DOMAIN facts' : IsFact(facts'[g])
  BY <1>1, ReversedTakes
<1>3. CancelledIsBare'
  BY <1>1, <1>2, BareAfterReversal
<1>4. Shape' /\ SeenIsPast'
  BY <1>1, <1>2 DEF Shape, SeenIsPast
<1>5. QED
  BY <1>3, <1>4 DEF IInv

\* A draft, new or edited.
LEMMA DraftKeeps ==
  ASSUME IInv, NEW o \in Orders, NEW lines, NEW revision \in Nat, revision > order[o].revision,
         order[o].status \in {"none", "draft"},
         order' = [order EXCEPT ![o] = Draft(lines, revision)], seen' = seen, facts' = facts
  PROVE  IInv'
<1> DEFINE r == Draft(lines, revision)
<1>1. IsOrder(r) /\ r.revision = revision /\ r.status = "draft"
  BY DEF Draft, IsOrder, Statuses
<1>2. order' = [order EXCEPT ![o] = r]
  OBVIOUS
<1>3. Shape /\ SeenIsPast /\ CancelledIsBare
  BY DEF IInv
<1> HIDE DEF r
<1>4. /\ order' = [p \in Orders |-> order'[p]] /\ seen' = [p \in Orders |-> seen'[p]]
      /\ \A p \in Orders : IsOrder(order'[p]) /\ IsOrder(seen'[p])
      /\ order'[o] = r
      /\ \A p \in Orders : p # o => order'[p] = order[p]
      /\ SeenIsPast'
  BY <1>1, <1>2, <1>3, OrderReplaced
<1>5. order[o].status \notin Ordering
  BY DEF Ordering, Received
<1>6. QED
  BY <1>3, <1>4, <1>5, FactsStay

\* An order confirmed, or cancelled while it is bare.
LEMMA StatusKeeps ==
  ASSUME IInv, NEW o \in Orders, NEW status \in {"confirmed", "cancelled"},
         status = "cancelled" => ActiveFacts(o) = {},
         order' = [order EXCEPT ![o].status = status, ![o].revision = @ + 1],
         seen' = [seen EXCEPT ![o] = NoOrder], facts' = facts
  PROVE  /\ IInv' /\ order'[o].lines = order[o].lines
         /\ \A p \in Orders : p # o => order'[p] = order[p]
<1> DEFINE r == [status |-> status, revision |-> order[o].revision + 1, lines |-> order[o].lines]
<1>1. Shape /\ SeenIsPast /\ CancelledIsBare
  BY DEF IInv
<1>2. IsOrder(order[o]) /\ order[o].revision \in Nat
  BY <1>1 DEF Shape, IsOrder
<1>3. IsOrder(r) /\ r.revision > order[o].revision
  BY <1>2 DEF IsOrder, Statuses
<1>4. order' = [order EXCEPT ![o] = r]
  <2>1. order' = [order EXCEPT ![o] = [[@ EXCEPT !.status = status] EXCEPT !.revision = order[o].revision + 1]]
    BY <1>1, <1>2 DEF Shape, IsOrder
  <2> DEFINE x == [order[o] EXCEPT !.status = status]
             y == [x EXCEPT !.revision = order[o].revision + 1]
  <2>2. x \in [status : {status}, revision : Nat, lines : {order[o].lines}]
    BY <1>2 DEF IsOrder
  <2>3. y = r
    <3> HIDE DEF x
    <3>1. y \in [status : {status}, revision : {order[o].revision + 1}, lines : {order[o].lines}]
      BY <1>2, <2>2
    <3> HIDE DEF y
    <3>2. QED
      BY <3>1
  <2>4. QED
    BY <2>1, <2>3
<1>5. r.status = status /\ r.lines = order[o].lines
  OBVIOUS
<1> HIDE DEF r
<1>6. /\ order' = [p \in Orders |-> order'[p]] /\ seen' = [p \in Orders |-> seen'[p]]
      /\ \A p \in Orders : IsOrder(order'[p]) /\ IsOrder(seen'[p])
      /\ order'[o] = r
      /\ \A p \in Orders : p # o => order'[p] = order[p]
      /\ SeenIsPast'
  BY <1>1, <1>3, <1>4, OrderReplaced
<1>7. IInv'
  <2>1. status = "confirmed" => status \in Ordering
    BY DEF Ordering
  <2>2. QED
    BY <1>1, <1>5, <1>6, <2>1, FactsStay
<1>8. QED
  BY <1>5, <1>6, <1>7

\* A goods receipt of an order in force.
LEMMA ReceiveKeeps ==
  ASSUME IInv, NEW o \in Orders, NEW qty, ReceiveGoods(o, qty)
  PROVE  IInv' /\ \A p \in Orders : p # o => order'[p] = order[p]
<1>1. Shape /\ SeenIsPast /\ CancelledIsBare
  BY DEF IInv
<1>2. PICK parts : Record("receipt", o, parts)
  BY DEF ReceiveGoods
<1>3. PICK n : /\ n \notin DOMAIN facts /\ DOMAIN facts' = DOMAIN facts \cup {n}
               /\ \A f \in DOMAIN facts : facts'[f] = facts[f]
               /\ facts'[n].order = o
               /\ \E S : facts' \in Seq(S)
               /\ \A f \in DOMAIN facts' : IsFact(facts'[f])
  BY <1>1, <1>2, RecordAdds DEF StockKinds
<1>4. Receipt(o, qty, 1) /\ seen' = seen
  BY DEF ReceiveGoods
<1>5. /\ order' = [p \in Orders |-> order'[p]] /\ seen' = [p \in Orders |-> seen'[p]]
      /\ \A p \in Orders : IsOrder(order'[p]) /\ IsOrder(seen'[p])
      /\ order'[o].status \in Ordering
      /\ \A p \in Orders : p # o => order'[p] = order[p]
      /\ SeenIsPast'
  BY <1>1, <1>4, ReceiptKeeps
<1>6. CancelledIsBare'
  BY <1>1, <1>3, <1>5, BareAfterRecord
<1>7. Shape'
  BY <1>3, <1>5 DEF Shape
<1>8. QED
  BY <1>5, <1>6, <1>7 DEF IInv

\* The reversal of a receipt; what is not an order's would change no order.
LEMMA ReverseReceiptKeeps ==
  ASSUME IInv, NEW f \in DOMAIN facts, ReverseReceipt(f)
  PROVE  IInv' /\ \A p \in Orders : order'[p] = order[p] \/ order[p].status \in Ordering
<1>1. Shape /\ SeenIsPast /\ CancelledIsBare
  BY DEF IInv
<1> DEFINE o == facts[f].order
<1>2. PICK qty : Receipt(o, qty, -1)
  BY DEF ReverseReceipt
<1>3. Reversed(f) /\ seen' = seen /\ facts[f].active
  BY DEF ReverseReceipt, Active
<1>4. CASE o \in Orders
  <2>1. order[o].status \in Ordering
    BY <1>1, <1>3, <1>4 DEF CancelledIsBare, ActiveFacts
  <2> HIDE DEF o
  <2>2. /\ order' = [p \in Orders |-> order'[p]] /\ seen' = [p \in Orders |-> seen'[p]]
        /\ \A p \in Orders : IsOrder(order'[p]) /\ IsOrder(seen'[p])
        /\ order'[o].status \in Ordering
        /\ \A p \in Orders : p # o => order'[p] = order[p]
        /\ SeenIsPast'
    BY <1>1, <1>2, <1>3, <1>4, ReceiptKeeps
  <2>3. /\ DOMAIN facts' = DOMAIN facts
        /\ \A g \in DOMAIN facts : facts'[g].order = facts[g].order
        /\ \A g \in DOMAIN facts : facts'[g].active => facts[g].active
        /\ \E S : facts' \in Seq(S)
        /\ \A g \in DOMAIN facts' : IsFact(facts'[g])
    BY <1>1, <1>3, ReversedTakes
  <2>4. CancelledIsBare'
    BY <1>1, <2>2, <2>3, BareAfterReversal
  <2>5. Shape'
    BY <2>2, <2>3 DEF Shape
  <2>6. QED
    BY <2>1, <2>2, <2>4, <2>5 DEF IInv
<1>5. CASE o \notin Orders
  <2> HIDE DEF o
  <2>1. order' = order
    BY <1>1, <1>2, <1>5 DEF Receipt, Shape
  <2>2. QED
    BY <1>3, <2>1, ReversalKeeps
<1>6. QED
  BY <1>4, <1>5

\* What a step may do to an order: it leaves it as it is, it takes one that is
\* in force, it leaves a draft or makes one, or it gives it the status an order
\* ends with, or confirms the lines that the page showed.
OrderStep(o) ==
  \/ order'[o] = order[o] \/ order[o].status \in Ordering
  \/ order'[o].status \in {"draft", "cancelled"} \/ order'[o].lines = seen[o].lines

LEMMA NextIInv == IInv /\ [Next]_vars => IInv' /\ \A o \in Orders : OrderStep(o)
<1> SUFFICES ASSUME IInv, [Next]_vars PROVE IInv' /\ \A o \in Orders : OrderStep(o)
  OBVIOUS
<1>1. Shape /\ SeenIsPast /\ CancelledIsBare
  BY DEF IInv
<1>2. ASSUME NEW o \in Orders, NEW lines, CreateOrder(o, lines)
      PROVE  IInv' /\ \A p \in Orders : OrderStep(p)
  <2>1. order[o].revision = 0 /\ order[o].status = "none"
    BY <1>1, <1>2 DEF CreateOrder, Shape, IsOrder
  <2>2. /\ order' = [order EXCEPT ![o] = Draft(lines, 1)] /\ DOMAIN order = Orders
        /\ seen' = seen /\ facts' = facts
    BY <1>1, <1>2 DEF CreateOrder, Shape
  <2>3. IInv'
    <3>1. 1 \in Nat /\ 1 > order[o].revision /\ order[o].status \in {"none", "draft"}
      BY <2>1
    <3>2. QED
      BY <2>2, <3>1, DraftKeeps
  <2>4. QED
    BY <2>2, <2>3 DEF OrderStep, Draft
<1>3. ASSUME NEW o \in Orders, NEW lines, UpdateOrder(o, lines)
      PROVE  IInv' /\ \A p \in Orders : OrderStep(p)
  <2>1. order[o].revision \in Nat /\ order[o].status = "draft"
    BY <1>1, <1>3 DEF UpdateOrder, Shape, IsOrder
  <2>2. /\ order' = [order EXCEPT ![o] = Draft(lines, order[o].revision + 1)]
        /\ DOMAIN order = Orders /\ seen' = seen /\ facts' = facts
    BY <1>1, <1>3 DEF UpdateOrder, Shape
  <2>3. IInv'
    <3> DEFINE n == order[o].revision + 1
    <3>1. n \in Nat /\ n > order[o].revision /\ order[o].status \in {"none", "draft"}
      BY <2>1
    <3>2. order' = [order EXCEPT ![o] = Draft(lines, n)]
      BY <2>2
    <3> HIDE DEF n
    <3>3. QED
      BY <2>2, <3>1, <3>2, DraftKeeps
  <2>4. QED
    BY <2>2, <2>3 DEF OrderStep, Draft
<1>4. ASSUME NEW o \in Orders, Look(o)
      PROVE  IInv' /\ \A p \in Orders : OrderStep(p)
  <2>1. seen' = [seen EXCEPT ![o] = order[o]] /\ order' = order /\ facts' = facts
    BY <1>4 DEF Look
  <2>2. seen' = [p \in Orders |-> seen'[p]] /\ order' = [p \in Orders |-> order'[p]]
    BY <1>1, <2>1 DEF Shape
  <2>3. \A p \in Orders : seen'[p] = IF p = o THEN order[o] ELSE seen[p]
    BY <1>1, <2>1 DEF Shape
  <2>4. \A p \in Orders : IsOrder(order'[p]) /\ IsOrder(seen'[p])
    BY <1>1, <2>1, <2>3 DEF Shape
  <2>5. \A p \in Orders : order[p].revision \in Nat
    BY <1>1 DEF Shape, IsOrder
  <2>6. SeenIsPast'
    BY <1>1, <2>1, <2>3, <2>5 DEF SeenIsPast
  <2>7. IInv'
    BY <1>1, <2>1, <2>2, <2>4, <2>6, FactsStay
  <2>8. QED
    BY <2>1, <2>7 DEF OrderStep
<1>5. ASSUME NEW o \in Orders, ConfirmOrder(o)
      PROVE  IInv' /\ \A p \in Orders : OrderStep(p)
  <2>1. /\ IInv' /\ order'[o].lines = order[o].lines
        /\ \A p \in Orders : p # o => order'[p] = order[p]
    BY <1>5, StatusKeeps DEF ConfirmOrder
  <2>2. seen[o].lines = order[o].lines
    BY <1>1, <1>5 DEF ConfirmOrder, SeenIsPast
  <2>3. QED
    BY <2>1, <2>2 DEF OrderStep
<1>6. ASSUME NEW o \in Orders, CancelOrder(o)
      PROVE  IInv' /\ \A p \in Orders : OrderStep(p)
  <2>1. IInv' /\ \A p \in Orders : p # o => order'[p] = order[p]
    BY <1>6, StatusKeeps DEF CancelOrder
  <2>2. order'[o].status = "cancelled"
    BY <1>1, <1>6 DEF CancelOrder, Shape, IsOrder
  <2>3. QED
    BY <2>1, <2>2 DEF OrderStep
<1>7. ASSUME NEW o \in Orders, NEW qty, ReceiveGoods(o, qty)
      PROVE  IInv' /\ \A p \in Orders : OrderStep(p)
  <2>1. IInv' /\ \A p \in Orders : p # o => order'[p] = order[p]
    BY <1>7, ReceiveKeeps
  <2>2. order[o].status \in Ordering
    BY <1>7 DEF ReceiveGoods
  <2>3. QED
    BY <2>1, <2>2 DEF OrderStep
<1>8. ASSUME NEW o \in Orders, NEW kind \in MoneyKinds, NEW amount, Allocate(kind, o, amount)
      PROVE  IInv' /\ \A p \in Orders : OrderStep(p)
  <2>1. PICK parts : Record(kind, o, parts)
    BY <1>8 DEF Allocate
  <2>2. order[o].status \in Ordering /\ order' = order /\ seen' = seen
    BY <1>8 DEF Allocate
  <2>3. IInv'
    BY <2>1, <2>2, RecordKeeps
  <2>4. QED
    BY <2>2, <2>3 DEF OrderStep
<1>9. ASSUME NEW wanted, IssueGoods(wanted)
      PROVE  IInv' /\ \A p \in Orders : OrderStep(p)
  <2>1. PICK parts : Record("issue", Unordered, parts)
    BY <1>9 DEF IssueGoods
  <2>2. order' = order /\ seen' = seen
    BY <1>9 DEF IssueGoods
  <2>3. IInv'
    BY <2>1, <2>2, RecordKeeps, NothingAssumption DEF StockKinds
  <2>4. QED
    BY <2>2, <2>3 DEF OrderStep
<1>10. ASSUME NEW i, NEW qty, NEW cost, Adjust(i, qty, cost)
      PROVE  IInv' /\ \A p \in Orders : OrderStep(p)
  <2>1. PICK parts : Record("adjustment", Unordered, parts)
    BY <1>10 DEF Adjust
  <2>2. order' = order /\ seen' = seen
    BY <1>10 DEF Adjust
  <2>3. IInv'
    BY <2>1, <2>2, RecordKeeps, NothingAssumption DEF StockKinds
  <2>4. QED
    BY <2>2, <2>3 DEF OrderStep
<1>11. ASSUME NEW f \in DOMAIN facts, ReverseReceipt(f)
       PROVE  IInv' /\ \A p \in Orders : OrderStep(p)
  BY <1>11, ReverseReceiptKeeps DEF OrderStep
<1>12. ASSUME NEW f \in DOMAIN facts, Reversed(f), order' = order, seen' = seen
       PROVE  IInv' /\ \A p \in Orders : OrderStep(p)
  BY <1>12, ReversalKeeps DEF OrderStep
<1>13. CASE UNCHANGED vars
  <2>1. IInv'
    BY <1>1, <1>13 DEF vars, IInv, Shape, SeenIsPast, CancelledIsBare, ActiveFacts
  <2>2. QED
    BY <1>13, <2>1 DEF vars, OrderStep
<1>14. ASSUME NEW o \in Orders, Ordered(o)
       PROVE  IInv' /\ \A p \in Orders : OrderStep(p)
  BY <1>2, <1>3, <1>4, <1>5, <1>6, <1>7, <1>8, <1>14 DEF Ordered
<1>15. ASSUME NEW f \in DOMAIN facts,
              ReverseIssue(f) \/ ReverseAdjustment(f) \/ \E kind \in MoneyKinds : ReverseAllocation(f, kind)
       PROVE  IInv' /\ \A p \in Orders : OrderStep(p)
  BY <1>12, <1>15 DEF ReverseIssue, ReverseAdjustment, ReverseAllocation
<1>16. QED
  BY <1>9, <1>10, <1>11, <1>13, <1>14, <1>15 DEF Next

\* No receipt, payment or invoice is in force of an order that is a draft or
\* cancelled, whichever handlers ran before.
THEOREM OutOfForceIsBare == Spec => []CancelledIsBare
<1>1. IInv => CancelledIsBare
  BY DEF IInv
<1>2. IInv /\ [Next]_vars => IInv'
  BY NextIInv
<1>3. QED
  BY <1>1, <1>2, InitIInv, PTL DEF Spec

\* Whoever else edits a draft, an order is confirmed with the lines of the page
\* on which the user confirmed it.
THEOREM ConfirmsTheSeen == Spec => ConfirmedAsSeen
<1> DEFINE Step == \A o \in Orders : order[o].status = "draft" /\ order'[o].status = "confirmed" =>
                     order'[o].lines = seen[o].lines
<1>1. IInv /\ [Next]_vars => IInv'
  BY NextIInv
<1>2. IInv /\ [Next]_vars => [Step]_vars
  BY NextIInv DEF OrderStep, Ordering, Received
<1>3. QED
  BY <1>1, <1>2, InitIInv, PTL DEF Spec, ConfirmedAsSeen

-----------------------------------------------------------------------------
\* Parts with amounts that can be added up, and what they are per kind of fact.
Amounts(parts) ==
  /\ IsFiniteSet(DOMAIN parts)
  /\ \A p \in DOMAIN parts : parts[p].qty \in Int /\ parts[p].value \in Int

Booked(kind, parts) ==
  /\ Amounts(parts)
  /\ kind = "issue" => \A p \in DOMAIN parts : parts[p].qty < 0 /\ parts[p].value <= 0
  /\ kind = "receipt" => \A p \in DOMAIN parts : parts[p].qty > 0 /\ parts[p].value >= 0
  /\ kind \in MoneyKinds => \A p \in DOMAIN parts : parts[p].value >= 0
  /\ kind \in {"receipt"} \cup MoneyKinds => \A p \in DOMAIN parts : parts[p].line = p

Columns == {"qty", "value"}

\* f has the amounts that a share adds up.
Shares(f, parts, by, x, of) ==
  /\ Summable(f) /\ Share(parts, by, x, of) = SumFunction(f)
  /\ DOMAIN f = {q \in DOMAIN parts : parts[q][by] = x}
  /\ \A p \in DOMAIN f : f[p] = parts[p][of] /\ f[p] \in Int

\* A share is a total, of the amounts of its item or line.
LEMMA ShareSums ==
  ASSUME NEW parts, Amounts(parts), NEW by, NEW x, NEW of \in Columns
  PROVE  \E f : Shares(f, parts, by, x, of)
<1> DEFINE f == [p \in {q \in DOMAIN parts : parts[q][by] = x} |-> parts[p][of]]
<1>1. DOMAIN f = {q \in DOMAIN parts : parts[q][by] = x}
  OBVIOUS
<1>2. IsFiniteSet(DOMAIN f)
  BY <1>1, FS_Subset DEF Amounts
<1>3. \A p \in DOMAIN parts : parts[p][of] \in Int
  BY DEF Amounts, Columns
<1>4. \A p \in DOMAIN f : f[p] = parts[p][of] /\ f[p] \in Int
  BY <1>3
<1>5. Summable(f) /\ Share(parts, by, x, of) = SumFunction(f)
  BY <1>1, <1>2, <1>4 DEF Summable, Share
<1> HIDE DEF f
<1>6. QED
  BY <1>1, <1>4, <1>5 DEF Shares

\* A share is an integer.
LEMMA ShareInteger ==
  ASSUME NEW parts, Amounts(parts), NEW by, NEW x, NEW of \in Columns
  PROVE  Share(parts, by, x, of) \in Int
<1>1. PICK f : Shares(f, parts, by, x, of)
  BY ShareSums
<1> USE DEF Shares
<1>2. QED
  BY <1>1, SumInteger

\* What arrives has shares of at least 0.
LEMMA ShareNatural ==
  ASSUME NEW parts, Amounts(parts), NEW by, NEW x, NEW of \in Columns,
         \A p \in DOMAIN parts : parts[p][of] >= 0
  PROVE  /\ Share(parts, by, x, of) \in Nat
         /\ Share(parts, by, x, of) = 0 => \A p \in DOMAIN parts : parts[p][by] = x => parts[p][of] = 0
<1>1. PICK f : Shares(f, parts, by, x, of)
  BY ShareSums
<1> USE DEF Shares
<1>2. \A p \in DOMAIN f : f[p] \in Nat
  BY <1>1
<1>3. SumFunction(f) \in Nat /\ \A p \in DOMAIN f : f[p] <= SumFunction(f)
  BY <1>1, <1>2, SumNatural, SumTerm DEF Summable
<1>4. QED
  BY <1>1, <1>2, <1>3

\* What leaves has shares of at most 0.
LEMMA ShareOpposite ==
  ASSUME NEW parts, Amounts(parts), NEW by, NEW x, NEW of \in Columns,
         \A p \in DOMAIN parts : parts[p][of] <= 0
  PROVE  /\ - Share(parts, by, x, of) \in Nat
         /\ Share(parts, by, x, of) = 0 => \A p \in DOMAIN parts : parts[p][by] = x => parts[p][of] = 0
<1>1. PICK f : Shares(f, parts, by, x, of)
  BY ShareSums
<1> DEFINE g == [p \in DOMAIN f |-> - f[p]]
<1>2. DOMAIN g = DOMAIN f /\ \A p \in DOMAIN f : g[p] = - f[p]
  OBVIOUS
<1> HIDE DEF g
<1>3. \A p \in DOMAIN f : f[p] \in Int /\ f[p] = parts[p][of] /\ g[p] \in Nat
  BY <1>1, <1>2 DEF Shares
<1>4. SumFunction(g) = - SumFunction(f)
  BY <1>1, <1>2, SumOpposite DEF Shares
<1>5. SumFunction(g) \in Nat /\ \A p \in DOMAIN g : g[p] <= SumFunction(g)
  BY <1>1, <1>2, <1>3, SumNatural, SumTerm DEF Shares, Summable
<1>6. Share(parts, by, x, of) = SumFunction(f) /\ SumFunction(f) \in Int
  BY <1>1, SumInteger DEF Shares
<1>7. ASSUME Share(parts, by, x, of) = 0, NEW p \in DOMAIN parts, parts[p][by] = x
      PROVE  parts[p][of] = 0
  <2>1. p \in DOMAIN f
    BY <1>1, <1>7 DEF Shares
  <2>2. QED
    BY <1>2, <1>3, <1>4, <1>5, <1>6, <1>7, <2>1
<1>8. QED
  BY <1>4, <1>5, <1>6, <1>7

\* Nothing of an item or a line has the share 0.
LEMMA ShareOfNone ==
  ASSUME NEW parts, Amounts(parts), NEW by, NEW x, NEW of \in Columns,
         \A p \in DOMAIN parts : parts[p][by] # x
  PROVE  Share(parts, by, x, of) = 0
<1>1. PICK f : Shares(f, parts, by, x, of)
  BY ShareSums
<1>2. DOMAIN f = {}
  BY <1>1 DEF Shares
<1>3. QED
  BY <1>1, <1>2, SumEmpty DEF Shares

\* The share of a line, when each line has a part of its own.
LEMMA ShareOfLine ==
  ASSUME NEW parts, Amounts(parts), \A p \in DOMAIN parts : parts[p].line = p,
         NEW l, NEW of \in Columns
  PROVE  Share(parts, "line", l, of) = IF l \in DOMAIN parts THEN parts[l][of] ELSE 0
<1>1. PICK f : Shares(f, parts, "line", l, of)
  BY ShareSums
<1> USE DEF Shares
<1>2. CASE l \in DOMAIN parts
  <2>1. DOMAIN f = {l}
    BY <1>1, <1>2
  <2>2. QED
    BY <1>1, <1>2, <2>1, SumOne
<1>3. CASE l \notin DOMAIN parts
  <2>1. DOMAIN f = {}
    BY <1>1, <1>3
  <2>2. QED
    BY <1>1, <1>3, <2>1, SumEmpty
<1>4. QED
  BY <1>2, <1>3

\* The share of one part that is the only one, or the next.
LEMMA ShareOfOne ==
  ASSUME NEW e, e.qty \in Int, e.value \in Int, NEW by, NEW x, NEW of \in Columns
  PROVE  /\ Amounts(<<e>>)
         /\ Share(<<e>>, by, x, of) = IF e[by] = x THEN e[of] ELSE 0
<1>1. PICK s : s = <<e>>
  OBVIOUS
<1>2. DOMAIN s = {1} /\ s[1] = e
  BY <1>1
<1>3. Amounts(s)
  BY <1>2, FS_Singleton DEF Amounts
<1>4. PICK f : Shares(f, s, by, x, of)
  BY <1>3, ShareSums
<1> USE DEF Shares
<1>5. CASE e[by] = x
  <2>1. DOMAIN f = {1}
    BY <1>4, <1>2, <1>5
  <2>2. QED
    BY <1>1, <1>3, <1>4, <1>2, <1>5, <2>1, SumOne
<1>6. CASE e[by] # x
  <2>1. DOMAIN f = {}
    BY <1>4, <1>2, <1>6
  <2>2. QED
    BY <1>1, <1>3, <1>4, <1>6, <2>1, SumEmpty
<1>7. QED
  BY <1>5, <1>6

\* A part appended to the others adds to the shares of its item and its line.
LEMMA ShareOfNext ==
  ASSUME NEW S, NEW parts \in Seq(S), Amounts(parts), NEW e, e.qty \in Int, e.value \in Int
  PROVE  /\ Amounts(Append(parts, e))
         /\ \A by, x : \A of \in Columns :
              Share(Append(parts, e), by, x, of)
                = Share(parts, by, x, of) + IF e[by] = x THEN e[of] ELSE 0
<1>1. PICK s : s = Append(parts, e)
  OBVIOUS
<1> DEFINE n == Len(parts) + 1
<1>2. /\ DOMAIN s = DOMAIN parts \cup {n} /\ n \notin DOMAIN parts
      /\ \A p \in DOMAIN parts : s[p] = parts[p]
      /\ s[n] = e
  BY <1>1, Appended
<1> HIDE DEF n
<1>3. Amounts(s)
  <2>1. IsFiniteSet(DOMAIN s)
    BY <1>2, FS_AddElement DEF Amounts
  <2>2. QED
    BY <1>2, <2>1 DEF Amounts
<1>4. ASSUME NEW by, NEW x, NEW of \in Columns
      PROVE  Share(s, by, x, of) = Share(parts, by, x, of) + IF e[by] = x THEN e[of] ELSE 0
  <2>1. PICK f : Shares(f, parts, by, x, of)
    BY ShareSums
  <2>2. PICK g : Shares(g, s, by, x, of)
    BY <1>3, ShareSums
  <2> USE DEF Shares
  <2>3. CASE e[by] = x
    <3>1. DOMAIN g = DOMAIN f \cup {n} /\ n \notin DOMAIN f /\ g[n] = e[of] /\ g[n] \in Int
          /\ \A p \in DOMAIN f : g[p] = f[p]
      BY <1>2, <2>1, <2>2, <2>3
    <3>2. QED
      BY <2>1, <2>2, <2>3, <3>1, SumGrown
  <2>4. CASE e[by] # x
    <3>1. DOMAIN g = DOMAIN f /\ \A p \in DOMAIN f : g[p] = f[p]
      BY <1>2, <2>1, <2>2, <2>4
    <3>2. SumFunction(g) = SumFunction(f) /\ SumFunction(f) \in Int
      BY <2>1, <3>1, SumSame, SumInteger
    <3>3. QED
      BY <2>1, <2>2, <2>4, <3>2
  <2>5. QED
    BY <2>3, <2>4
<1>5. QED
  BY <1>1, <1>3, <1>4

-----------------------------------------------------------------------------
\* The ledger of some facts, the same for those of the next state.
ForceIn(fs, kinds, orders) ==
  {f \in DOMAIN fs : fs[f].active /\ fs[f].kind \in kinds /\ fs[f].order \in orders}
Ledger(fs, kinds, orders, by, x, of) ==
  SumFunction([f \in ForceIn(fs, kinds, orders) |-> Share(fs[f].parts, by, x, of)])

\* What is posted is the ledger of the facts, in this state
LEMMA PostedIsLedger ==
  /\ \A kinds, orders : InForce(kinds, orders) = ForceIn(facts, kinds, orders)
  /\ \A kinds, orders, by, x, of :
       Posted(kinds, orders, by, x, of) = Ledger(facts, kinds, orders, by, x, of)
BY DEF Posted, Ledger, InForce, ForceIn

\* and in the next state.
LEMMA PostedIsLedgerAfter ==
  /\ \A kinds, orders : InForce(kinds, orders)' = ForceIn(facts', kinds, orders)
  /\ \A kinds, orders, by, x, of :
       Posted(kinds, orders, by, x, of)' = Ledger(facts', kinds, orders, by, x, of)
BY DEF Posted, Ledger, InForce, ForceIn

Countable(fs) ==
  /\ IsFiniteSet(DOMAIN fs)
  /\ \A f \in DOMAIN fs : fs[f].active \in BOOLEAN /\ Amounts(fs[f].parts)

\* h has the amounts that a ledger adds up.
Entries(h, fs, kinds, orders, by, x, of) ==
  /\ Summable(h) /\ Ledger(fs, kinds, orders, by, x, of) = SumFunction(h)
  /\ DOMAIN h = ForceIn(fs, kinds, orders)
  /\ \A f \in DOMAIN h : h[f] = Share(fs[f].parts, by, x, of) /\ h[f] \in Int

\* A ledger is a total, of the shares of its facts in force.
LEMMA LedgerSums ==
  ASSUME NEW fs, Countable(fs), NEW kinds, NEW orders, NEW by, NEW x, NEW of \in Columns
  PROVE  \E h : Entries(h, fs, kinds, orders, by, x, of)
<1> DEFINE h == [f \in ForceIn(fs, kinds, orders) |-> Share(fs[f].parts, by, x, of)]
<1>1. DOMAIN h = ForceIn(fs, kinds, orders)
  OBVIOUS
<1>2. ForceIn(fs, kinds, orders) \subseteq DOMAIN fs
  BY DEF ForceIn
<1>3. IsFiniteSet(DOMAIN h)
  BY <1>1, <1>2, FS_Subset DEF Countable
<1>4. \A f \in DOMAIN h : h[f] = Share(fs[f].parts, by, x, of) /\ h[f] \in Int
  BY <1>2, ShareInteger DEF Countable
<1>5. Summable(h)
  BY <1>3, <1>4 DEF Summable
<1>6. Ledger(fs, kinds, orders, by, x, of) = SumFunction(h)
  BY DEF Ledger
<1> HIDE DEF h
<1>7. QED
  BY <1>1, <1>4, <1>5, <1>6 DEF Entries

\* A ledger is an integer.
LEMMA LedgerInteger ==
  ASSUME NEW fs, Countable(fs), NEW kinds, NEW orders, NEW by, NEW x, NEW of \in Columns
  PROVE  Ledger(fs, kinds, orders, by, x, of) \in Int
<1>1. PICK h : Entries(h, fs, kinds, orders, by, x, of)
  BY LedgerSums
<1>2. QED
  BY <1>1, SumInteger DEF Entries

\* Shares that are at least 0 add up to at least 0.
LEMMA LedgerNatural ==
  ASSUME NEW fs, Countable(fs), NEW kinds, NEW orders, NEW by, NEW x, NEW of \in Columns,
         \A f \in ForceIn(fs, kinds, orders) : Share(fs[f].parts, by, x, of) \in Nat
  PROVE  Ledger(fs, kinds, orders, by, x, of) \in Nat
<1>1. PICK h : Entries(h, fs, kinds, orders, by, x, of)
  BY LedgerSums
<1>2. QED
  BY <1>1, SumNatural DEF Entries, Summable

\* Without facts in force a ledger is 0.
LEMMA LedgerEmpty ==
  ASSUME NEW fs, Countable(fs), NEW kinds, NEW orders, NEW by, NEW x, NEW of \in Columns,
         ForceIn(fs, kinds, orders) = {}
  PROVE  Ledger(fs, kinds, orders, by, x, of) = 0
<1>1. PICK h : Entries(h, fs, kinds, orders, by, x, of)
  BY LedgerSums
<1>2. QED
  BY <1>1, SumEmpty DEF Entries

\* The same facts but for one, which counts only in gs.
Outdone(fs, gs, n) ==
  /\ n \in DOMAIN gs /\ gs[n].active
  /\ n \in DOMAIN fs => ~ fs[n].active
  /\ DOMAIN gs = DOMAIN fs \cup {n}
  /\ \A f \in DOMAIN fs \ {n} : gs[f] = fs[f]

\* One fact more in force adds its share to the ledgers of its kind and order.
LEMMA LedgerOutdone ==
  ASSUME NEW fs, Countable(fs), NEW gs, Countable(gs), NEW n, Outdone(fs, gs, n),
         NEW kinds, NEW orders, NEW by, NEW x, NEW of \in Columns
  PROVE  Ledger(gs, kinds, orders, by, x, of)
           = Ledger(fs, kinds, orders, by, x, of)
             + IF gs[n].kind \in kinds /\ gs[n].order \in orders
                 THEN Share(gs[n].parts, by, x, of) ELSE 0
<1>1. PICK g : Entries(g, fs, kinds, orders, by, x, of)
  BY LedgerSums
<1>2. PICK h : Entries(h, gs, kinds, orders, by, x, of)
  BY LedgerSums
<1>3. n \notin ForceIn(fs, kinds, orders)
  BY DEF ForceIn, Outdone
<1>4. ASSUME NEW f \in ForceIn(fs, kinds, orders)
      PROVE  f \in ForceIn(gs, kinds, orders) /\ gs[f] = fs[f]
  BY <1>3, <1>4 DEF ForceIn, Outdone
<1>5. ASSUME NEW f \in ForceIn(gs, kinds, orders), f # n
      PROVE  f \in ForceIn(fs, kinds, orders)
  BY <1>5 DEF ForceIn, Outdone
<1>6. CASE gs[n].kind \in kinds /\ gs[n].order \in orders
  <2>1. n \in ForceIn(gs, kinds, orders)
    BY <1>6 DEF ForceIn, Outdone
  <2>2. /\ DOMAIN h = DOMAIN g \cup {n} /\ n \notin DOMAIN g
        /\ h[n] = Share(gs[n].parts, by, x, of) /\ h[n] \in Int
        /\ \A f \in DOMAIN g : h[f] = g[f]
    BY <1>1, <1>2, <1>3, <1>4, <1>5, <2>1 DEF Entries
  <2>3. SumFunction(h) = SumFunction(g) + h[n]
    BY <1>1, <2>2, SumGrown DEF Entries
  <2>4. QED
    BY <1>1, <1>2, <1>6, <2>2, <2>3 DEF Entries
<1>7. CASE ~ (gs[n].kind \in kinds /\ gs[n].order \in orders)
  <2>1. n \notin ForceIn(gs, kinds, orders)
    BY <1>7 DEF ForceIn
  <2>2. DOMAIN h = DOMAIN g /\ \A f \in DOMAIN g : h[f] = g[f]
    BY <1>1, <1>2, <1>4, <1>5, <2>1 DEF Entries
  <2>3. SumFunction(h) = SumFunction(g) /\ SumFunction(g) \in Int
    BY <1>1, <2>2, SumSame, SumInteger DEF Entries
  <2>4. QED
    BY <1>1, <1>2, <1>7, <2>3 DEF Entries
<1>8. QED
  BY <1>6, <1>7

-----------------------------------------------------------------------------
AllBooked == \A f \in DOMAIN facts : Booked(facts[f].kind, facts[f].parts)

\* The facts have ledgers.
LEMMA FactsCountable ==
  ASSUME Shape, AllBooked
  PROVE  Countable(facts)
<1>1. PICK S : facts \in Seq(S)
  BY DEF Shape
<1>2. IsFiniteSet(1..Len(facts))
  BY <1>1, FS_Interval
<1>3. QED
  BY <1>1, <1>2 DEF Countable, Shape, IsFact, AllBooked, Booked

\* What a recorded fact adds to each ledger.
LEMMA RecordPosts ==
  ASSUME Shape, AllBooked, NEW kind \in StockKinds \cup MoneyKinds,
         NEW o \in Orders \cup {Unordered}, NEW parts, Booked(kind, parts), Record(kind, o, parts)
  PROVE  /\ AllBooked'
         /\ \E n \in DOMAIN facts' :
              /\ n \notin DOMAIN facts /\ facts'[n].kind = kind /\ facts'[n].order = o
              /\ facts'[n].parts = parts
              /\ DOMAIN facts' = DOMAIN facts \cup {n}
              /\ \A f \in DOMAIN facts : facts'[f] = facts[f]
         /\ \A kinds, orders, by, x : \A of \in Columns :
              Posted(kinds, orders, by, x, of)'
                = Posted(kinds, orders, by, x, of)
                  + IF kind \in kinds /\ o \in orders THEN Share(parts, by, x, of) ELSE 0
<1> DEFINE e == [kind |-> kind, active |-> TRUE, order |-> o, parts |-> parts]
           n == Len(facts) + 1
<1>1. PICK S : facts \in Seq(S)
  BY DEF Shape
<1>2. e.kind = kind /\ e.active = TRUE /\ e.order = o /\ e.parts = parts
  OBVIOUS
<1>3. facts' = Append(facts, e)
  BY DEF Record
<1> HIDE DEF e
<1>4. /\ DOMAIN facts' = DOMAIN facts \cup {n} /\ n \notin DOMAIN facts
      /\ \A f \in DOMAIN facts : facts'[f] = facts[f]
      /\ facts'[n] = e
  BY <1>1, <1>3, Appended
<1> HIDE DEF n
<1>5. AllBooked'
  BY <1>2, <1>4 DEF AllBooked
<1>6. Countable(facts)
  BY FactsCountable
<1>7. Countable(facts')
  <2>1. IsFiniteSet(DOMAIN facts')
    BY <1>4, <1>6, FS_AddElement DEF Countable
  <2>2. QED
    BY <1>2, <1>4, <1>6, <2>1 DEF Countable, Booked
<1>8. Outdone(facts, facts', n)
  BY <1>2, <1>4 DEF Outdone
<1>9. ASSUME NEW kinds, NEW orders, NEW by, NEW x, NEW of \in Columns
      PROVE  Ledger(facts', kinds, orders, by, x, of)
               = Ledger(facts, kinds, orders, by, x, of)
                 + IF kind \in kinds /\ o \in orders THEN Share(parts, by, x, of) ELSE 0
  BY <1>2, <1>4, <1>6, <1>7, <1>8, LedgerOutdone
<1>10. QED
  BY <1>2, <1>4, <1>5, <1>9, PostedIsLedger, PostedIsLedgerAfter

\* What the reversal of a fact in force takes from each ledger.
LEMMA ReversalPosts ==
  ASSUME Shape, AllBooked, NEW f \in DOMAIN facts, facts[f].active, Reversed(f)
  PROVE  /\ AllBooked' /\ Countable(facts') /\ DOMAIN facts' = DOMAIN facts
         /\ \A g \in DOMAIN facts : /\ facts'[g].kind = facts[g].kind /\ facts'[g].order = facts[g].order
                                    /\ facts'[g].parts = facts[g].parts
                                    /\ facts'[g].active => facts[g].active
         /\ \A kinds, orders, by, x : \A of \in Columns :
              Posted(kinds, orders, by, x, of)'
                = Posted(kinds, orders, by, x, of)
                  - IF facts[f].kind \in kinds /\ facts[f].order \in orders
                      THEN Share(facts[f].parts, by, x, of) ELSE 0
<1> DEFINE e == [facts[f] EXCEPT !.active = FALSE]
<1>1. PICK S : facts \in Seq(S)
  BY DEF Shape
<1>2. IsFact(facts[f])
  BY DEF Shape
<1>3. e.kind = facts[f].kind /\ e.active = FALSE /\ e.order = facts[f].order /\ e.parts = facts[f].parts
  BY <1>2 DEF IsFact
<1>4. facts' = [facts EXCEPT ![f] = e]
  BY DEF Reversed
<1> HIDE DEF e
<1>5. /\ DOMAIN facts' = DOMAIN facts
      /\ \A g \in DOMAIN facts \ {f} : facts'[g] = facts[g]
      /\ facts'[f] = e
  BY <1>1, <1>4
<1>6. AllBooked'
  BY <1>3, <1>5 DEF AllBooked
<1>7. Countable(facts)
  BY FactsCountable
<1>8. Countable(facts')
  BY <1>3, <1>5, <1>7 DEF Countable
<1>9. Outdone(facts', facts, f)
  BY <1>3, <1>5 DEF Outdone
<1>10. ASSUME NEW kinds, NEW orders, NEW by, NEW x, NEW of \in Columns
       PROVE  Ledger(facts', kinds, orders, by, x, of)
                = Ledger(facts, kinds, orders, by, x, of)
                  - IF facts[f].kind \in kinds /\ facts[f].order \in orders
                      THEN Share(facts[f].parts, by, x, of) ELSE 0
  <2>1. Ledger(facts, kinds, orders, by, x, of) \in Int /\ Ledger(facts', kinds, orders, by, x, of) \in Int
    BY <1>7, <1>8, LedgerInteger
  <2>2. Share(facts[f].parts, by, x, of) \in Int
    BY <1>7, ShareInteger DEF Countable
  <2>3. Ledger(facts, kinds, orders, by, x, of)
          = Ledger(facts', kinds, orders, by, x, of)
            + IF facts[f].kind \in kinds /\ facts[f].order \in orders
                THEN Share(facts[f].parts, by, x, of) ELSE 0
    BY <1>7, <1>8, <1>9, LedgerOutdone
  <2>4. QED
    BY <2>1, <2>2, <2>3
<1>11. QED
  BY <1>3, <1>5, <1>6, <1>8, <1>10, PostedIsLedger, PostedIsLedgerAfter

-----------------------------------------------------------------------------
\* A rounded share of nothing negative is not negative, and of a part no more than the whole.
LEMMA RoundNatural ==
  ASSUME NEW n \in Nat, NEW d \in Positive
  PROVE  RoundRatio(n, d) \in Nat
<1>1. 2 * n + d \in Nat /\ 2 * d \in Nat \ {0}
  BY DEF Positive
<1>2. QED
  BY <1>1 DEF RoundRatio

\* A product of natural numbers is one.
LEMMA ProductNatural ==
  ASSUME NEW a \in Nat, NEW b \in Nat
  PROVE  a * b \in Nat
OBVIOUS

LEMMA RoundOfPart ==
  ASSUME NEW v \in Nat, NEW q \in Nat, NEW n \in Nat, q < n
  PROVE  RoundRatio(v * q, n) \in Nat /\ RoundRatio(v * q, n) <= v
<1>1. v * q \in Nat /\ n \in Positive
  BY ProductNatural DEF Positive
<1>2. (2 * (v * q) + n) \div (2 * n) <= v
  OBVIOUS
<1>3. QED
  BY <1>1, <1>2, RoundNatural DEF RoundRatio

\* A value is natural, as is
LEMMA LineValueNatural ==
  ASSUME NEW cost \in Nat, NEW qty \in Nat
  PROVE  LineValue(cost, qty) \in Nat
<1>1. cost * qty \in Nat /\ Scale \in Positive
  BY ProductNatural, ScaleAssumption DEF Positive
<1>2. QED
  BY <1>1, RoundNatural DEF LineValue

\* the gross amount of a line.
LEMMA GrossNatural ==
  ASSUME NEW line \in OrderLine
  PROVE  Gross(line) \in Nat
<1>1. line.cost \in Nat /\ line.qty \in Nat /\ line.tax \in Nat
  BY DEF OrderLine, Positive
<1>2. LineValue(line.cost, line.qty) \in Nat
  BY <1>1, LineValueNatural
<1>3. QED
  BY <1>1, <1>2 DEF Gross

\* What goods cost that leave the stock: all that is left with the last of them.
LEMMA CostWithin ==
  ASSUME NEW item \in Holding, NEW qty \in Positive, qty <= item.qty
  PROVE  /\ CostOf(item, qty) \in Nat /\ CostOf(item, qty) <= item.value
         /\ qty = item.qty => CostOf(item, qty) = item.value
<1>1. item.qty \in Nat /\ item.value \in Nat /\ qty \in Nat
  BY DEF Holding, Positive
<1>2. QED
  BY <1>1, RoundOfPart DEF CostOf

\* The lesser of two numbers.
LEMMA MinOfTwo ==
  ASSUME NEW a \in Int, NEW b \in Int
  PROVE  Min({a, b}) = IF a <= b THEN a ELSE b
<1> DEFINE m == IF a <= b THEN a ELSE b
<1>1. m \in {a, b} /\ \A y \in {a, b} : m <= y
  OBVIOUS
<1>2. ASSUME NEW x \in {a, b}, \A y \in {a, b} : x <= y
      PROVE  x = m
  BY <1>2
<1> HIDE DEF m
<1>3. QED
  BY <1>1, <1>2 DEF Min, m

-----------------------------------------------------------------------------
\* The lines of an order, and what its status says of them.
IsLines(lines) ==
  /\ DOMAIN lines \subseteq Lines
  /\ \A l \in DOMAIN lines : lines[l] \in OrderLine /\ lines[l].received <= lines[l].qty

Progress(status, lines) ==
  /\ status \notin Received => \A l \in DOMAIN lines : lines[l].received = 0
  /\ status = "received" => \A l \in DOMAIN lines : lines[l].received = lines[l].qty
  /\ status = "partially_received" =>
       /\ \E l \in DOMAIN lines : lines[l].received > 0
       /\ \E l \in DOMAIN lines : lines[l].received < lines[l].qty

\* The refreshed status says what was received.
LEMMA RefreshedTells ==
  ASSUME NEW lines, IsLines(lines)
  PROVE  Progress(Refreshed(lines), lines)
<1> DEFINE got == [l \in DOMAIN lines |-> lines[l].received]
           all == [l \in DOMAIN lines |-> lines[l].qty]
<1>1. /\ DOMAIN got = DOMAIN lines /\ \A l \in DOMAIN lines : got[l] = lines[l].received
      /\ DOMAIN all = DOMAIN lines /\ \A l \in DOMAIN lines : all[l] = lines[l].qty
      /\ ReceivedQuantity(lines) = SumFunction(got)
      /\ OrderedQuantity(lines) = SumFunction(all)
  BY DEF ReceivedQuantity, OrderedQuantity
<1> HIDE DEF got, all
<1>2. \A l \in DOMAIN lines : lines[l].received \in Nat /\ lines[l].qty \in Nat
                              /\ lines[l].received <= lines[l].qty
  BY DEF IsLines, OrderLine, Positive
<1>3. IsFiniteSet(DOMAIN lines)
  BY StockAssumption, FS_Subset DEF IsLines
<1>4. Summable(got) /\ Summable(all)
  BY <1>1, <1>2, <1>3 DEF Summable
<1>5. CASE ReceivedQuantity(lines) = 0
  <2>1. \A l \in DOMAIN lines : got[l] <= 0
    BY <1>1, <1>2, <1>3, <1>5, SumTerm
  <2>2. QED
    BY <1>1, <1>2, <1>5, <2>1 DEF Progress, Refreshed
<1>6. CASE ReceivedQuantity(lines) # 0 /\ ReceivedQuantity(lines) = OrderedQuantity(lines)
  <2>1. DOMAIN all = DOMAIN got /\ \A l \in DOMAIN got : got[l] <= all[l]
    BY <1>1, <1>2
  <2>2. SumFunction(got) = SumFunction(all)
    BY <1>1, <1>6
  <2>3. \A l \in DOMAIN got : got[l] = all[l]
    BY <1>4, <2>1, <2>2, SumEqual
  <2>4. QED
    BY <1>1, <1>6, <2>3 DEF Progress, Refreshed, Received
<1>7. CASE ReceivedQuantity(lines) # 0 /\ ReceivedQuantity(lines) # OrderedQuantity(lines)
  <2>1. \E l \in DOMAIN lines : got[l] # 0
    BY <1>1, <1>3, <1>7, SumOfZeros
  <2>2. \E l \in DOMAIN lines : got[l] # all[l]
    BY <1>1, <1>4, <1>7, SumSame
  <2>3. QED
    BY <1>1, <1>2, <1>7, <2>1, <2>2 DEF Progress, Refreshed, Received
<1>8. QED
  BY <1>5, <1>6, <1>7

\* A receipt or its reversal changes what was received, by what it brought or took.
LEMMA ReceiptMoves ==
  ASSUME Shape, NEW o \in Orders, IsLines(order[o].lines), NEW qty, NEW sign, Receipt(o, qty, sign),
         NEW by,
         \A l \in DOMAIN order[o].lines :
           by[l] = sign * (IF l \in DOMAIN qty THEN qty[l] ELSE 0)
           /\ by[l] \in Int /\ 0 <= order[o].lines[l].received + by[l]
           /\ order[o].lines[l].received + by[l] <= order[o].lines[l].qty
  PROVE  /\ IsLines(order'[o].lines) /\ Progress(order'[o].status, order'[o].lines)
         /\ DOMAIN order'[o].lines = DOMAIN order[o].lines
         /\ \A l \in DOMAIN order[o].lines :
              /\ order'[o].lines[l].received = order[o].lines[l].received + by[l]
              /\ order'[o].lines[l].qty = order[o].lines[l].qty
              /\ order'[o].lines[l].cost = order[o].lines[l].cost
              /\ order'[o].lines[l].tax = order[o].lines[l].tax
              /\ order'[o].lines[l].taxed = order[o].lines[l].taxed
<1> DEFINE lines == [l \in DOMAIN order[o].lines |->
                       [order[o].lines[l] EXCEPT !.received =
                          @ + sign * (IF l \in DOMAIN qty THEN qty[l] ELSE 0)]]
           r == [status |-> Refreshed(lines), revision |-> order[o].revision + 1, lines |-> lines]
<1>1. order' = [order EXCEPT ![o] = r]
  <2>1. order' = [order EXCEPT ![o] = [status |-> Refreshed(lines),
                                       revision |-> @.revision + 1, lines |-> lines]]
    BY DEF Receipt
  <2> HIDE DEF lines
  <2>2. QED
    BY <2>1
<1>2. ASSUME NEW l \in DOMAIN order[o].lines
      PROVE  lines[l] = [order[o].lines[l] EXCEPT !.received = order[o].lines[l].received + by[l]]
  OBVIOUS
<1>3. DOMAIN lines = DOMAIN order[o].lines
  OBVIOUS
<1> HIDE DEF lines
<1>4. order'[o].lines = lines /\ order'[o].status = Refreshed(lines)
  BY <1>1 DEF Shape
<1> HIDE DEF r
<1>5. ASSUME NEW l \in DOMAIN order[o].lines
      PROVE  /\ lines[l] \in OrderLine
             /\ lines[l].received = order[o].lines[l].received + by[l]
             /\ lines[l].qty = order[o].lines[l].qty
             /\ lines[l].cost = order[o].lines[l].cost
             /\ lines[l].tax = order[o].lines[l].tax
             /\ lines[l].taxed = order[o].lines[l].taxed
  <2>1. order[o].lines[l] \in OrderLine
    BY DEF IsLines
  <2>2. order[o].lines[l].received \in Int
    BY <2>1 DEF OrderLine
  <2>3. order[o].lines[l].received + by[l] \in Nat
    <3> DEFINE had == order[o].lines[l].received
               now == by[l]
    <3>1. had \in Int /\ now \in Int /\ 0 <= had + now
      BY <2>2
    <3> HIDE DEF had, now
    <3>2. had + now \in Nat
      BY <3>1
    <3>3. QED
      BY <3>2 DEF had, now
  <2>4. QED
    BY <1>2, <2>1, <2>3 DEF OrderLine
<1>6. IsLines(lines)
  BY <1>3, <1>5 DEF IsLines
<1>7. QED
  BY <1>3, <1>4, <1>5, <1>6, RefreshedTells

-----------------------------------------------------------------------------
\* The books: stock is its ledger, each order is worth what its receipts say and
\* no more is paid or invoiced of it, no more is issued than required.
StockBooks == stock \in [Items -> Holding] /\ BalanceIsLedger

OrderBooks(o) ==
  /\ IsLines(order[o].lines) /\ Progress(order[o].status, order[o].lines)
  /\ \A l \in DOMAIN order[o].lines :
       LET line == order[o].lines[l]  got == Of("receipt", o, l, "value") IN
       /\ line.received = Of("receipt", o, l, "qty")
       /\ line.taxed => /\ got <= Gross(line)
                        /\ line.received = line.qty => got = Gross(line)
       /\ \A kind \in MoneyKinds : Of(kind, o, l, "value") <= Gross(line)

IssueLimit == \A l \in Lines : - Of("issue", Unordered, l, "qty") <= Requirement[l]

Books == AllBooked /\ StockBooks /\ (\A o \in Orders : OrderBooks(o)) /\ IssueLimit
BInv == IInv /\ Books

\* What the facts in force moved of an item.
Moved(i, of) == Posted(StockKinds, Orders \cup {Unordered}, "item", i, of)

\* What is posted is an integer, of an order and of an item.
LEMMA PostedIntegers ==
  ASSUME Shape, AllBooked
  PROVE  /\ \A k, o, l : \A of \in Columns : Of(k, o, l, of) \in Int
         /\ \A i : \A of \in Columns : Moved(i, of) \in Int
<1>1. Countable(facts)
  BY FactsCountable
<1>2. ASSUME NEW kinds, NEW orders, NEW by, NEW x, NEW of \in Columns
      PROVE  Posted(kinds, orders, by, x, of) \in Int
  BY <1>1, LedgerInteger, PostedIsLedger
<1>3. QED
  BY <1>2 DEF Of, Moved

\* A recorded fact adds to what is posted of its kind and order, and to its items.
LEMMA RecordAddsUp ==
  ASSUME Shape, AllBooked, NEW kind \in StockKinds \cup MoneyKinds,
         NEW o \in Orders \cup {Unordered}, NEW parts, Booked(kind, parts), Record(kind, o, parts)
  PROVE  /\ \A k, q, l : \A of \in Columns :
              Of(k, q, l, of)' = IF k = kind /\ q = o THEN Of(k, q, l, of) + Share(parts, "line", l, of)
                                 ELSE Of(k, q, l, of)
         /\ \A i : \A of \in Columns :
              Moved(i, of)' = IF kind \in StockKinds THEN Moved(i, of) + Share(parts, "item", i, of)
                              ELSE Moved(i, of)
<1>1. \A kinds, orders, by, x : \A of \in Columns :
        Posted(kinds, orders, by, x, of)'
          = Posted(kinds, orders, by, x, of)
            + IF kind \in kinds /\ o \in orders THEN Share(parts, by, x, of) ELSE 0
  BY RecordPosts
<1>2. ASSUME NEW k, NEW q, NEW l, NEW of \in Columns
      PROVE  Of(k, q, l, of)' = IF k = kind /\ q = o THEN Of(k, q, l, of) + Share(parts, "line", l, of)
                                ELSE Of(k, q, l, of)
  <2>1. Of(k, q, l, of) \in Int
    BY PostedIntegers
  <2>2. Of(k, q, l, of)' = Of(k, q, l, of)
          + IF kind \in {k} /\ o \in {q} THEN Share(parts, "line", l, of) ELSE 0
    BY <1>1 DEF Of
  <2>3. QED
    BY <2>1, <2>2
<1>3. ASSUME NEW i, NEW of \in Columns
      PROVE  Moved(i, of)' = IF kind \in StockKinds THEN Moved(i, of) + Share(parts, "item", i, of)
                             ELSE Moved(i, of)
  <2>1. Moved(i, of) \in Int
    BY PostedIntegers
  <2>2. Moved(i, of)' = Moved(i, of) + IF kind \in StockKinds THEN Share(parts, "item", i, of) ELSE 0
    BY <1>1 DEF Moved
  <2>3. QED
    BY <2>1, <2>2
<1>4. QED
  BY <1>2, <1>3

\* A reversal takes from them as much.
LEMMA ReversalTakesBack ==
  ASSUME Shape, AllBooked, NEW f \in DOMAIN facts, facts[f].active, Reversed(f)
  PROVE  /\ \A k, q, l : \A of \in Columns :
              Of(k, q, l, of)' = IF k = facts[f].kind /\ q = facts[f].order
                                   THEN Of(k, q, l, of) - Share(facts[f].parts, "line", l, of)
                                 ELSE Of(k, q, l, of)
         /\ \A i : \A of \in Columns :
              Moved(i, of)' = IF facts[f].kind \in StockKinds
                                THEN Moved(i, of) - Share(facts[f].parts, "item", i, of)
                              ELSE Moved(i, of)
<1>1. \A kinds, orders, by, x : \A of \in Columns :
        Posted(kinds, orders, by, x, of)'
          = Posted(kinds, orders, by, x, of)
            - IF facts[f].kind \in kinds /\ facts[f].order \in orders
                THEN Share(facts[f].parts, by, x, of) ELSE 0
  BY ReversalPosts
<1>2. ASSUME NEW k, NEW q, NEW l, NEW of \in Columns
      PROVE  Of(k, q, l, of)' = IF k = facts[f].kind /\ q = facts[f].order
                                  THEN Of(k, q, l, of) - Share(facts[f].parts, "line", l, of)
                                ELSE Of(k, q, l, of)
  <2>1. Of(k, q, l, of) \in Int
    BY PostedIntegers
  <2>2. Of(k, q, l, of)' = Of(k, q, l, of)
          - IF facts[f].kind \in {k} /\ facts[f].order \in {q} THEN Share(facts[f].parts, "line", l, of) ELSE 0
    BY <1>1 DEF Of
  <2>3. QED
    BY <2>1, <2>2
<1>3. ASSUME NEW i, NEW of \in Columns
      PROVE  Moved(i, of)' = IF facts[f].kind \in StockKinds
                               THEN Moved(i, of) - Share(facts[f].parts, "item", i, of)
                             ELSE Moved(i, of)
  <2>1. Moved(i, of) \in Int
    BY PostedIntegers
  <2>2. facts[f].order \in Orders \cup {Unordered}
    BY DEF Shape, IsFact
  <2>3. Moved(i, of)' = Moved(i, of)
          - IF facts[f].kind \in StockKinds THEN Share(facts[f].parts, "item", i, of) ELSE 0
    BY <1>1, <2>2 DEF Moved
  <2>4. QED
    BY <2>1, <2>3
<1>4. QED
  BY <1>2, <1>3

\* Nothing is posted of an order without facts in force.
LEMMA BareIsZero ==
  ASSUME Shape, AllBooked, NEW o, ActiveFacts(o) = {}
  PROVE  \A k, l : \A of \in Columns : Of(k, o, l, of) = 0
<1>1. ASSUME NEW k, NEW l, NEW of \in Columns
      PROVE  Of(k, o, l, of) = 0
  <2>1. ForceIn(facts, {k}, {o}) = {}
    BY DEF ForceIn, ActiveFacts
  <2>2. Ledger(facts, {k}, {o}, "line", l, of) = 0
    BY <2>1, FactsCountable, LedgerEmpty
  <2>3. QED
    BY <2>2, PostedIsLedger DEF Of
<1>2. QED
  BY <1>1

-----------------------------------------------------------------------------
\* Stock and its ledger move together.
LEMMA StockMoves ==
  ASSUME StockBooks, NEW parts, Amounts(parts), NEW sign \in {1, -1},
         stock' = StockAfter(parts, sign), Takeable(stock'), Shape, AllBooked,
         \A i \in Items : \A of \in Columns :
           Moved(i, of)' = Moved(i, of) + sign * Share(parts, "item", i, of)
  PROVE  StockBooks'
<1>1. ASSUME NEW i \in Items
      PROVE  /\ stock'[i] = [qty |-> Opening[i].qty + Moved(i, "qty")',
                             value |-> Opening[i].value + Moved(i, "value")']
             /\ stock'[i].qty = 0 => stock'[i].value = 0
             /\ stock'[i] \in Holding
  <2>1. /\ Moved(i, "qty") \in Int /\ Moved(i, "value") \in Int
        /\ Share(parts, "item", i, "qty") \in Int /\ Share(parts, "item", i, "value") \in Int
    BY PostedIntegers, ShareInteger DEF Columns
  <2>2. Opening[i].qty \in Nat /\ Opening[i].value \in Nat
    BY StockAssumption DEF Holding
  <2>3. stock[i] = [qty |-> Opening[i].qty + Moved(i, "qty"),
                    value |-> Opening[i].value + Moved(i, "value")]
    BY DEF StockBooks, BalanceIsLedger, Moved
  <2>4. /\ Moved(i, "qty")' = Moved(i, "qty") + sign * Share(parts, "item", i, "qty")
        /\ Moved(i, "value")' = Moved(i, "value") + sign * Share(parts, "item", i, "value")
    BY DEF Columns
  <2>5. stock'[i] = [qty |-> stock[i].qty + sign * Share(parts, "item", i, "qty"),
                     value |-> stock[i].value + sign * Share(parts, "item", i, "value")]
    BY DEF StockAfter
  <2>6. stock'[i].qty >= 0 /\ stock'[i].value >= 0 /\ (stock'[i].qty = 0 => stock'[i].value = 0)
    BY DEF Takeable
  <2>7. /\ stock'[i].qty = Opening[i].qty + Moved(i, "qty")'
        /\ stock'[i].value = Opening[i].value + Moved(i, "value")'
        /\ stock'[i].qty \in Int /\ stock'[i].value \in Int
    BY <2>1, <2>2, <2>3, <2>4, <2>5
  <2>8. stock'[i] \in Holding
    BY <2>5, <2>6, <2>7 DEF Holding
  <2>9. QED
    BY <2>5, <2>6, <2>7, <2>8
<1>2. stock' \in [Items -> Holding]
  BY <1>1 DEF StockAfter
<1>3. BalanceIsLedger'
  BY <1>1 DEF BalanceIsLedger, Moved
<1>4. QED
  BY <1>2, <1>3 DEF StockBooks

\* Where neither moves, both stay.
LEMMA StockStays ==
  ASSUME StockBooks, stock' = stock, \A i \in Items : \A of \in Columns : Moved(i, of)' = Moved(i, of)
  PROVE  StockBooks'
<1>1. \A i \in Items : Moved(i, "qty")' = Moved(i, "qty") /\ Moved(i, "value")' = Moved(i, "value")
  BY DEF Columns
<1>2. BalanceIsLedger'
  BY <1>1 DEF StockBooks, BalanceIsLedger, Moved
<1>3. QED
  BY <1>2 DEF StockBooks

\* What arrives, with quantities, can be taken; so can what is left when something returns.
LEMMA ArrivalTakeable ==
  ASSUME StockBooks, NEW parts, Amounts(parts), NEW sign \in {1, -1},
         \/ sign = 1 /\ \A p \in DOMAIN parts : parts[p].qty > 0 /\ parts[p].value >= 0
         \/ sign = -1 /\ \A p \in DOMAIN parts : parts[p].qty < 0 /\ parts[p].value <= 0
  PROVE  Takeable(StockAfter(parts, sign))
<1>1. ASSUME NEW i \in Items
      PROVE  /\ sign * Share(parts, "item", i, "qty") \in Nat
             /\ sign * Share(parts, "item", i, "value") \in Nat
             /\ Share(parts, "item", i, "qty") = 0 => Share(parts, "item", i, "value") = 0
  <2>1. Share(parts, "item", i, "qty") \in Int /\ Share(parts, "item", i, "value") \in Int
    BY ShareInteger DEF Columns
  <2>2. ASSUME \A p \in DOMAIN parts : parts[p]["item"] = i => parts[p]["qty"] = 0
        PROVE  Share(parts, "item", i, "value") = 0
    <3>1. \A p \in DOMAIN parts : parts[p]["qty"] # 0
      BY DEF Amounts
    <3>2. \A p \in DOMAIN parts : parts[p]["item"] # i
      BY <2>2, <3>1
    <3>3. QED
      BY <3>2, ShareOfNone DEF Columns
  <2>3. CASE sign = 1 /\ \A p \in DOMAIN parts : parts[p].qty > 0 /\ parts[p].value >= 0
    <3>1. \A p \in DOMAIN parts : parts[p]["qty"] >= 0 /\ parts[p]["value"] >= 0
      BY <2>3 DEF Amounts
    <3>2. /\ Share(parts, "item", i, "qty") \in Nat /\ Share(parts, "item", i, "value") \in Nat
          /\ Share(parts, "item", i, "qty") = 0
               => \A p \in DOMAIN parts : parts[p]["item"] = i => parts[p]["qty"] = 0
      BY <3>1, ShareNatural DEF Columns
    <3>3. QED
      BY <2>2, <2>3, <3>2
  <2>4. CASE sign = -1 /\ \A p \in DOMAIN parts : parts[p].qty < 0 /\ parts[p].value <= 0
    <3>1. \A p \in DOMAIN parts : parts[p]["qty"] <= 0 /\ parts[p]["value"] <= 0
      BY <2>4 DEF Amounts
    <3>2. /\ - Share(parts, "item", i, "qty") \in Nat /\ - Share(parts, "item", i, "value") \in Nat
          /\ Share(parts, "item", i, "qty") = 0
               => \A p \in DOMAIN parts : parts[p]["item"] = i => parts[p]["qty"] = 0
      BY <3>1, ShareOpposite DEF Columns
    <3>3. QED
      BY <2>1, <2>2, <2>4, <3>2
  <2>5. QED
    BY <2>3, <2>4
<1>2. ASSUME NEW i \in Items
      PROVE  /\ stock[i].qty \in Nat /\ stock[i].value \in Nat
             /\ stock[i].qty = 0 => stock[i].value = 0
  BY DEF StockBooks, BalanceIsLedger, Holding
<1>3. ASSUME NEW i \in Items
      PROVE  /\ StockAfter(parts, sign)[i].qty = stock[i].qty + sign * Share(parts, "item", i, "qty")
             /\ StockAfter(parts, sign)[i].value = stock[i].value + sign * Share(parts, "item", i, "value")
  BY DEF StockAfter
<1>4. ASSUME NEW i \in Items
      PROVE  /\ StockAfter(parts, sign)[i].qty >= 0 /\ StockAfter(parts, sign)[i].value >= 0
             /\ StockAfter(parts, sign)[i].qty = 0 => StockAfter(parts, sign)[i].value = 0
  <2>1. Share(parts, "item", i, "qty") \in Int /\ Share(parts, "item", i, "value") \in Int
    BY ShareInteger DEF Columns
  <2>2. CASE sign = 1
    BY <1>1, <1>2, <1>3, <2>1, <2>2
  <2>3. CASE sign = -1
    <3>1. \A n \in Int : sign * n = - n /\ (- n = 0 => n = 0)
      BY <2>3
    <3>2. /\ sign * Share(parts, "item", i, "qty") = - Share(parts, "item", i, "qty")
          /\ sign * Share(parts, "item", i, "value") = - Share(parts, "item", i, "value")
          /\ - Share(parts, "item", i, "qty") = 0 => Share(parts, "item", i, "qty") = 0
      BY <2>1, <3>1
    <3>3. QED
      BY <1>1, <1>2, <1>3, <2>1, <3>2
  <2>4. QED
    BY <2>2, <2>3
<1>5. QED
  BY <1>4 DEF Takeable

-----------------------------------------------------------------------------
\* What a step leaves alone stays in the books.
LEMMA FactsSame ==
  ASSUME facts' = facts, AllBooked
  PROVE  /\ AllBooked'
         /\ \A k, o, l, of : Of(k, o, l, of)' = Of(k, o, l, of)
         /\ \A i, of : Moved(i, of)' = Moved(i, of)
BY DEF AllBooked, Of, Moved, Posted, InForce

\* An order whose lines and facts stay has the books it had.
LEMMA OrderStays ==
  ASSUME NEW o, OrderBooks(o), order'[o].lines = order[o].lines,
         \/ order'[o].status = order[o].status
         \/ order'[o].status \notin Received /\ order[o].status \notin Received,
         \A k \in {"receipt"} \cup MoneyKinds : \A l : \A of \in Columns : Of(k, o, l, of)' = Of(k, o, l, of)
  PROVE  OrderBooks(o)'
<1>1. Progress(order'[o].status, order'[o].lines)
  BY DEF OrderBooks, Progress, Received
<1>2. \A k \in {"receipt"} \cup MoneyKinds : \A l :
        Of(k, o, l, "qty")' = Of(k, o, l, "qty") /\ Of(k, o, l, "value")' = Of(k, o, l, "value")
  BY DEF Columns
<1>3. QED
  BY <1>1, <1>2 DEF OrderBooks

\* Issues that stay are within their limit.
LEMMA IssuesStay ==
  ASSUME IssueLimit, \A l : \A of \in Columns : Of("issue", Unordered, l, of)' = Of("issue", Unordered, l, of)
  PROVE  IssueLimit'
<1>1. \A l : Of("issue", Unordered, l, "qty")' = Of("issue", Unordered, l, "qty")
  BY DEF Columns
<1>2. QED
  BY <1>1 DEF IssueLimit

\* The numbers of an order line.
LEMMA OrderFields ==
  ASSUME NEW o, OrderBooks(o), NEW l \in DOMAIN order[o].lines
  PROVE  /\ order[o].lines[l] \in OrderLine
         /\ order[o].lines[l].received \in Nat /\ order[o].lines[l].qty \in Positive
         /\ order[o].lines[l].received <= order[o].lines[l].qty
         /\ Gross(order[o].lines[l]) \in Nat
<1>1. order[o].lines[l] \in OrderLine /\ order[o].lines[l].received <= order[o].lines[l].qty
  BY DEF OrderBooks, IsLines
<1>2. QED
  BY <1>1, GrossNatural DEF OrderLine

-----------------------------------------------------------------------------
\* New lines of a draft: nothing is posted of them.
LEMMA DraftBooks ==
  ASSUME BInv, NEW o \in Orders, NEW lines \in OrderForms, order[o].status \in {"none", "draft"},
         order'[o].lines = lines, order'[o].status = "draft",
         \A p \in Orders : p # o => order'[p] = order[p], stock' = stock, facts' = facts
  PROVE  Books'
<1>1. Shape /\ CancelledIsBare /\ Books
  BY DEF BInv, IInv
<1>2. /\ order'[o].lines = lines /\ order'[o].status = "draft"
      /\ \A p \in Orders : p # o => order'[p] = order[p]
  OBVIOUS
<1>3. /\ AllBooked'
      /\ \A k, p, l, of : Of(k, p, l, of)' = Of(k, p, l, of)
      /\ \A i, of : Moved(i, of)' = Moved(i, of)
  BY <1>1, FactsSame DEF Books
<1>4. \A k, l : \A of \in Columns : Of(k, o, l, of) = 0
  <2>1. ActiveFacts(o) = {}
    BY <1>1 DEF CancelledIsBare, Ordering, Received
  <2>2. QED
    BY <1>1, <2>1, BareIsZero DEF Books
<1>5. ASSUME NEW l \in DOMAIN lines
      PROVE  /\ lines[l] \in OrderLine /\ lines[l].received = 0 /\ lines[l].qty # 0 /\ lines[l].qty \in Nat
             /\ Gross(lines[l]) \in Nat
  <2>1. lines[l] \in OrderLine /\ lines[l].received = 0
    BY FormsAssumption
  <2>2. QED
    BY <2>1, GrossNatural DEF OrderLine, Positive
<1>6. OrderBooks(o)'
  <2>1. IsLines(lines) /\ Progress("draft", lines)
    BY <1>5, FormsAssumption DEF IsLines, Progress, Received
  <2>2. ASSUME NEW l \in DOMAIN lines
        PROVE  /\ lines[l].received = Of("receipt", o, l, "qty")
               /\ Of("receipt", o, l, "value") <= Gross(lines[l])
               /\ lines[l].received # lines[l].qty
               /\ \A kind \in MoneyKinds : Of(kind, o, l, "value") <= Gross(lines[l])
    BY <1>4, <1>5 DEF Columns
  <2>3. QED
    BY <1>2, <1>3, <2>1, <2>2 DEF OrderBooks
<1>7. \A p \in Orders : OrderBooks(p)'
  BY <1>1, <1>2, <1>3, <1>6, OrderStays DEF Books
<1>8. StockBooks' /\ IssueLimit'
  BY <1>1, <1>3, StockStays, IssuesStay DEF Books
<1>9. QED
  BY <1>3, <1>7, <1>8 DEF Books

\* A step that leaves facts and stock alone, and of the orders changes a status
\* that is not one of an order being received for another such status.
LEMMA StatusBooks ==
  ASSUME Books, stock' = stock, facts' = facts,
         \A p \in Orders : \/ order'[p] = order[p]
                           \/ /\ order'[p].lines = order[p].lines
                              /\ order'[p].status \notin Received /\ order[p].status \notin Received
  PROVE  Books'
<1>1. /\ AllBooked'
      /\ \A k, p, l, of : Of(k, p, l, of)' = Of(k, p, l, of)
      /\ \A i, of : Moved(i, of)' = Moved(i, of)
  BY FactsSame DEF Books
<1>2. \A p \in Orders : OrderBooks(p)'
  BY <1>1, OrderStays DEF Books
<1>3. StockBooks' /\ IssueLimit'
  BY <1>1, StockStays, IssuesStay DEF Books
<1>4. QED
  BY <1>1, <1>2, <1>3 DEF Books

-----------------------------------------------------------------------------
\* What a received line is worth: never more than what is left of the gross
\* amount, and all of it with the last of the goods.
LEMMA ReceiptValueFits ==
  ASSUME BInv, NEW o \in Orders, NEW l \in DOMAIN order[o].lines, NEW q \in Positive,
         order[o].lines[l].received + q <= order[o].lines[l].qty
  PROVE  /\ ReceiptValue(o, l, q) \in Nat
         /\ order[o].lines[l].taxed =>
              /\ Of("receipt", o, l, "value") + ReceiptValue(o, l, q) <= Gross(order[o].lines[l])
              /\ order[o].lines[l].received + q = order[o].lines[l].qty =>
                   Of("receipt", o, l, "value") + ReceiptValue(o, l, q) = Gross(order[o].lines[l])
<1> DEFINE line == order[o].lines[l]
           got == Of("receipt", o, l, "value")
           remaining == Gross(line) - got
           share == RoundRatio(Gross(line) * q, line.qty)
<1>1. OrderBooks(o) /\ Shape /\ AllBooked
  BY DEF BInv, IInv, Books
<1>2. /\ line \in OrderLine /\ line.received \in Nat /\ line.qty \in Positive /\ Gross(line) \in Nat
      /\ q \in Nat
  BY <1>1, OrderFields DEF Positive
<1>3. got \in Int
  BY <1>1, PostedIntegers DEF Columns
<1>4. line.taxed => got <= Gross(line)
  BY <1>1 DEF OrderBooks
<1>5. share \in Nat
  BY <1>2, ProductNatural, RoundNatural
<1>6. LineValue(line.cost, q) \in Nat
  BY <1>2, LineValueNatural DEF OrderLine
<1>7. ReceiptValue(o, l, q) =
        IF ~ line.taxed THEN LineValue(line.cost, q)
        ELSE IF q = line.qty - line.received THEN remaining ELSE Min({share, remaining})
  BY DEF ReceiptValue
<1>8. Min({share, remaining}) = IF share <= remaining THEN share ELSE remaining
  BY <1>2, <1>3, <1>5, MinOfTwo
<1> HIDE DEF got, share
<1>9. CASE ~ line.taxed
  BY <1>6, <1>7, <1>9
<1>10. CASE line.taxed
  <2>1. line.received + q = line.qty <=> q = line.qty - line.received
    BY <1>2 DEF Positive
  <2>2. remaining \in Nat
    BY <1>2, <1>3, <1>4, <1>10
  <2>3. QED
    BY <1>2, <1>3, <1>5, <1>7, <1>8, <1>10, <2>1, <2>2 DEF got
<1>11. QED
  BY <1>9, <1>10

\* What a receipt or its reversal does to the lines of its order: what was received
\* and what is posted change by the same quantity, and the value stays within bounds.
Moves(o, qty, sign, by, worth) ==
  \A l \in DOMAIN order[o].lines :
    /\ by[l] = sign * (IF l \in DOMAIN qty THEN qty[l] ELSE 0)
    /\ by[l] \in Int /\ worth[l] \in Int
    /\ 0 <= order[o].lines[l].received + by[l]
    /\ order[o].lines[l].received + by[l] <= order[o].lines[l].qty
    /\ Of("receipt", o, l, "qty")' = Of("receipt", o, l, "qty") + by[l]
    /\ Of("receipt", o, l, "value")' = Of("receipt", o, l, "value") + worth[l]
    /\ \A kind \in MoneyKinds : Of(kind, o, l, "value")' = Of(kind, o, l, "value")
    /\ by[l] = 0 => worth[l] = 0
    /\ by[l] # 0 /\ order[o].lines[l].taxed =>
         /\ Of("receipt", o, l, "value") + worth[l] <= Gross(order[o].lines[l])
         /\ order[o].lines[l].received + by[l] = order[o].lines[l].qty =>
              Of("receipt", o, l, "value") + worth[l] = Gross(order[o].lines[l])

\* With such moves the books of the order stay true.
LEMMA ReceiptBooks ==
  ASSUME Shape, AllBooked, NEW o \in Orders, OrderBooks(o),
         NEW qty, NEW sign, Receipt(o, qty, sign), NEW by, NEW worth, Moves(o, qty, sign, by, worth)
  PROVE  OrderBooks(o)'
<1>1. /\ IsLines(order'[o].lines) /\ Progress(order'[o].status, order'[o].lines)
      /\ DOMAIN order'[o].lines = DOMAIN order[o].lines
      /\ \A l \in DOMAIN order[o].lines :
           /\ order'[o].lines[l].received = order[o].lines[l].received + by[l]
           /\ order'[o].lines[l].qty = order[o].lines[l].qty
           /\ order'[o].lines[l].cost = order[o].lines[l].cost
           /\ order'[o].lines[l].tax = order[o].lines[l].tax
           /\ order'[o].lines[l].taxed = order[o].lines[l].taxed
  <2>1. IsLines(order[o].lines)
    BY DEF OrderBooks
  <2>2. QED
    BY <2>1, ReceiptMoves DEF Moves
<1>2. ASSUME NEW l \in DOMAIN order'[o].lines
      PROVE  /\ order'[o].lines[l].received = Of("receipt", o, l, "qty")'
             /\ order'[o].lines[l].taxed =>
                  /\ Of("receipt", o, l, "value")' <= Gross(order'[o].lines[l])
                  /\ order'[o].lines[l].received = order'[o].lines[l].qty =>
                       Of("receipt", o, l, "value")' = Gross(order'[o].lines[l])
             /\ \A kind \in MoneyKinds : Of(kind, o, l, "value")' <= Gross(order'[o].lines[l])
  <2>1. l \in DOMAIN order[o].lines
    BY <1>1
  <2>2. Gross(order'[o].lines[l]) = Gross(order[o].lines[l])
    BY <1>1, <2>1 DEF Gross
  <2>3. /\ order[o].lines[l].received = Of("receipt", o, l, "qty")
        /\ order[o].lines[l].taxed =>
             /\ Of("receipt", o, l, "value") <= Gross(order[o].lines[l])
             /\ order[o].lines[l].received = order[o].lines[l].qty =>
                  Of("receipt", o, l, "value") = Gross(order[o].lines[l])
        /\ \A kind \in MoneyKinds : Of(kind, o, l, "value") <= Gross(order[o].lines[l])
    BY <2>1 DEF OrderBooks
  <2>4. Of("receipt", o, l, "value") \in Int /\ order[o].lines[l].received \in Nat
    BY <2>1, PostedIntegers, OrderFields DEF Columns
  <2>5. CASE by[l] # 0
    BY <1>1, <2>1, <2>2, <2>3, <2>5 DEF Moves
  <2>6. CASE by[l] = 0
    <3>1. Of("receipt", o, l, "value")' = Of("receipt", o, l, "value")
      BY <2>1, <2>4, <2>6 DEF Moves
    <3>2. order'[o].lines[l].received = order[o].lines[l].received
      BY <1>1, <2>1, <2>4, <2>6
    <3>3. Of("receipt", o, l, "qty")' = order[o].lines[l].received
      BY <2>1, <2>3, <2>4, <2>6 DEF Moves
    <3>4. QED
      BY <1>1, <2>1, <2>2, <2>3, <3>1, <3>2, <3>3 DEF Moves
  <2>7. QED
    BY <2>5, <2>6
<1>3. QED
  BY <1>1, <1>2 DEF OrderBooks

\* A goods receipt keeps the books.
LEMMA ReceiveBooks ==
  ASSUME BInv, NEW o \in Orders, NEW qty \in ReceiptForms, ReceiveGoods(o, qty)
  PROVE  Books'
<1>1. Shape /\ SeenIsPast /\ Books /\ AllBooked /\ StockBooks /\ IssueLimit /\ OrderBooks(o)
  BY DEF BInv, IInv, Books
<1>2. /\ DOMAIN qty \subseteq DOMAIN order[o].lines
      /\ \A l \in DOMAIN qty : order[o].lines[l].received + qty[l] <= order[o].lines[l].qty
      /\ Receipt(o, qty, 1) /\ seen' = seen
  BY DEF ReceiveGoods
<1>3. PICK item, parts :
        /\ parts = [l \in DOMAIN qty |-> [item |-> item[l], line |-> l, qty |-> qty[l],
                                          value |-> ReceiptValue(o, l, qty[l])]]
        /\ Record("receipt", o, parts) /\ stock' = StockAfter(parts, 1)
  BY DEF ReceiveGoods
<1>4. /\ DOMAIN qty \subseteq Lines /\ IsFiniteSet(DOMAIN qty)
      /\ \A l \in DOMAIN qty : qty[l] \in Positive
  BY FormsAssumption, StockAssumption, FS_Subset
<1>5. /\ DOMAIN parts = DOMAIN qty
      /\ \A l \in DOMAIN qty : /\ parts[l].line = l /\ parts[l].qty = qty[l]
                               /\ parts[l].value = ReceiptValue(o, l, qty[l])
  BY <1>3
<1>6. ASSUME NEW l \in DOMAIN qty
      PROVE  /\ parts[l].value \in Nat
             /\ order[o].lines[l].taxed =>
                  /\ Of("receipt", o, l, "value") + parts[l].value <= Gross(order[o].lines[l])
                  /\ order[o].lines[l].received + qty[l] = order[o].lines[l].qty =>
                       Of("receipt", o, l, "value") + parts[l].value = Gross(order[o].lines[l])
  BY <1>2, <1>4, <1>5, ReceiptValueFits
<1>7. Booked("receipt", parts)
  BY <1>4, <1>5, <1>6 DEF Booked, Amounts, Positive, MoneyKinds
<1>8. Amounts(parts)
  BY <1>7 DEF Booked
<1>9. /\ AllBooked'
      /\ \A k, q, l : \A of \in Columns :
           Of(k, q, l, of)' = IF k = "receipt" /\ q = o THEN Of(k, q, l, of) + Share(parts, "line", l, of)
                              ELSE Of(k, q, l, of)
      /\ \A i : \A of \in Columns : Moved(i, of)' = Moved(i, of) + Share(parts, "item", i, of)
  BY <1>1, <1>3, <1>7, RecordPosts, RecordAddsUp DEF StockKinds
<1>10. StockBooks'
  <2>1. Takeable(StockAfter(parts, 1))
    BY <1>1, <1>4, <1>5, <1>6, <1>8, ArrivalTakeable DEF Positive
  <2>2. \A i \in Items : \A of \in Columns : Moved(i, of)' = Moved(i, of) + 1 * Share(parts, "item", i, of)
    BY <1>8, <1>9, ShareInteger
  <2>3. QED
    BY <1>1, <1>3, <1>8, <2>1, <2>2, StockMoves
<1>11. IssueLimit'
  BY <1>1, <1>9, IssuesStay
<1>12. \A l : \A of \in Columns : Share(parts, "line", l, of) = IF l \in DOMAIN qty THEN parts[l][of] ELSE 0
  BY <1>5, <1>8, ShareOfLine
<1> DEFINE by == [l \in DOMAIN order[o].lines |-> 1 * (IF l \in DOMAIN qty THEN qty[l] ELSE 0)]
           worth == [l \in DOMAIN order[o].lines |-> IF l \in DOMAIN qty THEN parts[l].value ELSE 0]
<1>13. \A l \in DOMAIN order[o].lines :
         /\ by[l] = 1 * (IF l \in DOMAIN qty THEN qty[l] ELSE 0)
         /\ by[l] = IF l \in DOMAIN qty THEN qty[l] ELSE 0
         /\ worth[l] = IF l \in DOMAIN qty THEN parts[l].value ELSE 0
  BY <1>4 DEF Positive
<1> HIDE DEF by, worth
<1>14. ASSUME NEW l \in DOMAIN order[o].lines
       PROVE  /\ by[l] \in Int /\ worth[l] \in Int
              /\ 0 <= order[o].lines[l].received + by[l]
              /\ order[o].lines[l].received + by[l] <= order[o].lines[l].qty
              /\ Of("receipt", o, l, "qty")' = Of("receipt", o, l, "qty") + by[l]
              /\ Of("receipt", o, l, "value")' = Of("receipt", o, l, "value") + worth[l]
              /\ \A kind \in MoneyKinds : Of(kind, o, l, "value")' = Of(kind, o, l, "value")
              /\ by[l] = 0 => worth[l] = 0
  <2>1. order[o].lines[l].received \in Nat /\ order[o].lines[l].received <= order[o].lines[l].qty
    BY <1>1, OrderFields
  <2>2. /\ Of("receipt", o, l, "qty")' = Of("receipt", o, l, "qty") + Share(parts, "line", l, "qty")
        /\ Of("receipt", o, l, "value")' = Of("receipt", o, l, "value") + Share(parts, "line", l, "value")
        /\ \A kind \in MoneyKinds : Of(kind, o, l, "value")' = Of(kind, o, l, "value")
    BY <1>9 DEF Columns, MoneyKinds
  <2>3. Share(parts, "line", l, "qty") = by[l] /\ Share(parts, "line", l, "value") = worth[l]
    BY <1>5, <1>12, <1>13 DEF Columns
  <2>4. QED
    BY <1>2, <1>4, <1>6, <1>13, <2>1, <2>2, <2>3 DEF Positive
<1>15. OrderBooks(o)'
  <2>1. ASSUME NEW l \in DOMAIN order[o].lines, by[l] # 0
        PROVE  l \in DOMAIN qty /\ by[l] = qty[l] /\ worth[l] = parts[l].value
    BY <1>13, <2>1
  <2>2. ASSUME NEW l \in DOMAIN order[o].lines, by[l] # 0, order[o].lines[l].taxed
        PROVE  /\ Of("receipt", o, l, "value") + worth[l] <= Gross(order[o].lines[l])
               /\ order[o].lines[l].received + by[l] = order[o].lines[l].qty =>
                    Of("receipt", o, l, "value") + worth[l] = Gross(order[o].lines[l])
    BY <1>6, <2>1, <2>2
  <2>3. \A l \in DOMAIN order[o].lines : by[l] = 1 * (IF l \in DOMAIN qty THEN qty[l] ELSE 0)
    BY <1>13
  <2>4. Moves(o, qty, 1, by, worth)
    BY <1>14, <2>2, <2>3 DEF Moves
  <2>5. QED
    BY <1>1, <1>2, <2>4, ReceiptBooks
<1>16. \A p \in Orders : OrderBooks(p)'
  <2>1. \A p \in Orders : p # o => order'[p] = order[p]
    BY <1>1, <1>2, ReceiptKeeps
  <2>2. QED
    BY <1>1, <1>9, <1>15, <2>1, OrderStays DEF Books
<1>17. QED
  BY <1>9, <1>10, <1>11, <1>16 DEF Books

-----------------------------------------------------------------------------
\* The orders, when only stock and facts change and no fact of an order.
LEMMA OrdersStay ==
  ASSUME Books, order' = order,
         \A o \in Orders : \A k \in {"receipt"} \cup MoneyKinds : \A l : \A of \in Columns :
           Of(k, o, l, of)' = Of(k, o, l, of)
  PROVE  \A o \in Orders : OrderBooks(o)'
BY OrderStays DEF Books

\* Receipts of any order amount to something natural.
LEMMA ReceiptsNatural ==
  ASSUME NEW fs, Countable(fs), \A f \in DOMAIN fs : Booked(fs[f].kind, fs[f].parts),
         NEW o, NEW l, NEW of \in Columns
  PROVE  Ledger(fs, {"receipt"}, {o}, "line", l, of) \in Nat
<1>1. ASSUME NEW f \in ForceIn(fs, {"receipt"}, {o})
      PROVE  Share(fs[f].parts, "line", l, of) \in Nat
  <2>1. f \in DOMAIN fs /\ fs[f].kind = "receipt"
    BY DEF ForceIn
  <2>2. Amounts(fs[f].parts) /\ \A p \in DOMAIN fs[f].parts : fs[f].parts[p].qty > 0 /\ fs[f].parts[p].value >= 0
    BY <2>1 DEF Booked
  <2>3. \A p \in DOMAIN fs[f].parts : fs[f].parts[p][of] >= 0
    BY <2>2 DEF Amounts, Columns
  <2>4. QED
    BY <2>2, <2>3, ShareNatural
<1>2. QED
  BY <1>1, LedgerNatural

\* The reversal of a receipt keeps the books.
LEMMA ReverseReceiptBooks ==
  ASSUME BInv, NEW f \in DOMAIN facts, ReverseReceipt(f)
  PROVE  Books'
<1>1. Shape /\ SeenIsPast /\ Books /\ AllBooked /\ StockBooks /\ IssueLimit
  BY DEF BInv, IInv, Books
<1>2. PICK o, parts : o = facts[f].order /\ parts = facts[f].parts
  OBVIOUS
<1> DEFINE qty == [l \in DOMAIN parts |-> parts[l].qty]
<1>3. /\ facts[f].active /\ facts[f].kind = "receipt" /\ Reversed(f) /\ seen' = seen
      /\ Takeable(StockAfter(parts, -1)) /\ stock' = StockAfter(parts, -1)
      /\ Receipt(o, qty, -1)
  BY <1>2 DEF ReverseReceipt, Active
<1>4. DOMAIN qty = DOMAIN parts /\ \A l \in DOMAIN parts : qty[l] = parts[l].qty
  OBVIOUS
<1> HIDE DEF qty
<1>5. Booked("receipt", parts) /\ Amounts(parts)
  BY <1>1, <1>2, <1>3 DEF AllBooked, Booked
<1>6. /\ AllBooked' /\ Countable(facts')
      /\ \A k, q, l : \A of \in Columns :
           Of(k, q, l, of)' = IF k = "receipt" /\ q = o THEN Of(k, q, l, of) - Share(parts, "line", l, of)
                              ELSE Of(k, q, l, of)
      /\ \A i : \A of \in Columns : Moved(i, of)' = Moved(i, of) - Share(parts, "item", i, of)
  BY <1>1, <1>2, <1>3, ReversalPosts, ReversalTakesBack DEF StockKinds
<1>7. StockBooks'
  <2>1. ASSUME NEW i \in Items, NEW of \in Columns
        PROVE  Moved(i, of)' = Moved(i, of) + (-1) * Share(parts, "item", i, of)
    <3>1. Moved(i, of) \in Int /\ Share(parts, "item", i, of) \in Int
      BY <1>1, <1>5, PostedIntegers, ShareInteger
    <3>2. QED
      BY <1>6, <3>1
  <2>2. QED
    BY <1>1, <1>3, <1>5, <2>1, StockMoves
<1>8. IssueLimit'
  BY <1>1, <1>6, IssuesStay
<1>9. \A l : \A of \in Columns : Share(parts, "line", l, of) = IF l \in DOMAIN parts THEN parts[l][of] ELSE 0
  BY <1>5, ShareOfLine DEF Booked
<1>10. \A l : Of("receipt", o, l, "qty")' \in Nat
  BY <1>6, ReceiptsNatural, PostedIsLedgerAfter DEF AllBooked, Of, Columns
<1>11. CASE o \in Orders
  <2> DEFINE by == [l \in DOMAIN order[o].lines |-> (-1) * (IF l \in DOMAIN qty THEN qty[l] ELSE 0)]
             worth == [l \in DOMAIN order[o].lines |-> IF l \in DOMAIN parts THEN - parts[l].value ELSE 0]
  <2>1. \A l \in DOMAIN order[o].lines :
          /\ by[l] = (-1) * (IF l \in DOMAIN qty THEN qty[l] ELSE 0)
          /\ worth[l] = IF l \in DOMAIN parts THEN - parts[l].value ELSE 0
    OBVIOUS
  <2> HIDE DEF by, worth
  <2>2. OrderBooks(o)
    BY <1>1, <1>11 DEF Books
  <2>3. ASSUME NEW l \in DOMAIN order[o].lines
        PROVE  /\ by[l] \in Int /\ worth[l] \in Int /\ by[l] <= 0 /\ worth[l] <= 0
               /\ by[l] = 0 => worth[l] = 0
               /\ by[l] = - Share(parts, "line", l, "qty") /\ worth[l] = - Share(parts, "line", l, "value")
    <3>1. Share(parts, "line", l, "qty") = (IF l \in DOMAIN parts THEN parts[l].qty ELSE 0)
          /\ Share(parts, "line", l, "value") = (IF l \in DOMAIN parts THEN parts[l].value ELSE 0)
      BY <1>9 DEF Columns
    <3>2. l \in DOMAIN parts => parts[l].qty \in Int /\ parts[l].value \in Int
                                /\ parts[l].qty > 0 /\ parts[l].value >= 0
      BY <1>5 DEF Booked, Amounts
    <3>3. CASE l \in DOMAIN parts
      BY <1>4, <2>1, <3>1, <3>2, <3>3
    <3>4. CASE l \notin DOMAIN parts
      BY <1>4, <2>1, <3>1, <3>4
    <3>5. QED
      BY <3>3, <3>4
  <2>4. Moves(o, qty, -1, by, worth)
    <3>1. ASSUME NEW l \in DOMAIN order[o].lines
          PROVE  /\ by[l] = (-1) * (IF l \in DOMAIN qty THEN qty[l] ELSE 0)
                 /\ by[l] \in Int /\ worth[l] \in Int
                 /\ 0 <= order[o].lines[l].received + by[l]
                 /\ order[o].lines[l].received + by[l] <= order[o].lines[l].qty
                 /\ Of("receipt", o, l, "qty")' = Of("receipt", o, l, "qty") + by[l]
                 /\ Of("receipt", o, l, "value")' = Of("receipt", o, l, "value") + worth[l]
                 /\ \A kind \in MoneyKinds : Of(kind, o, l, "value")' = Of(kind, o, l, "value")
                 /\ by[l] = 0 => worth[l] = 0
                 /\ by[l] # 0 /\ order[o].lines[l].taxed =>
                      /\ Of("receipt", o, l, "value") + worth[l] <= Gross(order[o].lines[l])
                      /\ order[o].lines[l].received + by[l] = order[o].lines[l].qty =>
                           Of("receipt", o, l, "value") + worth[l] = Gross(order[o].lines[l])
      <4>1. /\ order[o].lines[l].received \in Nat /\ order[o].lines[l].qty \in Int
            /\ order[o].lines[l].received <= order[o].lines[l].qty
            /\ Gross(order[o].lines[l]) \in Nat
        BY <2>2, OrderFields DEF Positive
      <4>2. Of("receipt", o, l, "value") \in Int /\ Of("receipt", o, l, "qty") \in Int
            /\ Share(parts, "line", l, "qty") \in Int /\ Share(parts, "line", l, "value") \in Int
        BY <1>1, <1>5, PostedIntegers, ShareInteger DEF Columns
      <4>3. /\ Of("receipt", o, l, "qty")' = Of("receipt", o, l, "qty") - Share(parts, "line", l, "qty")
            /\ Of("receipt", o, l, "value")' = Of("receipt", o, l, "value") - Share(parts, "line", l, "value")
            /\ \A kind \in MoneyKinds : Of(kind, o, l, "value")' = Of(kind, o, l, "value")
        BY <1>6 DEF Columns, MoneyKinds
      <4>4. /\ order[o].lines[l].received = Of("receipt", o, l, "qty")
            /\ order[o].lines[l].taxed => Of("receipt", o, l, "value") <= Gross(order[o].lines[l])
        BY <2>2 DEF OrderBooks
      <4>5. /\ Of("receipt", o, l, "qty")' = Of("receipt", o, l, "qty") + by[l]
            /\ Of("receipt", o, l, "value")' = Of("receipt", o, l, "value") + worth[l]
        BY <2>3, <4>2, <4>3
      <4>6. /\ 0 <= order[o].lines[l].received + by[l]
            /\ order[o].lines[l].received + by[l] <= order[o].lines[l].qty
            /\ by[l] # 0 => order[o].lines[l].received + by[l] # order[o].lines[l].qty
        BY <1>10, <2>3, <4>1, <4>4, <4>5
      <4>7. order[o].lines[l].taxed => Of("receipt", o, l, "value") + worth[l] <= Gross(order[o].lines[l])
        BY <2>3, <4>1, <4>2, <4>4
      <4>8. QED
        BY <2>1, <2>3, <4>3, <4>5, <4>6, <4>7
    <3>2. QED
      BY <3>1 DEF Moves
  <2>5. OrderBooks(o)'
    BY <1>1, <1>3, <1>11, <2>2, <2>4, ReceiptBooks
  <2>6. \A p \in Orders : p # o => order'[p] = order[p]
    BY <1>1, <1>3, <1>11, ReceiptKeeps
  <2>7. \A p \in Orders : OrderBooks(p)'
    BY <1>1, <1>6, <2>5, <2>6, OrderStays DEF Books
  <2>8. QED
    BY <1>6, <1>7, <1>8, <2>7 DEF Books
<1>12. CASE o \notin Orders
  <2>1. order' = order
    BY <1>1, <1>3, <1>12 DEF Receipt, Shape
  <2>2. \A p \in Orders : OrderBooks(p)'
    BY <1>1, <1>6, <1>12, <2>1, OrdersStay
  <2>3. QED
    BY <1>6, <1>7, <1>8, <2>2 DEF Books
<1>13. QED
  BY <1>11, <1>12

-----------------------------------------------------------------------------
\* The reversal of an issue brings its goods back with their value.
LEMMA ReverseIssueBooks ==
  ASSUME BInv, NEW f \in DOMAIN facts, ReverseIssue(f)
  PROVE  Books'
<1>1. Shape /\ Books /\ AllBooked /\ StockBooks /\ IssueLimit
  BY DEF BInv, IInv, Books
<1>2. PICK parts : parts = facts[f].parts
  OBVIOUS
<1>3. /\ facts[f].active /\ facts[f].kind = "issue" /\ Reversed(f)
      /\ stock' = StockAfter(parts, -1) /\ order' = order
  BY <1>2 DEF ReverseIssue, Active
<1>4. /\ Amounts(parts)
      /\ \A p \in DOMAIN parts : parts[p].qty < 0 /\ parts[p].value <= 0
  BY <1>1, <1>2, <1>3 DEF AllBooked, Booked
<1>5. /\ AllBooked'
      /\ \A k, q, l : \A of \in Columns :
           Of(k, q, l, of)' = IF k = "issue" /\ q = facts[f].order
                                THEN Of(k, q, l, of) - Share(parts, "line", l, of) ELSE Of(k, q, l, of)
      /\ \A i : \A of \in Columns : Moved(i, of)' = Moved(i, of) - Share(parts, "item", i, of)
  BY <1>1, <1>2, <1>3, ReversalPosts, ReversalTakesBack DEF StockKinds
<1>6. StockBooks'
  <2>1. ASSUME NEW i \in Items, NEW of \in Columns
        PROVE  Moved(i, of)' = Moved(i, of) + (-1) * Share(parts, "item", i, of)
    <3>1. Moved(i, of) \in Int /\ Share(parts, "item", i, of) \in Int
      BY <1>1, <1>4, PostedIntegers, ShareInteger
    <3>2. QED
      BY <1>5, <3>1
  <2>2. Takeable(StockAfter(parts, -1))
    BY <1>1, <1>4, ArrivalTakeable
  <2>3. QED
    BY <1>1, <1>3, <1>4, <2>1, <2>2, StockMoves
<1>7. IssueLimit'
  <2>1. ASSUME NEW l \in Lines
        PROVE  - Of("issue", Unordered, l, "qty")' <= Requirement[l]
    <3>1. - Share(parts, "line", l, "qty") \in Nat /\ Share(parts, "line", l, "qty") \in Int
      <4>1. \A p \in DOMAIN parts : parts[p]["qty"] <= 0
        BY <1>4 DEF Amounts
      <4>2. QED
        BY <1>4, <4>1, ShareOpposite, ShareInteger DEF Columns
    <3>2. Of("issue", Unordered, l, "qty") \in Int
      BY <1>1, PostedIntegers DEF Columns
    <3>3. - Of("issue", Unordered, l, "qty") <= Requirement[l] /\ Requirement[l] \in Nat
      BY <1>1, StockAssumption DEF IssueLimit
    <3>4. \/ Of("issue", Unordered, l, "qty")' = Of("issue", Unordered, l, "qty")
          \/ Of("issue", Unordered, l, "qty")' = Of("issue", Unordered, l, "qty") - Share(parts, "line", l, "qty")
      BY <1>5 DEF Columns
    <3>5. QED
      BY <3>1, <3>2, <3>3, <3>4
  <2>2. QED
    BY <2>1 DEF IssueLimit
<1>8. ASSUME NEW o \in Orders
      PROVE  OrderBooks(o)'
  <2>1. OrderBooks(o)
    BY <1>1 DEF Books
  <2>2. \A l : \A of \in Columns : /\ Of("receipt", o, l, of)' = Of("receipt", o, l, of)
                                   /\ \A k \in MoneyKinds : Of(k, o, l, of)' = Of(k, o, l, of)
    BY <1>5 DEF MoneyKinds
  <2>3. QED
    BY <1>3, <2>1, <2>2, OrderStays
<1>9. QED
  BY <1>5, <1>6, <1>7, <1>8 DEF Books

\* The reversal of an adjustment, where what it brought can be taken.
LEMMA ReverseAdjustmentBooks ==
  ASSUME BInv, NEW f \in DOMAIN facts, ReverseAdjustment(f)
  PROVE  Books'
<1>1. Shape /\ Books /\ AllBooked /\ StockBooks /\ IssueLimit
  BY DEF BInv, IInv, Books
<1>2. PICK parts : parts = facts[f].parts
  OBVIOUS
<1>3. /\ facts[f].active /\ facts[f].kind = "adjustment" /\ Reversed(f) /\ Takeable(StockAfter(parts, -1))
      /\ stock' = StockAfter(parts, -1) /\ order' = order
  BY <1>2 DEF ReverseAdjustment, Active
<1>4. Amounts(parts)
  BY <1>1, <1>2 DEF AllBooked, Booked
<1>5. /\ AllBooked'
      /\ \A k, q, l : \A of \in Columns : k # "adjustment" => Of(k, q, l, of)' = Of(k, q, l, of)
      /\ \A i : \A of \in Columns : Moved(i, of)' = Moved(i, of) - Share(parts, "item", i, of)
  BY <1>1, <1>2, <1>3, ReversalPosts, ReversalTakesBack DEF StockKinds
<1>6. StockBooks'
  <2>1. ASSUME NEW i \in Items, NEW of \in Columns
        PROVE  Moved(i, of)' = Moved(i, of) + (-1) * Share(parts, "item", i, of)
    <3>1. Moved(i, of) \in Int /\ Share(parts, "item", i, of) \in Int
      BY <1>1, <1>4, PostedIntegers, ShareInteger
    <3>2. QED
      BY <1>5, <3>1
  <2>2. QED
    BY <1>1, <1>3, <1>4, <2>1, StockMoves
<1>7. IssueLimit'
  BY <1>1, <1>5, IssuesStay
<1>8. \A o \in Orders : OrderBooks(o)'
  BY <1>1, <1>3, <1>5, OrdersStay DEF MoneyKinds
<1>9. QED
  BY <1>5, <1>6, <1>7, <1>8 DEF Books

\* The reversal of a payment or an invoice.
LEMMA ReverseAllocationBooks ==
  ASSUME BInv, NEW f \in DOMAIN facts, NEW kind \in MoneyKinds, ReverseAllocation(f, kind)
  PROVE  Books'
<1>1. Shape /\ Books /\ AllBooked /\ StockBooks /\ IssueLimit
  BY DEF BInv, IInv, Books
<1>2. PICK parts : parts = facts[f].parts
  OBVIOUS
<1>3. /\ facts[f].active /\ facts[f].kind = kind /\ Reversed(f) /\ stock' = stock /\ order' = order
  BY DEF ReverseAllocation, Active
<1>4. Amounts(parts) /\ \A p \in DOMAIN parts : parts[p].value >= 0
  BY <1>1, <1>2, <1>3 DEF AllBooked, Booked
<1>5. /\ AllBooked'
      /\ \A k, q, l : \A of \in Columns :
           Of(k, q, l, of)' = IF k = kind /\ q = facts[f].order
                                THEN Of(k, q, l, of) - Share(parts, "line", l, of) ELSE Of(k, q, l, of)
      /\ \A i : \A of \in Columns : Moved(i, of)' = Moved(i, of)
  BY <1>1, <1>2, <1>3, ReversalPosts, ReversalTakesBack DEF StockKinds, MoneyKinds
<1>6. StockBooks'
  BY <1>1, <1>3, <1>5, StockStays
<1>7. IssueLimit'
  BY <1>1, <1>5, IssuesStay DEF MoneyKinds
<1>8. ASSUME NEW o \in Orders
      PROVE  OrderBooks(o)'
  <2>1. OrderBooks(o)
    BY <1>1 DEF Books
  <2>2. \A k, l : /\ Of(k, o, l, "value")' <= Of(k, o, l, "value")
                  /\ Of(k, o, l, "value") \in Int /\ Of(k, o, l, "value")' \in Int
    <3>1. ASSUME NEW k, NEW l
          PROVE  /\ Of(k, o, l, "value")' <= Of(k, o, l, "value")
                 /\ Of(k, o, l, "value") \in Int /\ Of(k, o, l, "value")' \in Int
      <4>1. Of(k, o, l, "value") \in Int
        BY <1>1, PostedIntegers DEF Columns
      <4>2. Share(parts, "line", l, "value") \in Nat
        <5>1. \A p \in DOMAIN parts : parts[p]["value"] >= 0
          BY <1>4 DEF Amounts
        <5>2. QED
          BY <1>4, <5>1, ShareNatural DEF Columns
      <4>3. \/ Of(k, o, l, "value")' = Of(k, o, l, "value")
            \/ Of(k, o, l, "value")' = Of(k, o, l, "value") - Share(parts, "line", l, "value")
        BY <1>5 DEF Columns
      <4>4. QED
        BY <4>1, <4>2, <4>3
    <3>2. QED
      BY <3>1
  <2>3. \A l : /\ Of("receipt", o, l, "qty")' = Of("receipt", o, l, "qty")
               /\ Of("receipt", o, l, "value")' = Of("receipt", o, l, "value")
    BY <1>5 DEF MoneyKinds, Columns
  <2>4. ASSUME NEW l \in DOMAIN order[o].lines, NEW k \in MoneyKinds
        PROVE  Of(k, o, l, "value")' <= Gross(order[o].lines[l])
    <3>1. Gross(order[o].lines[l]) \in Nat
      BY <2>1, OrderFields
    <3>2. Of(k, o, l, "value") <= Gross(order[o].lines[l])
      BY <2>1 DEF OrderBooks
    <3>3. QED
      BY <2>2, <3>1, <3>2
  <2>5. QED
    BY <1>3, <2>1, <2>3, <2>4 DEF OrderBooks
<1>9. QED
  BY <1>5, <1>6, <1>7, <1>8 DEF Books

\* A payment or an invoice within the capacity of its lines.
LEMMA AllocateBooks ==
  ASSUME BInv, NEW o \in Orders, NEW kind \in MoneyKinds, NEW amount \in AllocationForms,
         Allocate(kind, o, amount)
  PROVE  Books'
<1>1. Shape /\ Books /\ AllBooked /\ StockBooks /\ IssueLimit
  BY DEF BInv, IInv, Books
<1>2. PICK parts : parts = [l \in DOMAIN amount |->
                              [item |-> NoItem, line |-> l, qty |-> 0, value |-> amount[l]]]
  OBVIOUS
<1>3. /\ DOMAIN amount \subseteq DOMAIN order[o].lines
      /\ \A l \in DOMAIN amount : Of(kind, o, l, "value") + amount[l] <= Gross(order[o].lines[l])
      /\ Record(kind, o, parts) /\ stock' = stock /\ order' = order
  BY <1>2 DEF Allocate, WithinCapacity
<1>4. /\ IsFiniteSet(DOMAIN amount)
      /\ \A l \in DOMAIN amount : amount[l] \in Nat
  BY FormsAssumption, StockAssumption, FS_Subset DEF Positive
<1>5. /\ DOMAIN parts = DOMAIN amount
      /\ \A l \in DOMAIN amount : parts[l].line = l /\ parts[l].qty = 0 /\ parts[l].value = amount[l]
  BY <1>2
<1>6. Booked(kind, parts) /\ Amounts(parts)
  BY <1>4, <1>5 DEF Booked, Amounts, MoneyKinds
<1>7. /\ AllBooked'
      /\ \A k, q, l : \A of \in Columns :
           Of(k, q, l, of)' = IF k = kind /\ q = o THEN Of(k, q, l, of) + Share(parts, "line", l, of)
                              ELSE Of(k, q, l, of)
      /\ \A i : \A of \in Columns : Moved(i, of)' = Moved(i, of)
  BY <1>1, <1>3, <1>6, RecordPosts, RecordAddsUp DEF StockKinds, MoneyKinds
<1>8. StockBooks'
  BY <1>1, <1>3, <1>7, StockStays
<1>9. IssueLimit'
  BY <1>1, <1>7, IssuesStay DEF MoneyKinds
<1>10. ASSUME NEW p \in Orders
       PROVE  OrderBooks(p)'
  <2>1. OrderBooks(p)
    BY <1>1 DEF Books
  <2>2. \A l : /\ Of("receipt", p, l, "qty")' = Of("receipt", p, l, "qty")
               /\ Of("receipt", p, l, "value")' = Of("receipt", p, l, "value")
    BY <1>7 DEF MoneyKinds, Columns
  <2>3. ASSUME NEW l \in DOMAIN order[p].lines, NEW k \in MoneyKinds
        PROVE  Of(k, p, l, "value")' <= Gross(order[p].lines[l])
    <3>1. Of(k, p, l, "value") <= Gross(order[p].lines[l])
      BY <2>1 DEF OrderBooks
    <3>2. Of(k, p, l, "value") \in Int
      BY <1>1, PostedIntegers DEF Columns
    <3>3. CASE k = kind /\ p = o /\ l \in DOMAIN amount
      <4>1. Share(parts, "line", l, "value") = amount[l]
        BY <1>5, <1>6, <3>3, ShareOfLine DEF Columns
      <4>2. Of(k, p, l, "value")' = Of(k, p, l, "value") + amount[l]
        BY <1>7, <3>3, <4>1 DEF Columns
      <4>3. QED
        BY <1>3, <3>3, <4>2
    <3>4. CASE k = kind /\ p = o /\ l \notin DOMAIN amount
      <4>1. Share(parts, "line", l, "value") = 0
        BY <1>5, <1>6, <3>4, ShareOfLine DEF Columns
      <4>2. Of(k, p, l, "value")' = Of(k, p, l, "value") + 0
        BY <1>7, <3>4, <4>1 DEF Columns
      <4>3. QED
        BY <3>1, <3>2, <4>2
    <3>5. CASE ~ (k = kind /\ p = o)
      <4>1. Of(k, p, l, "value")' = Of(k, p, l, "value")
        BY <1>7, <3>5 DEF Columns
      <4>2. QED
        BY <3>1, <4>1
    <3>6. QED
      BY <3>3, <3>4, <3>5
  <2>4. QED
    BY <1>3, <2>1, <2>2, <2>3 DEF OrderBooks
<1>11. QED
  BY <1>7, <1>8, <1>9, <1>10 DEF Books

\* An adjustment: what is found is valued, what is missing costs its share.
LEMMA AdjustBooks ==
  ASSUME BInv, NEW a \in AdjustmentForms, Adjust(a.item, a.qty, a.cost)
  PROVE  Books'
<1>1. Shape /\ Books /\ AllBooked /\ StockBooks /\ IssueLimit
  BY DEF BInv, IInv, Books
<1>2. PICK i, qty, cost : i = a.item /\ qty = a.qty /\ cost = a.cost
  OBVIOUS
<1>3. i \in Items /\ qty \in Int /\ qty # 0 /\ cost \in Nat
  BY <1>2, FormsAssumption
<1> DEFINE value == IF qty > 0 THEN LineValue(cost, qty) ELSE - CostOf(stock[i], - qty)
           e == [item |-> i, line |-> NoLine, qty |-> qty, value |-> value]
<1>4. /\ stock[i].qty + qty >= 0
      /\ stock' = [stock EXCEPT ![i] = [qty |-> stock[i].qty + qty, value |-> stock[i].value + value]]
      /\ Record("adjustment", Unordered, <<e>>) /\ order' = order
  BY <1>1, <1>2, <1>3 DEF Adjust, StockBooks
<1>5. stock[i] \in Holding /\ stock[i].qty \in Nat /\ stock[i].value \in Nat
      /\ (stock[i].qty = 0 => stock[i].value = 0)
  BY <1>1, <1>3 DEF StockBooks, BalanceIsLedger, Holding
<1>6. /\ value \in Int /\ stock[i].value + value >= 0
      /\ stock[i].qty + qty = 0 => stock[i].value + value = 0
  <2>1. CASE qty > 0
    <3>1. LineValue(cost, qty) \in Nat
      BY <1>3, <2>1, LineValueNatural
    <3>2. QED
      BY <1>3, <1>5, <2>1, <3>1
  <2>2. CASE ~ (qty > 0)
    <3>1. - qty \in Positive /\ - qty <= stock[i].qty
      BY <1>3, <1>4, <1>5, <2>2 DEF Positive
    <3>2. /\ CostOf(stock[i], - qty) \in Nat /\ CostOf(stock[i], - qty) <= stock[i].value
          /\ - qty = stock[i].qty => CostOf(stock[i], - qty) = stock[i].value
      BY <1>5, <3>1, CostWithin
    <3>3. stock[i].qty + qty = 0 => - qty = stock[i].qty
      BY <1>3, <1>5
    <3>4. QED
      BY <1>5, <2>2, <3>2, <3>3
  <2>3. QED
    BY <2>1, <2>2
<1> HIDE DEF value
<1>7. e.item = i /\ e.qty = qty /\ e.value = value /\ e.line = NoLine
  OBVIOUS
<1> HIDE DEF e
<1>8. /\ Amounts(<<e>>)
      /\ \A by, x : \A of \in Columns : Share(<<e>>, by, x, of) = IF e[by] = x THEN e[of] ELSE 0
  <2>1. e.qty \in Int /\ e.value \in Int
    BY <1>3, <1>6, <1>7
  <2>2. \A by, x : \A of \in Columns :
          Amounts(<<e>>) /\ Share(<<e>>, by, x, of) = IF e[by] = x THEN e[of] ELSE 0
    BY <2>1, ShareOfOne
  <2>3. "qty" \in Columns
    BY DEF Columns
  <2>4. QED
    BY <2>2, <2>3
<1>9. Booked("adjustment", <<e>>)
  BY <1>8 DEF Booked, MoneyKinds
<1>10. /\ AllBooked'
       /\ \A k, q, l : \A of \in Columns : k # "adjustment" => Of(k, q, l, of)' = Of(k, q, l, of)
       /\ \A j : \A of \in Columns : Moved(j, of)' = Moved(j, of) + Share(<<e>>, "item", j, of)
  BY <1>1, <1>4, <1>9, RecordPosts, RecordAddsUp DEF StockKinds
<1>11. StockBooks'
  <2>1. ASSUME NEW j \in Items, NEW of \in Columns
        PROVE  Moved(j, of)' = Moved(j, of) + 1 * Share(<<e>>, "item", j, of)
    <3>1. Moved(j, of) \in Int /\ Share(<<e>>, "item", j, of) \in Int
      BY <1>1, <1>8, PostedIntegers, ShareInteger
    <3>2. QED
      BY <1>10, <3>1
  <2>2. stock' = StockAfter(<<e>>, 1)
    <3>1. ASSUME NEW j \in Items
          PROVE  stock'[j] = [qty |-> stock[j].qty + 1 * Share(<<e>>, "item", j, "qty"),
                              value |-> stock[j].value + 1 * Share(<<e>>, "item", j, "value")]
      <4>1. stock[j] = [qty |-> stock[j].qty, value |-> stock[j].value]
            /\ stock[j].qty \in Nat /\ stock[j].value \in Nat
        BY <1>1 DEF StockBooks, Holding
      <4>2. CASE j = i
        <5>1. Share(<<e>>, "item", j, "qty") = qty /\ Share(<<e>>, "item", j, "value") = value
          BY <1>7, <1>8, <4>2 DEF Columns
        <5>2. QED
          BY <1>1, <1>3, <1>4, <1>6, <4>1, <4>2, <5>1 DEF StockBooks
      <4>3. CASE j # i
        <5>1. Share(<<e>>, "item", j, "qty") = 0 /\ Share(<<e>>, "item", j, "value") = 0
          BY <1>7, <1>8, <4>3 DEF Columns
        <5>2. QED
          BY <1>1, <1>4, <4>1, <4>3, <5>1 DEF StockBooks
      <4>4. QED
        BY <4>2, <4>3
    <3>2. stock' = [j \in Items |-> stock'[j]]
      BY <1>1, <1>4 DEF StockBooks
    <3>3. QED
      BY <3>1, <3>2 DEF StockAfter
  <2>3. Takeable(stock')
    <3>1. ASSUME NEW j \in Items
          PROVE  /\ stock'[j].qty >= 0 /\ stock'[j].value >= 0
                 /\ stock'[j].qty = 0 => stock'[j].value = 0
      <4>1. CASE j = i
        BY <1>1, <1>3, <1>4, <1>6, <4>1 DEF StockBooks
      <4>2. CASE j # i
        BY <1>1, <1>4, <4>2 DEF StockBooks, BalanceIsLedger, Holding
      <4>3. QED
        BY <4>1, <4>2
    <3>2. QED
      BY <3>1 DEF Takeable
  <2>4. QED
    BY <1>1, <1>8, <2>1, <2>2, <2>3, StockMoves
<1>12. IssueLimit'
  BY <1>1, <1>10, IssuesStay
<1>13. \A o \in Orders : OrderBooks(o)'
  <2>1. ASSUME NEW o \in Orders
        PROVE  OrderBooks(o)'
    <3>1. \A k \in {"receipt"} \cup MoneyKinds : \A l : \A of \in Columns : Of(k, o, l, of)' = Of(k, o, l, of)
      BY <1>10 DEF MoneyKinds
    <3>2. QED
      BY <1>1, <1>4, <3>1, OrderStays DEF Books
  <2>2. QED
    BY <2>1
<1>14. QED
  BY <1>10, <1>11, <1>12, <1>13 DEF Books

-----------------------------------------------------------------------------
Wants == [item : Items, line : Lines \cup {NoLine}, qty : Positive]

\* What holds between two lines of an issue, unless one was refused: the stock is
\* that of before and what the posted lines took, and no line takes too much.
SoFar(so) ==
  /\ so \in [ok : BOOLEAN, stock : {so.stock}, parts : {so.parts}]
  /\ so.ok =>
       /\ so.stock \in [Items -> Holding] /\ (\E S : so.parts \in Seq(S)) /\ Booked("issue", so.parts)
       /\ \A i \in Items :
            /\ so.stock[i].qty = stock[i].qty + Share(so.parts, "item", i, "qty")
            /\ so.stock[i].value = stock[i].value + Share(so.parts, "item", i, "value")
            /\ so.stock[i].qty = 0 => so.stock[i].value = 0
       /\ \A l \in Lines : Used(l, so.parts) <= Requirement[l]

\* One more line, posted on the stock that the last one left.
LEMMA PostLineKeeps ==
  ASSUME BInv, NEW so, SoFar(so), NEW want \in Wants
  PROVE  SoFar(PostLine(so, want))
<1>1. Shape /\ AllBooked
  BY DEF BInv, IInv, Books
<1> DEFINE have == so.stock[want.item]
           cost == CostOf(have, want.qty)
           e == [item |-> want.item, line |-> want.line, qty |-> - want.qty, value |-> - cost]
           left == [qty |-> have.qty - want.qty, value |-> have.value - cost]
           fits == /\ so.ok /\ want.qty <= have.qty
                   /\ want.line # NoLine =>
                        /\ link[want.line] = want.item
                        /\ Used(want.line, so.parts) + want.qty <= Requirement[want.line]
<1>2. PostLine(so, want) =
        IF ~ fits THEN [so EXCEPT !.ok = FALSE]
        ELSE [ok |-> TRUE, stock |-> [so.stock EXCEPT ![want.item] = left], parts |-> Append(so.parts, e)]
  BY DEF PostLine
<1>3. want.item \in Items /\ want.qty \in Positive /\ want.qty \in Nat /\ want.qty > 0
      /\ want.line \in Lines \cup {NoLine}
  BY DEF Wants, Positive
<1>4. CASE ~ fits
  <2>1. PostLine(so, want) = [so EXCEPT !.ok = FALSE]
    BY <1>2, <1>4
  <2>2. QED
    BY <2>1 DEF SoFar
<1>5. CASE fits
  <2>1. /\ so.ok /\ want.qty <= have.qty
        /\ want.line # NoLine => Used(want.line, so.parts) + want.qty <= Requirement[want.line]
    BY <1>5
  <2>2. /\ so.stock \in [Items -> Holding] /\ Booked("issue", so.parts)
        /\ \A i \in Items :
             /\ so.stock[i].qty = stock[i].qty + Share(so.parts, "item", i, "qty")
             /\ so.stock[i].value = stock[i].value + Share(so.parts, "item", i, "value")
             /\ so.stock[i].qty = 0 => so.stock[i].value = 0
        /\ \A l \in Lines : Used(l, so.parts) <= Requirement[l]
    BY <2>1 DEF SoFar
  <2>3. PICK S : so.parts \in Seq(S)
    BY <2>1 DEF SoFar
  <2>4. have \in Holding /\ have.qty \in Nat /\ have.value \in Nat
    BY <1>3, <2>2 DEF Holding
  <2>5. /\ cost \in Nat /\ cost <= have.value
        /\ want.qty = have.qty => cost = have.value
    BY <1>3, <2>1, <2>4, CostWithin
  <2> DEFINE st == [so.stock EXCEPT ![want.item] = left]
             ps == Append(so.parts, e)
  <2>6. PostLine(so, want) = [ok |-> TRUE, stock |-> st, parts |-> ps]
    BY <1>2, <1>5
  <2> HIDE DEF cost, fits
  <2>7. /\ e.item = want.item /\ e.line = want.line /\ e.qty = - want.qty /\ e.value = - cost
        /\ e.qty \in Int /\ e.value \in Int /\ e.qty < 0 /\ e.value <= 0
    BY <1>3, <2>5
  <2>8. left.qty = have.qty - want.qty /\ left.value = have.value - cost /\ left \in Holding
        /\ (left.qty = 0 => left.value = 0)
    BY <1>3, <2>1, <2>4, <2>5 DEF Holding
  <2> HIDE DEF left, e
  <2>9. Amounts(so.parts) /\ \A p \in DOMAIN so.parts : so.parts[p].qty < 0 /\ so.parts[p].value <= 0
    BY <2>2 DEF Booked
  <2>10. /\ DOMAIN ps = DOMAIN so.parts \cup {Len(so.parts) + 1}
         /\ \A p \in DOMAIN so.parts : ps[p] = so.parts[p]
         /\ ps[Len(so.parts) + 1] = e
         /\ ps \in Seq(S \cup {e})
    BY <2>3, Appended
  <2>11. /\ Amounts(ps)
         /\ \A by, x : \A of \in Columns :
              Share(ps, by, x, of) = Share(so.parts, by, x, of) + IF e[by] = x THEN e[of] ELSE 0
    BY <2>3, <2>7, <2>9, ShareOfNext
  <2> HIDE DEF ps
  <2>12. Booked("issue", ps)
    BY <2>7, <2>9, <2>10, <2>11 DEF Booked, MoneyKinds
  <2>13. /\ st \in [Items -> Holding] /\ st[want.item] = left
         /\ \A i \in Items : i # want.item => st[i] = so.stock[i]
    BY <1>3, <2>2, <2>8
  <2> HIDE DEF st
  <2>14. ASSUME NEW i \in Items
         PROVE  /\ st[i].qty = stock[i].qty + Share(ps, "item", i, "qty")
                /\ st[i].value = stock[i].value + Share(ps, "item", i, "value")
                /\ st[i].qty = 0 => st[i].value = 0
    <3>1. /\ Share(so.parts, "item", i, "qty") \in Int /\ Share(so.parts, "item", i, "value") \in Int
      BY <2>9, ShareInteger DEF Columns
    <3>2. stock[i].qty \in Nat /\ stock[i].value \in Nat
      BY DEF BInv, Books, StockBooks, Holding
    <3>3. CASE i = want.item
      <4>1. /\ Share(ps, "item", i, "qty") = Share(so.parts, "item", i, "qty") - want.qty
            /\ Share(ps, "item", i, "value") = Share(so.parts, "item", i, "value") - cost
        <5>1. e["item"] = i /\ e["qty"] = - want.qty /\ e["value"] = - cost
          BY <2>7, <3>3
        <5>2. /\ Share(ps, "item", i, "qty") = Share(so.parts, "item", i, "qty") + (- want.qty)
              /\ Share(ps, "item", i, "value") = Share(so.parts, "item", i, "value") + (- cost)
          BY <2>11, <5>1 DEF Columns
        <5>3. QED
          BY <1>3, <2>5, <3>1, <5>2
      <4>2. QED
        BY <1>3, <2>2, <2>4, <2>5, <2>8, <2>13, <3>1, <3>2, <3>3, <4>1
    <3>4. CASE i # want.item
      <4>1. /\ Share(ps, "item", i, "qty") = Share(so.parts, "item", i, "qty")
            /\ Share(ps, "item", i, "value") = Share(so.parts, "item", i, "value")
        BY <2>7, <2>11, <3>1, <3>4 DEF Columns
      <4>2. QED
        BY <2>2, <2>13, <3>4, <4>1
    <3>5. QED
      BY <3>3, <3>4
  <2>15. ASSUME NEW l \in Lines
         PROVE  Used(l, ps) <= Requirement[l]
    <3>1. Share(so.parts, "line", l, "qty") \in Int /\ Of("issue", Unordered, l, "qty") \in Int
      BY <1>1, <2>9, ShareInteger, PostedIntegers DEF Columns
    <3>2. Used(l, so.parts) <= Requirement[l] /\ Requirement[l] \in Nat
      BY <2>2, StockAssumption
    <3>3. CASE l = want.line
      <4>1. Share(ps, "line", l, "qty") = Share(so.parts, "line", l, "qty") + (- want.qty)
        <5>1. e["line"] = l /\ e["qty"] = - want.qty
          BY <2>7, <3>3
        <5>2. QED
          BY <2>11, <5>1 DEF Columns
      <4>2. Used(l, so.parts) + want.qty <= Requirement[l]
        BY <2>1, <3>3, NothingAssumption
      <4>3. QED
        BY <1>3, <3>1, <3>2, <4>1, <4>2 DEF Used
    <3>4. CASE l # want.line
      <4>1. Share(ps, "line", l, "qty") = Share(so.parts, "line", l, "qty")
        BY <2>7, <2>11, <3>1, <3>4 DEF Columns
      <4>2. QED
        BY <3>2, <4>1 DEF Used
    <3>5. QED
      BY <3>3, <3>4
  <2>16. QED
    BY <2>6, <2>10, <2>12, <2>13, <2>14, <2>15 DEF SoFar
<1>6. QED
  BY <1>4, <1>5

\* The lines of an issue, one after another.
Start == [ok |-> TRUE, stock |-> stock, parts |-> <<>>]
Lining(wanted, posted) ==
  [n \in 0..Len(wanted) |-> IF n = 0 THEN Start ELSE PostLine(posted[n - 1], wanted[n])]
Posting(wanted) == CHOOSE posted : posted = Lining(wanted, posted)

\* The lines of an issue can be posted one after another.
LEMMA PostingSolves ==
  ASSUME NEW wanted \in Seq(Wants)
  PROVE  Posting(wanted) = Lining(wanted, Posting(wanted))
<1> DEFINE Solves(g, n) == g = [m \in 0..n |-> IF m = 0 THEN Start ELSE PostLine(g[m - 1], wanted[m])]
           Sizes == {n \in Nat : \E g : Solves(g, n)}
<1>1. 0 \in Sizes
  <2> DEFINE g == [m \in 0..0 |-> Start]
  <2>1. g = [m \in 0..0 |-> IF m = 0 THEN Start ELSE PostLine(g[m - 1], wanted[m])]
    OBVIOUS
  <2>2. QED
    BY <2>1
<1>2. ASSUME NEW n \in Nat, n \in Sizes
      PROVE  n + 1 \in Sizes
  <2>1. PICK g : g = [m \in 0..n |-> IF m = 0 THEN Start ELSE PostLine(g[m - 1], wanted[m])]
    BY <1>2
  <2> DEFINE last == PostLine(g[n], wanted[n + 1])
             h == [m \in 0..(n + 1) |-> IF m = n + 1 THEN last ELSE g[m]]
  <2>2. DOMAIN h = 0..(n + 1) /\ h[n + 1] = last /\ \A m \in 0..n : h[m] = g[m]
    OBVIOUS
  <2> HIDE DEF h
  <2>3. ASSUME NEW m \in 0..(n + 1)
        PROVE  h[m] = IF m = 0 THEN Start ELSE PostLine(h[m - 1], wanted[m])
    <3>1. CASE m = n + 1
      BY <2>2, <3>1
    <3>2. CASE m \in 0..n
      <4>1. h[m] = g[m] /\ (m # 0 => h[m - 1] = g[m - 1])
        BY <2>2, <3>2
      <4>2. QED
        BY <2>1, <3>2, <4>1
    <3>3. QED
      BY <3>1, <3>2
  <2>4. h = [m \in 0..(n + 1) |-> IF m = 0 THEN Start ELSE PostLine(h[m - 1], wanted[m])]
    <3>1. h = [m \in 0..(n + 1) |-> h[m]]
      BY DEF h
    <3>2. QED
      BY <2>3, <3>1
  <2>5. Solves(h, n + 1)
    BY <2>4
  <2>6. QED
    <3> HIDE DEF Solves
    <3>1. n + 1 \in Nat /\ \E k : Solves(k, n + 1)
      BY <2>5
    <3>2. QED
      BY <3>1
<1>3. Nat \subseteq Sizes
  <2> HIDE DEF Sizes
  <2>1. QED
    BY <1>1, <1>2, NumberInduction
<1>4. \E g : g = Lining(wanted, g)
  BY <1>3 DEF Lining
<1>5. QED
  BY <1>4 DEF Posting

\* What all lines of an issue post.
LEMMA PostingKeeps ==
  ASSUME BInv, NEW wanted \in Seq(Wants)
  PROVE  SoFar(Posting(wanted)[Len(wanted)])
<1> DEFINE posted == Posting(wanted)
           A == {n \in Nat : n <= Len(wanted) => SoFar(posted[n])}
<1>1. Len(wanted) \in Nat /\ posted = Lining(wanted, posted)
  BY PostingSolves
<1> HIDE DEF posted
<1>2. ASSUME NEW n \in 0..Len(wanted)
      PROVE  posted[n] = IF n = 0 THEN Start ELSE PostLine(posted[n - 1], wanted[n])
  <2>1. Lining(wanted, posted)[n] = IF n = 0 THEN Start ELSE PostLine(posted[n - 1], wanted[n])
    BY DEF Lining
  <2>2. QED
    BY <1>1, <2>1
<1>3. 0 \in A
  <2>1. SoFar(Start)
    <3>1. Start \in [ok : BOOLEAN, stock : {Start.stock}, parts : {Start.parts}]
          /\ Start.stock = stock /\ Start.parts = <<>>
      BY DEF Start
    <3>2. <<>> \in Seq({}) /\ DOMAIN <<>> = {} /\ Amounts(<<>>)
      <4>1. <<>> \in Seq({}) /\ DOMAIN <<>> = {}
        OBVIOUS
      <4>2. QED
        BY <4>1, FS_EmptySet DEF Amounts
    <3>3. Booked("issue", <<>>)
      BY <3>2 DEF Booked
    <3>4. \A by, x : \A of \in Columns : Share(<<>>, by, x, of) = 0
      BY <3>2, ShareOfNone
    <3>5. StockBooks /\ IssueLimit /\ Shape /\ AllBooked
      BY DEF BInv, IInv, Books
    <3>6. ASSUME NEW i \in Items
          PROVE  /\ stock[i].qty = stock[i].qty + Share(<<>>, "item", i, "qty")
                 /\ stock[i].value = stock[i].value + Share(<<>>, "item", i, "value")
                 /\ stock[i].qty = 0 => stock[i].value = 0
      <4>1. stock[i].qty \in Nat /\ stock[i].value \in Nat /\ (stock[i].qty = 0 => stock[i].value = 0)
        BY <3>5 DEF StockBooks, BalanceIsLedger, Holding
      <4>2. Share(<<>>, "item", i, "qty") = 0 /\ Share(<<>>, "item", i, "value") = 0
        BY <3>4 DEF Columns
      <4>3. QED
        BY <4>1, <4>2
    <3>7. ASSUME NEW l \in Lines
          PROVE  Used(l, <<>>) <= Requirement[l]
      <4>1. Share(<<>>, "line", l, "qty") = 0
        BY <3>4 DEF Columns
      <4>2. Of("issue", Unordered, l, "qty") \in Int
        BY <3>5, PostedIntegers DEF Columns
      <4>3. QED
        BY <3>5, <4>1, <4>2 DEF Used, IssueLimit
    <3>8. stock \in [Items -> Holding]
      BY <3>5 DEF StockBooks
    <3>9. QED
      BY <3>1, <3>2, <3>3, <3>6, <3>7, <3>8 DEF SoFar
  <2>2. QED
    BY <1>1, <1>2, <2>1
<1>4. ASSUME NEW n \in Nat, n \in A
      PROVE  n + 1 \in A
  <2>1. CASE n + 1 <= Len(wanted)
    <3>1. SoFar(posted[n])
      BY <1>1, <1>4, <2>1
    <3>2. wanted[n + 1] \in Wants /\ n + 1 \in 0..Len(wanted) /\ n + 1 # 0 /\ (n + 1) - 1 = n
      BY <1>1, <2>1
    <3>3. posted[n + 1] = PostLine(posted[n], wanted[n + 1])
      BY <1>2, <3>2
    <3>4. SoFar(posted[n + 1])
      BY <3>1, <3>2, <3>3, PostLineKeeps
    <3>5. QED
      BY <3>4
  <2>2. CASE ~ (n + 1 <= Len(wanted))
    BY <2>2
  <2>3. QED
    BY <2>1, <2>2
<1>5. Nat \subseteq A
  <2> HIDE DEF A
  <2>1. QED
    BY <1>3, <1>4, NumberInduction
<1>6. QED
  BY <1>1, <1>5 DEF posted

\* An issue takes goods with their share of the value, and of a line no more than it requires.
LEMMA IssueBooks ==
  ASSUME BInv, NEW wanted \in IssueForms, IssueGoods(wanted)
  PROVE  Books'
<1>1. Shape /\ Books /\ AllBooked /\ StockBooks /\ IssueLimit
  BY DEF BInv, IInv, Books
<1>2. wanted \in Seq(Wants)
  BY FormsAssumption DEF Wants
<1>3. PICK all : all = Posting(wanted)[Len(wanted)]
  OBVIOUS
<1>4. all.ok /\ stock' = all.stock /\ Record("issue", Unordered, all.parts) /\ order' = order
  BY <1>3 DEF IssueGoods, Posting, Lining, Start
<1>5. SoFar(all)
  BY <1>2, <1>3, PostingKeeps
<1>6. PICK parts : parts = all.parts
  OBVIOUS
<1>7. /\ stock' \in [Items -> Holding] /\ Booked("issue", parts)
      /\ \A i \in Items :
           /\ stock'[i].qty = stock[i].qty + Share(parts, "item", i, "qty")
           /\ stock'[i].value = stock[i].value + Share(parts, "item", i, "value")
           /\ stock'[i].qty = 0 => stock'[i].value = 0
      /\ \A l \in Lines : Used(l, parts) <= Requirement[l]
  BY <1>4, <1>5, <1>6 DEF SoFar
<1>8. Amounts(parts)
  BY <1>7 DEF Booked
<1>9. /\ AllBooked'
      /\ \A k, q, l : \A of \in Columns :
           Of(k, q, l, of)' = IF k = "issue" /\ q = Unordered THEN Of(k, q, l, of) + Share(parts, "line", l, of)
                              ELSE Of(k, q, l, of)
      /\ \A i : \A of \in Columns : Moved(i, of)' = Moved(i, of) + Share(parts, "item", i, of)
  BY <1>1, <1>4, <1>6, <1>7, RecordPosts, RecordAddsUp DEF StockKinds
<1>10. StockBooks'
  <2>1. ASSUME NEW i \in Items, NEW of \in Columns
        PROVE  Moved(i, of)' = Moved(i, of) + 1 * Share(parts, "item", i, of)
    <3>1. Moved(i, of) \in Int /\ Share(parts, "item", i, of) \in Int
      BY <1>1, <1>8, PostedIntegers, ShareInteger
    <3>2. QED
      BY <1>9, <3>1
  <2>2. stock' = StockAfter(parts, 1)
    <3>1. ASSUME NEW i \in Items
          PROVE  stock'[i] = [qty |-> stock[i].qty + 1 * Share(parts, "item", i, "qty"),
                              value |-> stock[i].value + 1 * Share(parts, "item", i, "value")]
      <4>1. stock'[i] = [qty |-> stock'[i].qty, value |-> stock'[i].value]
        BY <1>7 DEF Holding
      <4>2. Share(parts, "item", i, "qty") \in Int /\ Share(parts, "item", i, "value") \in Int
        BY <1>8, ShareInteger DEF Columns
      <4>3. 1 * Share(parts, "item", i, "qty") = Share(parts, "item", i, "qty")
            /\ 1 * Share(parts, "item", i, "value") = Share(parts, "item", i, "value")
        BY <4>2
      <4>4. QED
        BY <1>7, <4>1, <4>3
    <3>2. stock' = [i \in Items |-> stock'[i]]
      BY <1>7
    <3>3. QED
      BY <3>1, <3>2 DEF StockAfter
  <2>3. Takeable(stock')
    BY <1>7 DEF Takeable, Holding
  <2>4. QED
    BY <1>1, <1>8, <2>1, <2>2, <2>3, StockMoves
<1>11. IssueLimit'
  <2>1. ASSUME NEW l \in Lines
        PROVE  - Of("issue", Unordered, l, "qty")' <= Requirement[l]
    <3>1. Of("issue", Unordered, l, "qty")' = Of("issue", Unordered, l, "qty") + Share(parts, "line", l, "qty")
      BY <1>9 DEF Columns
    <3>2. Of("issue", Unordered, l, "qty") \in Int /\ Share(parts, "line", l, "qty") \in Int
      BY <1>1, <1>8, PostedIntegers, ShareInteger DEF Columns
    <3>3. - Share(parts, "line", l, "qty") - Of("issue", Unordered, l, "qty") <= Requirement[l]
      BY <1>7 DEF Used
    <3>4. Requirement[l] \in Nat
      BY StockAssumption
    <3>5. QED
      BY <3>1, <3>2, <3>3, <3>4
  <2>2. QED
    BY <2>1 DEF IssueLimit
<1>12. \A o \in Orders : OrderBooks(o)'
  BY <1>1, <1>4, <1>9, OrdersStay DEF MoneyKinds
<1>13. QED
  BY <1>9, <1>10, <1>11, <1>12 DEF Books

-----------------------------------------------------------------------------
\* An empty ledger: nothing is ordered, and the stock is what it opened with.
LEMMA InitBooks == Init => Books
<1> SUFFICES ASSUME Init PROVE Books
  OBVIOUS
<1>1. Shape
  BY InitIInv DEF IInv
<1>2. DOMAIN facts = {} /\ stock = Opening
      /\ \A o \in Orders : order[o].status = "none" /\ DOMAIN order[o].lines = {}
  BY DEF Init, NoOrder
<1>3. AllBooked
  BY <1>2 DEF AllBooked
<1>4. ASSUME NEW kinds, NEW orders, NEW by, NEW x, NEW of \in Columns
      PROVE  Posted(kinds, orders, by, x, of) = 0
  <2>1. ForceIn(facts, kinds, orders) = {}
    BY <1>2 DEF ForceIn
  <2>2. QED
    BY <1>1, <1>3, <2>1, FactsCountable, LedgerEmpty, PostedIsLedger
<1>5. StockBooks
  <2>1. ASSUME NEW i \in Items
        PROVE  /\ stock[i] = [qty |-> Opening[i].qty + Moved(i, "qty"),
                              value |-> Opening[i].value + Moved(i, "value")]
               /\ stock[i].qty = 0 => stock[i].value = 0
    <3>1. Moved(i, "qty") = 0 /\ Moved(i, "value") = 0
      BY <1>4 DEF Moved, Columns
    <3>2. Opening[i] \in Holding /\ (Opening[i].qty = 0 => Opening[i].value = 0)
      BY StockAssumption
    <3>3. QED
      BY <1>2, <3>1, <3>2 DEF Holding
  <2>2. stock \in [Items -> Holding]
    BY <1>2, StockAssumption
  <2>3. QED
    BY <2>1, <2>2 DEF StockBooks, BalanceIsLedger, Moved
<1>6. \A o \in Orders : OrderBooks(o)
  BY <1>2 DEF OrderBooks, IsLines, Progress, Received
<1>7. IssueLimit
  <2>1. \A l : Of("issue", Unordered, l, "qty") = 0
    BY <1>4 DEF Of, Columns
  <2>2. QED
    BY <2>1, StockAssumption DEF IssueLimit
<1>8. QED
  BY <1>3, <1>5, <1>6, <1>7 DEF Books

\* Every action keeps the books.
LEMMA NextBooks == BInv /\ [Next]_vars => Books'
<1> SUFFICES ASSUME BInv, [Next]_vars PROVE Books'
  OBVIOUS
<1>1. IInv /\ Shape /\ CancelledIsBare /\ Books
  BY DEF BInv, IInv
<1>2. ASSUME NEW o \in Orders, NEW lines \in OrderForms, CreateOrder(o, lines)
      PROVE  Books'
  <2>1. /\ order[o].status \in {"none", "draft"} /\ stock' = stock /\ facts' = facts
        /\ order'[o].lines = lines /\ order'[o].status = "draft"
        /\ \A p \in Orders : p # o => order'[p] = order[p]
    BY <1>1, <1>2 DEF CreateOrder, Draft, Shape
  <2>2. QED
    BY <2>1, DraftBooks
<1>3. ASSUME NEW o \in Orders, NEW lines \in OrderForms, UpdateOrder(o, lines)
      PROVE  Books'
  <2>1. /\ order[o].status \in {"none", "draft"} /\ stock' = stock /\ facts' = facts
        /\ order'[o].lines = lines /\ order'[o].status = "draft"
        /\ \A p \in Orders : p # o => order'[p] = order[p]
    BY <1>1, <1>3 DEF UpdateOrder, Draft, Shape
  <2>2. QED
    BY <2>1, DraftBooks
<1>4. ASSUME NEW o \in Orders, Look(o)
      PROVE  Books'
  BY <1>1, <1>4, StatusBooks DEF Look
<1>5. ASSUME NEW o \in Orders, NEW status \in {"confirmed", "cancelled"},
             order[o].status \in {"draft", "confirmed"}, stock' = stock, facts' = facts,
             order' = [order EXCEPT ![o].status = status, ![o].revision = @ + 1]
      PROVE  Books'
  <2>1. /\ order'[o].lines = order[o].lines /\ order'[o].status = status
        /\ \A p \in Orders : p # o => order'[p] = order[p]
    BY <1>1, <1>5 DEF Shape, IsOrder
  <2>2. order'[o].status \notin Received /\ order[o].status \notin Received
    BY <1>5, <2>1 DEF Received
  <2>3. QED
    BY <1>1, <1>5, <2>1, <2>2, StatusBooks
<1>6. ASSUME NEW o \in Orders, ConfirmOrder(o)
      PROVE  Books'
  BY <1>5, <1>6 DEF ConfirmOrder
<1>7. ASSUME NEW o \in Orders, CancelOrder(o)
      PROVE  Books'
  BY <1>5, <1>7 DEF CancelOrder
<1>8. ASSUME NEW o \in Orders, Ordered(o)
      PROVE  Books'
  BY <1>2, <1>3, <1>4, <1>6, <1>7, <1>8, ReceiveBooks, AllocateBooks DEF Ordered
<1>9. ASSUME NEW f \in DOMAIN facts,
             \/ ReverseReceipt(f) \/ ReverseIssue(f) \/ ReverseAdjustment(f)
             \/ \E kind \in MoneyKinds : ReverseAllocation(f, kind)
      PROVE  Books'
  BY <1>9, ReverseReceiptBooks, ReverseIssueBooks, ReverseAdjustmentBooks, ReverseAllocationBooks
<1>10. CASE UNCHANGED vars
  BY <1>1, <1>10, StatusBooks DEF vars
<1>11. QED
  BY <1>8, <1>9, <1>10, IssueBooks, AdjustBooks DEF Next

\* The two layers together are inductive
LEMMA NextBInv == BInv /\ [Next]_vars => BInv'
BY NextIInv, NextBooks DEF BInv

\* and hold at first.
LEMMA InitBInv == Init => BInv
BY InitIInv, InitBooks DEF BInv

\* Whatever was received, issued, adjusted and reversed in between, an item holds
\* its opening stock and what the facts in force brought and took.
THEOREM StockIsItsLedger == Spec => []BalanceIsLedger
<1>1. BInv => BalanceIsLedger
  BY DEF BInv, Books, StockBooks
<1>2. QED
  BY <1>1, InitBInv, NextBInv, PTL DEF Spec

\* An order's lines and its status say what its receipts in force brought.
THEOREM OrdersTellReceipts == Spec => []ReceivedIsReceipts
<1>1. BInv => ReceivedIsReceipts
  <2> SUFFICES ASSUME BInv, NEW o \in Orders
               PROVE  /\ \A l \in DOMAIN order[o].lines :
                           /\ order[o].lines[l].received = Of("receipt", o, l, "qty")
                           /\ order[o].lines[l].received <= order[o].lines[l].qty
                      /\ order[o].status = "received" =>
                           \A l \in DOMAIN order[o].lines : order[o].lines[l].received = order[o].lines[l].qty
                      /\ order[o].status = "partially_received" <=>
                           /\ \E l \in DOMAIN order[o].lines : order[o].lines[l].received > 0
                           /\ \E l \in DOMAIN order[o].lines : order[o].lines[l].received < order[o].lines[l].qty
    BY DEF ReceivedIsReceipts
  <2>1. OrderBooks(o)
    BY DEF BInv, Books
  <2>2. \A l \in DOMAIN order[o].lines :
          /\ order[o].lines[l].received = Of("receipt", o, l, "qty")
          /\ order[o].lines[l].received <= order[o].lines[l].qty
          /\ order[o].lines[l].received \in Nat /\ order[o].lines[l].qty \in Nat
    BY <2>1, OrderFields DEF OrderBooks, Positive
  <2>3. Progress(order[o].status, order[o].lines)
    BY <2>1 DEF OrderBooks
  <2>4. QED
    BY <2>2, <2>3 DEF Progress, Received
<1>2. QED
  BY <1>1, InitBInv, NextBInv, PTL DEF Spec

\* In whatever batches the goods of a taxed line come, and whichever are reversed,
\* its receipts add up to its gross amount and no further.
THEOREM ReceiptsAddUp == Spec => []ReceiptsWorthTheLine
<1>1. BInv => ReceiptsWorthTheLine
  <2> SUFFICES ASSUME BInv, NEW o \in Orders, NEW l \in DOMAIN order[o].lines, order[o].lines[l].taxed
               PROVE  /\ \A f \in InForce({"receipt"}, {o}) : Share(facts[f].parts, "line", l, "value") >= 0
                      /\ Of("receipt", o, l, "value") <= Gross(order[o].lines[l])
                      /\ order[o].lines[l].received = order[o].lines[l].qty =>
                           Of("receipt", o, l, "value") = Gross(order[o].lines[l])
    BY DEF ReceiptsWorthTheLine
  <2>1. OrderBooks(o) /\ AllBooked
    BY DEF BInv, Books
  <2>2. ASSUME NEW f \in InForce({"receipt"}, {o})
        PROVE  Share(facts[f].parts, "line", l, "value") >= 0
    <3>1. f \in DOMAIN facts /\ facts[f].kind = "receipt"
      BY DEF InForce
    <3>2. Amounts(facts[f].parts) /\ \A p \in DOMAIN facts[f].parts : facts[f].parts[p]["value"] >= 0
      BY <2>1, <3>1 DEF AllBooked, Booked, Amounts
    <3>3. Share(facts[f].parts, "line", l, "value") \in Nat
      BY <3>2, ShareNatural DEF Columns
    <3>4. QED
      BY <3>3
  <2>3. QED
    BY <2>1, <2>2 DEF OrderBooks
<1>2. QED
  BY <1>1, InitBInv, NextBInv, PTL DEF Spec

\* No more is issued of a procurement line than it requires, and no more paid or
\* invoiced of an order line than its gross amount.
THEOREM WithinLimits == Spec => []LimitsHold
<1>1. BInv => LimitsHold
  BY DEF BInv, Books, OrderBooks, IssueLimit, LimitsHold
<1>2. QED
  BY <1>1, InitBInv, NextBInv, PTL DEF Spec

-----------------------------------------------------------------------------
\* What pages and links hold, which no other invariant asks about.
PagesAndLinks ==
  /\ \A o \in Orders : seen[o].status \in {"none", "draft"}
  /\ link \in [Lines -> Items \cup {NoItem}]

\* They keep what they may hold.
LEMMA PagesAndLinksStay == BInv /\ PagesAndLinks /\ [Next]_vars => PagesAndLinks'
<1> SUFFICES ASSUME BInv, PagesAndLinks, [Next]_vars PROVE PagesAndLinks'
  OBVIOUS
<1>1. seen = [o \in Orders |-> seen[o]]
  BY DEF BInv, IInv, Shape
<1>2. ASSUME NEW o \in Orders, Ordered(o)
      PROVE  PagesAndLinks'
  <2>1. CASE \E lines \in OrderForms : CreateOrder(o, lines) \/ UpdateOrder(o, lines)
    BY <2>1 DEF CreateOrder, UpdateOrder, PagesAndLinks
  <2>2. CASE Look(o)
    BY <1>1, <2>2 DEF Look, PagesAndLinks
  <2>3. CASE ConfirmOrder(o) \/ CancelOrder(o)
    <3>1. seen' = [seen EXCEPT ![o] = NoOrder] /\ link' = link
      BY <2>3 DEF ConfirmOrder, CancelOrder
    <3>2. QED
      BY <1>1, <3>1 DEF PagesAndLinks, NoOrder
  <2>4. ASSUME NEW qty \in ReceiptForms, ReceiveGoods(o, qty)
        PROVE  PagesAndLinks'
    <3>1. PICK item \in [DOMAIN qty -> Items] :
            link' = [l \in Lines |-> IF l \in DOMAIN qty THEN item[l] ELSE link[l]]
      BY <2>4 DEF ReceiveGoods
    <3>2. seen' = seen
      BY <2>4 DEF ReceiveGoods
    <3>3. QED
      BY <3>1, <3>2 DEF PagesAndLinks
  <2>5. CASE \E kind \in MoneyKinds, amount \in AllocationForms : Allocate(kind, o, amount)
    BY <2>5 DEF Allocate, PagesAndLinks
  <2>6. QED
    BY <1>2, <2>1, <2>2, <2>3, <2>4, <2>5 DEF Ordered
<1>3. ASSUME seen' = seen, link' = link
      PROVE  PagesAndLinks'
  BY <1>3 DEF PagesAndLinks
<1>4. ASSUME NEW f \in DOMAIN facts,
             \/ ReverseReceipt(f) \/ ReverseIssue(f) \/ ReverseAdjustment(f)
             \/ \E kind \in MoneyKinds : ReverseAllocation(f, kind)
      PROVE  PagesAndLinks'
  BY <1>3, <1>4 DEF ReverseReceipt, ReverseIssue, ReverseAdjustment, ReverseAllocation
<1>5. ASSUME NEW wanted \in IssueForms, IssueGoods(wanted)
      PROVE  PagesAndLinks'
  BY <1>3, <1>5 DEF IssueGoods
<1>6. ASSUME NEW a \in AdjustmentForms, Adjust(a.item, a.qty, a.cost)
      PROVE  PagesAndLinks'
  BY <1>3, <1>6 DEF Adjust
<1>7. QED
  BY <1>2, <1>3, <1>4, <1>5, <1>6 DEF Next, vars

\* Every variable has its type, and no stock is negative in quantity or value.
THEOREM PurchasingTyped == Spec => []TypeOK
<1>1. Init => PagesAndLinks
  BY DEF Init, NoOrder, PagesAndLinks
<1>2. BInv /\ PagesAndLinks => TypeOK
  <2> SUFFICES ASSUME BInv, PagesAndLinks PROVE TypeOK
    OBVIOUS
  <2>1. Shape /\ (\A o \in Orders : OrderBooks(o)) /\ stock \in [Items -> Holding]
    BY DEF BInv, IInv, Books, StockBooks
  <2>2. ASSUME NEW o \in Orders
        PROVE  /\ order[o].status \in Statuses /\ order[o].revision \in Nat
               /\ DOMAIN order[o].lines \subseteq Lines
               /\ \A l \in DOMAIN order[o].lines : order[o].lines[l].received \in Nat
               /\ seen[o].status \in {"none", "draft"} /\ seen[o].revision \in Nat
    BY <2>1 DEF Shape, IsOrder, OrderBooks, IsLines, OrderLine, PagesAndLinks
  <2>3. \A i \in Items : stock[i].qty \in Nat /\ stock[i].value \in Nat
    BY <2>1 DEF Holding
  <2>4. \A f \in DOMAIN facts : /\ facts[f].kind \in StockKinds \cup MoneyKinds
                                /\ facts[f].active \in BOOLEAN
                                /\ facts[f].order \in Orders \cup {Unordered}
    BY <2>1 DEF Shape, IsFact
  <2>5. QED
    BY <2>2, <2>3, <2>4 DEF TypeOK, PagesAndLinks
<1>3. QED
  BY <1>1, <1>2, InitBInv, NextBInv, PagesAndLinksStay, PTL DEF Spec
=============================================================================
