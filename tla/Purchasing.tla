----------------------------- MODULE Purchasing -----------------------------
(***************************************************************************)
(* Purchase orders, goods receipts, stock, issues to a project and the     *)
(* payments and invoices of suppliers (features/procurement.py,            *)
(* procurement_extensions.py, inventory.py).                               *)
(*                                                                         *)
(* Every handler is one immediate transaction, so an action is a handler   *)
(* that succeeds; one that is refused changes nothing.  Goods and money    *)
(* are whole numbers of the smallest unit.  The project stays active, and  *)
(* a repeated request, answered from the stored response, is a stutter.    *)
(***************************************************************************)
EXTENDS Integers, Sequences, FiniteSets, FiniteSetsExt, Functions

CONSTANTS
  Items, Lines, Orders,  \* of the stock; of confirmed procurement lists; purchase orders
  Requirement,      \* the quantity of each procurement line
  Opening,          \* what is in stock when the history begins
  Scale,            \* the quantity a unit cost is for: 1000
  OrderForms, ReceiptForms, IssueForms, AdjustmentForms, AllocationForms,
                    \* the requests of an instance
  MaxFacts, MaxEdits   \* bounds of an instance

NoItem == "no item"
NoLine == "no line"
Unordered == "no order"
ASSUME NothingAssumption ==
  NoItem \notin Items /\ NoLine \notin Lines /\ Unordered \notin Orders
ASSUME ScaleAssumption == Scale \in Nat \ {0}

\* What the columns of 008_procurement_inventory.sql admit.
Positive == Nat \ {0}
OrderLine == [qty : Positive, cost : Nat, tax : Nat, taxed : BOOLEAN, reason : BOOLEAN, received : Nat]
Holding == [qty : Nat, value : Nat]
ASSUME StockAssumption ==
  /\ IsFiniteSet(Lines) /\ Requirement \in [Lines -> Nat]
  /\ Opening \in [Items -> Holding]
  /\ \A i \in Items : Opening[i].qty = 0 => Opening[i].value = 0
ASSUME FormsAssumption ==
  /\ \A lines \in OrderForms :
       /\ DOMAIN lines \subseteq Lines
       /\ \A l \in DOMAIN lines : lines[l] \in OrderLine /\ lines[l].received = 0
  /\ \A amount \in ReceiptForms \cup AllocationForms :
       DOMAIN amount \subseteq Lines /\ \A l \in DOMAIN amount : amount[l] \in Positive
  /\ \A wanted \in IssueForms :
       wanted \in Seq([item : Items, line : Lines \cup {NoLine}, qty : Positive])
  /\ AdjustmentForms \subseteq [item : Items, qty : Int \ {0}, cost : Nat]

VARIABLES
  order,   \* purchase_orders with their lines
  seen,    \* each order as the page of the user who will confirm it shows it
  link,    \* procurement_lines.inventory_item_id
  stock,   \* inventory_items: quantity and value
  facts    \* goods_receipts, inventory_issues, inventory_adjustments,
           \* supplier_payments and supplier_invoices, in the order of their creation

vars == <<order, seen, link, stock, facts>>

StockKinds == {"receipt", "issue", "adjustment"}
MoneyKinds == {"payment", "invoice"}
Statuses == {"none", "draft", "confirmed", "partially_received", "received", "cancelled"}
Received == {"partially_received", "received"}
Ordering == {"confirmed"} \cup Received

NoOrder == [status |-> "none", revision |-> 0, lines |-> <<>>]

Init ==
  /\ order = [o \in Orders |-> NoOrder] /\ seen = order
  /\ link = [l \in Lines |-> NoItem]
  /\ stock = Opening /\ facts = <<>>

-----------------------------------------------------------------------------
(* What the facts amount to.                                               *)

RoundRatio(n, d) == (2 * n + d) \div (2 * d)
LineValue(cost, qty) == RoundRatio(cost * qty, Scale)
Gross(line) == LineValue(line.cost, line.qty) + line.tax

\* What the parts of a fact move of an item or a line; issues take, so theirs are negative.
Share(parts, by, x, of) ==
  SumFunction([p \in {q \in DOMAIN parts : parts[q][by] = x} |-> parts[p][of]])

InForce(kinds, orders) ==
  {f \in DOMAIN facts : facts[f].active /\ facts[f].kind \in kinds /\ facts[f].order \in orders}
Posted(kinds, orders, by, x, of) ==
  SumFunction([f \in InForce(kinds, orders) |-> Share(facts[f].parts, by, x, of)])
Of(kind, o, l, of) == Posted({kind}, {o}, "line", l, of)

OrderedQuantity(lines) == SumFunction([l \in DOMAIN lines |-> lines[l].qty])
ReceivedQuantity(lines) == SumFunction([l \in DOMAIN lines |-> lines[l].received])

Record(kind, o, parts) ==
  /\ Len(facts) < MaxFacts
  /\ facts' = Append(facts, [kind |-> kind, active |-> TRUE, order |-> o, parts |-> parts])

Active(f, kind) == f \in DOMAIN facts /\ facts[f].kind = kind /\ facts[f].active
Reversed(f) == facts' = [facts EXCEPT ![f].active = FALSE]

\* The stock after sign times the parts of a fact.
StockAfter(parts, sign) ==
  [i \in Items |-> [qty |-> stock[i].qty + sign * Share(parts, "item", i, "qty"),
                    value |-> stock[i].value + sign * Share(parts, "item", i, "value")]]

-----------------------------------------------------------------------------
(* Orders.                                                                 *)

Reasoned(lines) ==
  \A l \in DOMAIN lines : lines[l].qty > Requirement[l] => lines[l].reason

Draft(lines, revision) == [status |-> "draft", revision |-> revision, lines |-> lines]

CreateOrder(o, lines) ==
  /\ order[o].status = "none" /\ Reasoned(lines)
  /\ order' = [order EXCEPT ![o] = Draft(lines, 1)]
  /\ UNCHANGED <<seen, link, stock, facts>>

\* Mutation: the revision stays.
UpdateOrderQuietly(o, lines) ==
  /\ order[o].status = "draft" /\ order[o].revision <= MaxEdits /\ Reasoned(lines)
  /\ order' = [order EXCEPT ![o] = Draft(lines, @.revision)]
  /\ UNCHANGED <<seen, link, stock, facts>>

UpdateOrder(o, lines) ==
  /\ order[o].status = "draft" /\ order[o].revision <= MaxEdits /\ Reasoned(lines)
  /\ order' = [order EXCEPT ![o] = Draft(lines, @.revision + 1)]
  /\ UNCHANGED <<seen, link, stock, facts>>

\* The page of the user who is to confirm the order is loaded.
Look(o) ==
  /\ order[o].status = "draft"
  /\ seen' = [seen EXCEPT ![o] = order[o]]
  /\ UNCHANGED <<order, link, stock, facts>>

PreviouslyOrdered(l) ==
  SumFunction([o \in {p \in Orders : order[p].status \in Ordering /\ l \in DOMAIN order[p].lines} |->
                 order[o].lines[l].qty])

ConfirmOrder(o) ==
  /\ order[o].status = "draft" /\ order[o].revision = seen[o].revision
  /\ \A l \in DOMAIN order[o].lines :
       LET line == order[o].lines[l]
       IN PreviouslyOrdered(l) + line.qty > Requirement[l] => line.reason
  /\ order' = [order EXCEPT ![o].status = "confirmed", ![o].revision = @ + 1]
  /\ seen' = [seen EXCEPT ![o] = NoOrder]
  /\ UNCHANGED <<link, stock, facts>>

ActiveFacts(o) == {f \in DOMAIN facts : facts[f].order = o /\ facts[f].active}

\* Mutation: only goods receipts bar a cancellation.
CancelUnreceived(o) ==
  /\ order[o].status \in {"draft", "confirmed"}
  /\ \A f \in ActiveFacts(o) : facts[f].kind # "receipt"
  /\ order' = [order EXCEPT ![o].status = "cancelled", ![o].revision = @ + 1]
  /\ seen' = [seen EXCEPT ![o] = NoOrder]
  /\ UNCHANGED <<link, stock, facts>>

CancelOrder(o) ==
  /\ order[o].status \in {"draft", "confirmed"} /\ ActiveFacts(o) = {}
  /\ order' = [order EXCEPT ![o].status = "cancelled", ![o].revision = @ + 1]
  /\ seen' = [seen EXCEPT ![o] = NoOrder]
  /\ UNCHANGED <<link, stock, facts>>

-----------------------------------------------------------------------------
(* Goods receipts.                                                         *)

\* Mutation: every batch is worth its share, whatever is left of the gross amount.
ReceiptValueUncapped(o, l, qty) ==
  LET line == order[o].lines[l] IN
  IF ~line.taxed THEN LineValue(line.cost, qty) ELSE RoundRatio(Gross(line) * qty, line.qty)

\* With tax the receipts of a line add up to its gross amount: the last takes the rest.
ReceiptValue(o, l, qty) ==
  LET line == order[o].lines[l]
      remaining == Gross(line) - Of("receipt", o, l, "value")
  IN IF ~line.taxed THEN LineValue(line.cost, qty)
     ELSE IF qty = line.qty - line.received THEN remaining
     ELSE Min({RoundRatio(Gross(line) * qty, line.qty), remaining})

\* Mutation: the status is what a receipt would make it.
RefreshedByReceipt(lines) ==
  IF ReceivedQuantity(lines) = OrderedQuantity(lines) THEN "received" ELSE "partially_received"

Refreshed(lines) ==
  IF ReceivedQuantity(lines) = 0 THEN "confirmed"
  ELSE IF ReceivedQuantity(lines) = OrderedQuantity(lines) THEN "received"
  ELSE "partially_received"

\* The lines of o once sign times the given quantities are received.
Receipt(o, qty, sign) ==
  LET lines == [l \in DOMAIN order[o].lines |->
                  [order[o].lines[l] EXCEPT !.received =
                     @ + sign * (IF l \in DOMAIN qty THEN qty[l] ELSE 0)]]
  IN order' = [order EXCEPT ![o] = [status |-> Refreshed(lines),
                                    revision |-> @.revision + 1, lines |-> lines]]

\* The items may have been renamed since the line was linked to one, so the
\* description of a line may lead to any of them.
ReceiveGoods(o, qty) ==
  /\ order[o].status \in Ordering /\ DOMAIN qty \subseteq DOMAIN order[o].lines
  /\ \A l \in DOMAIN qty : order[o].lines[l].received + qty[l] <= order[o].lines[l].qty
  /\ \E item \in [DOMAIN qty -> Items] :
       LET parts == [l \in DOMAIN qty |-> [item |-> item[l], line |-> l, qty |-> qty[l],
                                          value |-> ReceiptValue(o, l, qty[l])]]
       IN /\ Record("receipt", o, parts)
          /\ stock' = StockAfter(parts, 1)
          /\ link' = [l \in Lines |-> IF l \in DOMAIN qty THEN item[l] ELSE link[l]]
  /\ Receipt(o, qty, 1)
  /\ UNCHANGED seen

\* Goods leave the stock only with a value that is there, and the last with all of it.
Takeable(s) ==
  \A i \in Items : s[i].qty >= 0 /\ s[i].value >= 0 /\ (s[i].qty = 0 => s[i].value = 0)

ReverseReceipt(f) ==
  /\ Active(f, "receipt")
  /\ LET parts == facts[f].parts
         qty == [l \in DOMAIN parts |-> parts[l].qty]
     IN /\ Takeable(StockAfter(parts, -1))
        /\ stock' = StockAfter(parts, -1)
        /\ Receipt(facts[f].order, qty, -1)
  /\ Reversed(f)
  /\ UNCHANGED <<seen, link>>

-----------------------------------------------------------------------------
(* Issues to the project, and adjustments.                                 *)

CostOf(item, qty) ==
  IF qty = item.qty THEN item.value ELSE RoundRatio(item.value * qty, item.qty)

\* Mutation: the lines of one request do not count against each other.
UsedBefore(l, parts) == - Of("issue", Unordered, l, "qty")

\* What active issues, and the lines posted so far, use of a procurement line.
Used(l, parts) == - Share(parts, "line", l, "qty") - Of("issue", Unordered, l, "qty")

\* _post_issue_line: one line after another, each on the stock the last one left.
PostLine(so, want) ==
  LET have == so.stock[want.item]
      fits == /\ so.ok /\ want.qty <= have.qty
              /\ want.line # NoLine =>
                   /\ link[want.line] = want.item
                   /\ Used(want.line, so.parts) + want.qty <= Requirement[want.line]
      cost == CostOf(have, want.qty)
  IN IF ~fits THEN [so EXCEPT !.ok = FALSE]
     ELSE [ok |-> TRUE,
           stock |-> [so.stock EXCEPT ![want.item] =
                        [qty |-> have.qty - want.qty, value |-> have.value - cost]],
           parts |-> Append(so.parts, [item |-> want.item, line |-> want.line,
                                       qty |-> - want.qty, value |-> - cost])]

IssueGoods(wanted) ==
  LET posted[n \in 0..Len(wanted)] ==
        IF n = 0 THEN [ok |-> TRUE, stock |-> stock, parts |-> <<>>]
        ELSE PostLine(posted[n - 1], wanted[n])
      all == posted[Len(wanted)] IN
  /\ all.ok
  /\ stock' = all.stock
  /\ Record("issue", Unordered, all.parts)
  /\ UNCHANGED <<order, seen, link>>

\* Mutation: the goods come back at what they would cost now.
ReverseIssueAtAverage(f) ==
  /\ Active(f, "issue")
  /\ stock' = [i \in Items |->
                 LET back == StockAfter(facts[f].parts, -1)[i].qty - stock[i].qty
                 IN [qty |-> stock[i].qty + back,
                     value |-> stock[i].value +
                       IF stock[i].qty = 0 THEN back
                       ELSE RoundRatio(stock[i].value * back, stock[i].qty)]]
  /\ Reversed(f)
  /\ UNCHANGED <<order, seen, link>>

ReverseIssue(f) ==
  /\ Active(f, "issue")
  /\ stock' = StockAfter(facts[f].parts, -1)
  /\ Reversed(f)
  /\ UNCHANGED <<order, seen, link>>

Adjust(i, qty, cost) ==
  LET value == IF qty > 0 THEN LineValue(cost, qty) ELSE - CostOf(stock[i], - qty) IN
  /\ stock[i].qty + qty >= 0
  /\ stock' = [stock EXCEPT ![i] = [qty |-> @.qty + qty, value |-> @.value + value]]
  /\ Record("adjustment", Unordered, <<[item |-> i, line |-> NoLine, qty |-> qty, value |-> value]>>)
  /\ UNCHANGED <<order, seen, link>>

ReverseAdjustment(f) ==
  /\ Active(f, "adjustment")
  /\ Takeable(StockAfter(facts[f].parts, -1))
  /\ stock' = StockAfter(facts[f].parts, -1)
  /\ Reversed(f)
  /\ UNCHANGED <<order, seen, link>>

-----------------------------------------------------------------------------
(* Payments and invoices of the supplier.                                  *)

\* _validate_allocation_capacity
WithinCapacity(kind, o, amount) ==
  \A l \in DOMAIN amount : Of(kind, o, l, "value") + amount[l] <= Gross(order[o].lines[l])

Allocate(kind, o, amount) ==
  /\ order[o].status \in Ordering /\ DOMAIN amount \subseteq DOMAIN order[o].lines
  /\ WithinCapacity(kind, o, amount)
  /\ Record(kind, o, [l \in DOMAIN amount |->
                         [item |-> NoItem, line |-> l, qty |-> 0, value |-> amount[l]]])
  /\ UNCHANGED <<order, seen, link, stock>>

ReverseAllocation(f, kind) ==
  /\ Active(f, kind)
  /\ Reversed(f)
  /\ UNCHANGED <<order, seen, link, stock>>

-----------------------------------------------------------------------------
Ordered(o) ==
  \/ \E lines \in OrderForms : CreateOrder(o, lines) \/ UpdateOrder(o, lines)
  \/ Look(o) \/ ConfirmOrder(o) \/ CancelOrder(o)
  \/ \E qty \in ReceiptForms : ReceiveGoods(o, qty)
  \/ \E kind \in MoneyKinds, amount \in AllocationForms : Allocate(kind, o, amount)

Next ==
  \/ \E o \in Orders : Ordered(o)
  \/ \E wanted \in IssueForms : IssueGoods(wanted)
  \/ \E a \in AdjustmentForms : Adjust(a.item, a.qty, a.cost)
  \/ \E f \in DOMAIN facts : \/ ReverseReceipt(f) \/ ReverseIssue(f) \/ ReverseAdjustment(f)
                             \/ \E kind \in MoneyKinds : ReverseAllocation(f, kind)

Spec == Init /\ [][Next]_vars

-----------------------------------------------------------------------------
\* Every variable has its type; no quantity and no value in stock is negative.
TypeOK ==
  /\ \A o \in Orders :
       /\ order[o].status \in Statuses /\ order[o].revision \in Nat
       /\ DOMAIN order[o].lines \subseteq Lines
       /\ \A l \in DOMAIN order[o].lines : order[o].lines[l].received \in Nat
       /\ seen[o].status \in {"none", "draft"} /\ seen[o].revision \in Nat
  /\ link \in [Lines -> Items \cup {NoItem}]
  /\ \A i \in Items : stock[i].qty \in Nat /\ stock[i].value \in Nat
  /\ \A f \in DOMAIN facts :
       /\ facts[f].kind \in StockKinds \cup MoneyKinds /\ facts[f].active \in BOOLEAN
       /\ facts[f].order \in Orders \cup {Unordered}

\* An item holds what was there at first and what its active receipts, issues
\* and adjustments brought and took, in quantity and in value: whatever was
\* posted in between, a reversal undoes exactly what was done.  And where nothing
\* is left, nothing is left of the value.
BalanceIsLedger ==
  \A i \in Items :
    LET moved(of) == Posted(StockKinds, Orders \cup {Unordered}, "item", i, of)
    IN /\ stock[i] = [qty |-> Opening[i].qty + moved("qty"),
                      value |-> Opening[i].value + moved("value")]
       /\ stock[i].qty = 0 => stock[i].value = 0

\* An order says it received what its active receipts brought, never more than
\* was ordered, and its status says whether that is nothing, a part or all.
ReceivedIsReceipts ==
  \A o \in Orders :
    LET lines == order[o].lines IN
    /\ \A l \in DOMAIN lines :
         lines[l].received = Of("receipt", o, l, "qty") /\ lines[l].received <= lines[l].qty
    /\ order[o].status = "received" => \A l \in DOMAIN lines : lines[l].received = lines[l].qty
    /\ order[o].status = "partially_received" <=>
         /\ \E l \in DOMAIN lines : lines[l].received > 0
         /\ \E l \in DOMAIN lines : lines[l].received < lines[l].qty

\* The receipts of a taxed line are worth its gross amount when all is received,
\* never more before, and never less than nothing, in whatever batches the
\* goods came and whichever of them were reversed.
ReceiptsWorthTheLine ==
  \A o \in Orders : \A l \in DOMAIN order[o].lines :
    LET line == order[o].lines[l]  got == Of("receipt", o, l, "value") IN
    line.taxed =>
      /\ \A f \in InForce({"receipt"}, {o}) : Share(facts[f].parts, "line", l, "value") >= 0
      /\ got <= Gross(line)
      /\ line.received = line.qty => got = Gross(line)

\* Nothing is used beyond what it draws on: active issues no more of a procurement
\* line than it requires, payments and invoices no more than the gross amount of
\* their order line.
LimitsHold ==
  /\ \A l \in Lines : - Of("issue", Unordered, l, "qty") <= Requirement[l]
  /\ \A o \in Orders, kind \in MoneyKinds : \A l \in DOMAIN order[o].lines :
       Of(kind, o, l, "value") <= Gross(order[o].lines[l])

\* A draft and a cancelled order have no receipt, payment or invoice in force.
CancelledIsBare ==
  \A o \in Orders : order[o].status \notin Ordering => ActiveFacts(o) = {}

\* The user confirms the lines the page showed, not those somebody put there since.
ConfirmedAsSeen ==
  [][\A o \in Orders : order[o].status = "draft" /\ order'[o].status = "confirmed" =>
       order'[o].lines = seen[o].lines]_vars
=============================================================================
