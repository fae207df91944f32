------------------------- MODULE ProjectCompletion -------------------------
(***************************************************************************)
(* What a project must have behind it to be closed as completed, and who   *)
(* may still change it afterwards: its stages, its acceptances with the    *)
(* warranty, its payment terms, and the contracts, which projects share,   *)
(* with their receipts (features/projects.py, project_stages.py,           *)
(* commercial.py, delivery.py).                                            *)
(*                                                                         *)
(* Every handler is one immediate transaction, so an action is a handler   *)
(* that succeeds.  An edit of notes, dates or attachments and a repeated   *)
(* request, answered from the stored response, are stutters.               *)
(***************************************************************************)
EXTENDS Integers, SequencesExt

CONSTANTS
  Projects, Trade,   \* the projects, and those of the category trade
  Stages, Begun,     \* the stages of each, and where they stand when the history begins
  Contracts,
  ContractForms,     \* the totals, signing dates and shares of contracts
  Plans,             \* the amounts a project may plan to be paid
  Payments,          \* the amounts of receipts
  Days, Inspected, MaxReceipts, MaxAcceptances
                     \* bounds of an instance: the days, the projects and the number
                     \* of acceptances, the number of receipts

ASSUME TradeAssumption == Trade \subseteq Projects
ASSUME FormsAssumption ==
  \A form \in ContractForms :
    DOMAIN form.shares \subseteq Projects /\ form.shares \in [DOMAIN form.shares -> Nat \ {0}]
ASSUME PaymentsAssumption == Payments \subseteq Nat \ {0} /\ Plans \subseteq Nat
ASSUME StagesAssumption ==
  Stages # {} /\ Begun \in {"pending", "in_progress", "blocked", "completed", "skipped"}

VARIABLES
  project,      \* active, or archived as completed or cancelled
  stage,        \* project_stages.status
  contract,     \* contracts and contract_project_allocations
  planned,      \* payment_terms: the planned amounts, over all milestones
  receipts,     \* receipts, in the order of their creation
  acceptances,  \* acceptances, in the order of their creation
  warranty,     \* the projects with a warranty
  drafts        \* history: the contracts not yet signed when the project was completed

vars == <<project, stage, contract, planned, receipts, acceptances, warranty, drafts>>
money == <<contract, planned, receipts>>
work == <<stage, acceptances, warranty>>

StageStatuses == {"pending", "in_progress", "blocked", "completed", "skipped"}
Finished == {"completed", "skipped"}
StageMoves ==
  [pending |-> {"in_progress", "skipped"}, in_progress |-> {"blocked", "completed", "skipped"},
   blocked |-> {"in_progress", "skipped"},
   completed |-> {"in_progress"}, skipped |-> {"in_progress"}]

ContractMoves ==
  [none |-> {}, draft |-> {"signed", "terminated"}, signed |-> {"completed", "terminated"},
   completed |-> {}, terminated |-> {}]
ContractStatuses == {"none", "draft", "signed", "completed", "terminated"}
InForce == {"signed", "completed"}
\* Mutation: what was terminated can be edited again.
LockedInForce == InForce
Locked == InForce \cup {"terminated"}

Results == {"passed", "failed"}   \* passed_with_punch counts as passed everywhere
Types == {"final", "other"}

Receipt == [project : Projects, contract : Contracts, amount : Payments, active : BOOLEAN]
Acceptance ==
  [project : Projects, type : Types, status : Results \cup {"scheduled", "cancelled"}, day : Days]

NoContract == [status |-> "none", total |-> 0, dated |-> FALSE, shares |-> <<>>]

Init ==
  /\ project = [p \in Projects |-> "active"]
  /\ stage = [p \in Projects |-> [s \in Stages |-> Begun]]
  /\ contract = [c \in Contracts |-> NoContract]
  /\ planned = [p \in Projects |-> 0]
  /\ receipts = <<>> /\ acceptances = <<>> /\ warranty = {}
  /\ drafts = [p \in Projects |-> {}]

Active(p) == project[p] = "active"
Shares(c) == DOMAIN contract[c].shares

-----------------------------------------------------------------------------
(* Stages.                                                                 *)

\* Mutation: the project may be archived.
TransitionAnyStage(p, s, to) ==
  /\ to \in StageMoves[stage[p][s]]
  /\ stage' = [stage EXCEPT ![p][s] = to]
  /\ UNCHANGED <<project, money, acceptances, warranty, drafts>>

TransitionStage(p, s, to) ==
  /\ Active(p) /\ to \in StageMoves[stage[p][s]]
  /\ stage' = [stage EXCEPT ![p][s] = to]
  /\ UNCHANGED <<project, money, acceptances, warranty, drafts>>

-----------------------------------------------------------------------------
(* Contracts, payment terms and receipts.                                  *)

\* _resolve_allocations: every project of the shares is active.
Resolved(p, form) == p \in DOMAIN form.shares /\ \A q \in DOMAIN form.shares : Active(q)

SumOf(shares) == SumFunction(shares)

Draft(form) ==
  [status |-> "draft", total |-> form.total, dated |-> form.dated, shares |-> form.shares]

CreateContract(p, c, form) ==
  /\ Active(p) /\ contract[c].status = "none" /\ Resolved(p, form)
  /\ contract' = [contract EXCEPT ![c] = Draft(form)]
  /\ UNCHANGED <<project, planned, receipts, work, drafts>>

\* One that is locked keeps its amounts; its notes are not modelled.
UpdateContract(p, c, form) ==
  /\ Active(p) /\ p \in Shares(c) /\ contract[c].status \notin Locked /\ Resolved(p, form)
  /\ contract' = [contract EXCEPT ![c] = [Draft(form) EXCEPT !.status = contract[c].status]]
  /\ UNCHANGED <<project, planned, receipts, work, drafts>>

\* _require_signing_values
Signable(con) == con.dated /\ SumOf(con.shares) = con.total

\* Any of the projects that share it may move a contract on.
TransitionContract(p, c, to) ==
  /\ Active(p) /\ p \in Shares(c) /\ to \in ContractMoves[contract[c].status]
  /\ to = "signed" => Signable(contract[c])
  /\ contract' = [contract EXCEPT ![c].status = to]
  /\ UNCHANGED <<project, planned, receipts, work, drafts>>

PutPaymentTerm(p, amount) ==
  /\ Active(p)
  /\ planned' = [planned EXCEPT ![p] = amount]
  /\ UNCHANGED <<project, contract, receipts, work, drafts>>

Sum(R) == SumFunction([r \in R |-> receipts[r].amount])
ActiveReceipts(p) == {r \in DOMAIN receipts : receipts[r].project = p /\ receipts[r].active}
Received(p, c) == Sum({r \in ActiveReceipts(p) : receipts[r].contract = c})

\* _validate_receipt_allocation_capacity
Remaining(p, c) == contract[c].shares[p] - Received(p, c)

CreateReceipt(p, c, amount) ==
  /\ Active(p) /\ Len(receipts) < MaxReceipts
  /\ contract[c].status \in InForce /\ p \in Shares(c) /\ amount <= Remaining(p, c)
  /\ receipts' = Append(receipts, [project |-> p, contract |-> c, amount |-> amount, active |-> TRUE])
  /\ UNCHANGED <<project, contract, planned, work, drafts>>

\* Mutation: the project may be archived.
VoidAnyReceipt(r) ==
  /\ receipts[r].active
  /\ receipts' = [receipts EXCEPT ![r].active = FALSE]
  /\ UNCHANGED <<project, contract, planned, work, drafts>>

VoidReceipt(r) ==
  /\ Active(receipts[r].project) /\ receipts[r].active
  /\ receipts' = [receipts EXCEPT ![r].active = FALSE]
  /\ UNCHANGED <<project, contract, planned, work, drafts>>

-----------------------------------------------------------------------------
(* Acceptances and the warranty.                                           *)

ScheduleAcceptance(p, type, day) ==
  /\ Active(p) /\ p \in Inspected /\ Len(acceptances) < MaxAcceptances
  /\ acceptances' =
       Append(acceptances, [project |-> p, type |-> type, status |-> "scheduled", day |-> day])
  /\ UNCHANGED <<project, stage, money, warranty, drafts>>

Open(a) == Active(acceptances[a].project) /\ acceptances[a].status = "scheduled"

RescheduleAcceptance(a, type, day) ==
  /\ Open(a)
  /\ acceptances' = [acceptances EXCEPT ![a].type = type, ![a].day = day]
  /\ UNCHANGED <<project, stage, money, warranty, drafts>>

\* Completing it with the result cancelled does the same.
CancelAcceptance(a, day) ==
  /\ Open(a)
  /\ acceptances' = [acceptances EXCEPT ![a].status = "cancelled", ![a].day = day]
  /\ UNCHANGED <<project, stage, money, warranty, drafts>>

\* A final acceptance that passes comes with the only warranty of the project.
CompleteAcceptance(a, result, day) ==
  LET p == acceptances[a].project
      passes == acceptances[a].type = "final" /\ result = "passed"
  IN /\ Open(a)
     /\ passes => p \notin warranty
     /\ acceptances' = [acceptances EXCEPT ![a].status = result, ![a].day = day]
     /\ warranty' = IF passes THEN warranty \cup {p} ELSE warranty
     /\ UNCHANGED <<project, stage, money, drafts>>

-----------------------------------------------------------------------------
(* Closing and restoring a project.                                        *)

StagesReady(p) == \A s \in Stages : stage[p][s] \in Finished

Finals(p) == {a \in DOMAIN acceptances : acceptances[a].project = p /\ acceptances[a].type = "final"}
Later(a, b) ==
  \/ acceptances[a].day > acceptances[b].day
  \/ acceptances[a].day = acceptances[b].day /\ a > b
Latest(a, p) == a \in Finals(p) /\ \A b \in Finals(p) \ {a} : Later(a, b)

\* For a trade project the acceptance is one of the stages.
AcceptanceReady(p) ==
  p \in Trade \/ \E a \in Finals(p) : Latest(a, p) /\ acceptances[a].status = "passed"

\* _project_contract_outstanding, for the contracts C
Collected(p, C) ==
  \A c \in C : contract[c].status \in InForce /\ p \in Shares(c) => Remaining(p, c) <= 0

Paid(p) == planned[p] <= Sum(ActiveReceipts(p))

Ready(p) == StagesReady(p) /\ AcceptanceReady(p) /\ Paid(p) /\ Collected(p, Contracts)

DraftsOf(p) == {c \in Contracts : contract[c].status = "draft" /\ p \in Shares(c)}

CloseProject(p, closure) ==
  /\ Active(p)
  /\ closure = "completed" => Ready(p)
  /\ project' = [project EXCEPT ![p] = closure]
  /\ drafts' = [drafts EXCEPT ![p] = IF closure = "completed" THEN DraftsOf(p) ELSE {}]
  /\ UNCHANGED <<money, work>>

RestoreProject(p) ==
  /\ ~Active(p)
  /\ project' = [project EXCEPT ![p] = "active"]
  /\ drafts' = [drafts EXCEPT ![p] = {}]
  /\ UNCHANGED <<money, work>>

-----------------------------------------------------------------------------
Commercial(p) ==
  \/ \E c \in Contracts : \/ \E form \in ContractForms : CreateContract(p, c, form) \/ UpdateContract(p, c, form)
                          \/ \E to \in ContractStatuses : TransitionContract(p, c, to)
                          \/ \E amount \in Payments : CreateReceipt(p, c, amount)
  \/ \E amount \in Plans : PutPaymentTerm(p, amount)

Accepting(a) ==
  \E day \in Days :
    \/ \E type \in Types : RescheduleAcceptance(a, type, day)
    \/ CancelAcceptance(a, day)
    \/ \E result \in Results : CompleteAcceptance(a, result, day)

Next ==
  \/ \E p \in Projects :
       \/ \E s \in Stages, to \in StageStatuses : TransitionStage(p, s, to)
       \/ Commercial(p)
       \/ \E type \in Types, day \in Days : ScheduleAcceptance(p, type, day)
       \/ \E closure \in {"completed", "cancelled"} : CloseProject(p, closure)
       \/ RestoreProject(p)
  \/ \E r \in DOMAIN receipts : VoidReceipt(r)
  \/ \E a \in DOMAIN acceptances : Accepting(a)

Spec == Init /\ [][Next]_vars

-----------------------------------------------------------------------------
\* Every variable has its type.
TypeOK ==
  /\ project \in [Projects -> {"active", "completed", "cancelled"}]
  /\ stage \in [Projects -> [Stages -> StageStatuses]]
  /\ \A c \in Contracts : contract[c].status \in ContractStatuses /\ Shares(c) \subseteq Projects
  /\ planned \in [Projects -> Plans \cup {0}]
  /\ receipts \in Seq(Receipt)
  /\ acceptances \in Seq(Acceptance)
  /\ warranty \subseteq Projects
  /\ drafts \in [Projects -> SUBSET Contracts]

\* A completed project stays what it was closed as: all stages finished and,
\* unless it is a trade project, its latest final acceptance passed.  Each of
\* the handlers that move stages and acceptances must refuse it.
CompletedStaysDone ==
  \A p \in Projects : project[p] = "completed" => StagesReady(p) /\ AcceptanceReady(p)

\* Its payments stay what they were too: the plan is paid and every contract in
\* force collected, but for those that other projects signed after the closing.
CompletedStaysPaid ==
  \A p \in Projects : project[p] = "completed" => Paid(p) /\ Collected(p, Contracts \ drafts[p])

\* No more is received of a project's share of a contract than the share, and
\* nothing for a share that is not there, whatever became of the contract.
ReceivedWithinShare ==
  \A r \in DOMAIN receipts :
    LET p == receipts[r].project  c == receipts[r].contract IN
    p \in Shares(c) /\ Received(p, c) <= contract[c].shares[p]

\* The shares of a contract in force add up to it, whichever of its projects
\* edited it on the way.
InForceAddsUp ==
  \A c \in Contracts :
    contract[c].status \in InForce => SumOf(contract[c].shares) = contract[c].total

=============================================================================
