---------------------- MODULE ProjectCompletionProofs ----------------------
(* For any projects, contracts and bounds of ProjectCompletion: a project  *)
(* closed as completed keeps its stages, its acceptance and its payments,  *)
(* the shares of a contract in force add up to it, and no share is paid    *)
(* twice.                                                                  *)
(*                                                                         *)
(* That a completed project stays paid needs to know that what is paid is  *)
(* locked (ReceiptsSettled) and that what can still be signed for it was a *)
(* draft at the closing (DraftsKnown).  Received and Sum, of the code, are *)
(* both totals of a set of receipts (Total); a handler adds one receipt to *)
(* that set, or takes one out.                                             *)
EXTENDS ProjectCompletion, SumTheorems, TLAPS

\* What TypeOK says of the variables that the two properties read.
ProjectsTyped ==
  /\ project \in [Projects -> {"active", "completed", "cancelled"}]
  /\ stage \in [Projects -> [Stages -> StageStatuses]]
  /\ acceptances \in Seq(Acceptance)

\* A contract is a record of the four fields, whatever they hold.
IsContract(r) ==
  r \in [status : ContractStatuses, total : {r.total}, dated : {r.dated}, shares : {r.shares}]

ContractsTyped ==
  /\ contract = [c \in Contracts |-> contract[c]]
  /\ \A c \in Contracts : IsContract(contract[c]) /\ Shares(c) \subseteq Projects

IInv == ProjectsTyped /\ ContractsTyped /\ CompletedStaysDone /\ InForceAddsUp

\* What one acceptance says of its project stays said when the others change.
LEMMA ReadinessKept ==
  ASSUME NEW p \in Projects, AcceptanceReady(p),
         \A a : /\ a \in DOMAIN acceptances /\ acceptances[a].project = p
                     <=> a \in DOMAIN acceptances' /\ acceptances'[a].project = p
                /\ a \in DOMAIN acceptances /\ acceptances[a].project = p
                     => acceptances'[a] = acceptances[a]
  PROVE  AcceptanceReady(p)'
<1>1. CASE p \in Trade
  BY <1>1 DEF AcceptanceReady
<1>2. CASE p \notin Trade
  <2>1. PICK a \in Finals(p) : Latest(a, p) /\ acceptances[a].status = "passed"
    BY <1>2 DEF AcceptanceReady
  <2>2. Finals(p)' = Finals(p) /\ \A b \in Finals(p) : acceptances'[b] = acceptances[b]
    BY DEF Finals
  <2>3. Latest(a, p)'
    BY <2>1, <2>2 DEF Latest, Later
  <2>4. QED
    BY <2>1, <2>2, <2>3 DEF AcceptanceReady
<1>3. QED
  BY <1>1, <1>2

LEMMA Replaced ==
  ASSUME NEW S, NEW s \in Seq(S), NEW i \in DOMAIN s, NEW e \in S
  PROVE  [s EXCEPT ![i] = e] \in Seq(S)
OBVIOUS

LEMMA Appended ==
  ASSUME NEW S, NEW s \in Seq(S), NEW e \in S
  PROVE  /\ Append(s, e) \in Seq(S)
         /\ DOMAIN Append(s, e) = DOMAIN s \cup {Len(s) + 1}
         /\ Append(s, e)[Len(s) + 1] = e
         /\ \A i \in DOMAIN s : Append(s, e)[i] = s[i] /\ i # Len(s) + 1
OBVIOUS

\* An acceptance of an active project is added or changed.
LEMMA AcceptanceKeeps ==
  ASSUME IInv, NEW q \in Projects, Active(q), NEW a \in Nat \ {0}, NEW e \in Acceptance, e.project = q,
         \/ a = Len(acceptances) + 1 /\ acceptances' = Append(acceptances, e)
         \/ /\ a \in DOMAIN acceptances /\ acceptances[a].project = q
            /\ acceptances' = [acceptances EXCEPT ![a] = e],
         project' = project, stage' = stage, contract' = contract
  PROVE  IInv'
<1>1. /\ acceptances' \in Seq(Acceptance)
      /\ DOMAIN acceptances' = DOMAIN acceptances \cup {a}
      /\ acceptances'[a] = e
      /\ \A b \in DOMAIN acceptances \ {a} : acceptances'[b] = acceptances[b]
      /\ a \in DOMAIN acceptances => acceptances[a].project = q
  <2>1. acceptances \in Seq(Acceptance)
    BY DEF IInv, ProjectsTyped
  <2>2. CASE a = Len(acceptances) + 1 /\ acceptances' = Append(acceptances, e)
    <3>1. a \notin DOMAIN acceptances
      BY <2>1, <2>2
    <3>2. QED
      BY <2>1, <2>2, <3>1, Appended
  <2>3. CASE /\ a \in DOMAIN acceptances /\ acceptances[a].project = q
             /\ acceptances' = [acceptances EXCEPT ![a] = e]
    <3>1. acceptances' \in Seq(Acceptance)
      BY <2>1, <2>3, Replaced
    <3>2. /\ DOMAIN acceptances' = DOMAIN acceptances
          /\ acceptances'[a] = e
          /\ \A b \in DOMAIN acceptances \ {a} : acceptances'[b] = acceptances[b]
      BY <2>1, <2>3
    <3>3. QED
      BY <2>3, <3>1, <3>2
  <2>4. QED
    BY <2>2, <2>3
<1>2. ASSUME NEW p \in Projects, project'[p] = "completed"
      PROVE  StagesReady(p)' /\ AcceptanceReady(p)'
  <2>1. p # q /\ StagesReady(p) /\ AcceptanceReady(p)
    BY <1>2 DEF IInv, CompletedStaysDone, Active
  <2>2. AcceptanceReady(p)'
    BY <1>1, <2>1, ReadinessKept
  <2>3. QED
    BY <2>1, <2>2 DEF StagesReady
<1>3. ProjectsTyped'
  BY <1>1 DEF IInv, ProjectsTyped
<1>4. ContractsTyped' /\ InForceAddsUp'
  BY DEF IInv, ContractsTyped, InForceAddsUp, Shares
<1>5. QED
  BY <1>2, <1>3, <1>4 DEF IInv, CompletedStaysDone

\* Editing one or two fields of an acceptance leaves one of the same project.
LEMMA AcceptanceEdited ==
  ASSUME NEW r \in Acceptance, NEW day \in Days
  PROVE  /\ \A type \in Types :
              LET e == [[r EXCEPT !.type = type] EXCEPT !.day = day]
              IN e \in Acceptance /\ e.project = r.project
         /\ \A status \in Results \cup {"scheduled", "cancelled"} :
              LET e == [[r EXCEPT !.status = status] EXCEPT !.day = day]
              IN e \in Acceptance /\ e.project = r.project
BY DEF Acceptance

\* Nothing of what makes a project complete changes, and contracts keep their sums.
LEMMA ContractKeeps ==
  ASSUME IInv, NEW c \in Contracts, NEW r, IsContract(r), DOMAIN r.shares \subseteq Projects,
         r.status \in InForce => SumOf(r.shares) = r.total,
         contract' = [contract EXCEPT ![c] = r],
         project' = project, stage' = stage, acceptances' = acceptances
  PROVE  IInv'
<1>1. /\ contract' = [d \in Contracts |-> contract'[d]]
      /\ \A d \in Contracts : contract'[d] = IF d = c THEN r ELSE contract[d]
  BY DEF IInv, ContractsTyped
<1>2. ContractsTyped'
  BY <1>1 DEF IInv, ContractsTyped, Shares
<1>3. InForceAddsUp'
  BY <1>1 DEF IInv, InForceAddsUp
<1>4. ProjectsTyped' /\ CompletedStaysDone'
  BY DEF IInv, ProjectsTyped, CompletedStaysDone, StagesReady, AcceptanceReady, Latest, Later, Finals
<1>5. QED
  BY <1>2, <1>3, <1>4 DEF IInv

LEMMA StatusMoved ==
  ASSUME NEW r, IsContract(r), NEW status \in ContractStatuses
  PROVE  /\ IsContract([r EXCEPT !.status = status])
         /\ [r EXCEPT !.status = status].status = status
         /\ [r EXCEPT !.status = status].shares = r.shares
         /\ [r EXCEPT !.status = status].total = r.total
BY DEF IsContract

LEMMA InitIInv == Init => IInv
<1> SUFFICES ASSUME Init PROVE IInv
  OBVIOUS
<1>1. ProjectsTyped
  BY StagesAssumption DEF Init, ProjectsTyped, StageStatuses
<1>2. ContractsTyped
  <2>1. NoContract.status = "none" /\ NoContract.shares = <<>> /\ IsContract(NoContract)
    BY DEF NoContract, IsContract, ContractStatuses
  <2>2. DOMAIN NoContract.shares \subseteq Projects
    <3>1. DOMAIN <<>> = {}
      OBVIOUS
    <3>2. QED
      BY <2>1, <3>1
  <2>3. \A c \in Contracts : contract[c] = NoContract
    BY DEF Init
  <2>4. contract = [c \in Contracts |-> contract[c]]
    BY DEF Init
  <2>5. QED
    BY <2>1, <2>2, <2>3, <2>4 DEF ContractsTyped, Shares
<1>3. CompletedStaysDone
  BY DEF Init, CompletedStaysDone
<1>4. InForceAddsUp
  BY DEF Init, InForceAddsUp, NoContract, InForce
<1>5. QED
  BY <1>1, <1>2, <1>3, <1>4 DEF IInv

LEMMA DraftIsContract ==
  ASSUME NEW form \in ContractForms
  PROVE  /\ IsContract(Draft(form)) /\ DOMAIN Draft(form).shares \subseteq Projects
         /\ Draft(form).status = "draft"
BY FormsAssumption DEF Draft, IsContract, ContractStatuses

LEMMA NextIInv == IInv /\ [Next]_vars => IInv'
<1> SUFFICES ASSUME IInv, [Next]_vars PROVE IInv'
  OBVIOUS
<1> USE DEF money, work
<1>1. ASSUME NEW p \in Projects, NEW s \in Stages, NEW to \in StageStatuses, TransitionStage(p, s, to)
      PROVE  IInv'
  <2>1. /\ stage' = [stage EXCEPT ![p][s] = to] /\ project[p] = "active"
        /\ project' = project /\ contract' = contract /\ acceptances' = acceptances
    BY <1>1 DEF TransitionStage, Active
  <2>2. stage' \in [Projects -> [Stages -> StageStatuses]] /\ \A q \in Projects \ {p} : stage'[q] = stage[q]
    BY <2>1 DEF IInv, ProjectsTyped
  <2>3. ProjectsTyped' /\ ContractsTyped' /\ InForceAddsUp'
    BY <2>1, <2>2 DEF IInv, ProjectsTyped, ContractsTyped, InForceAddsUp, Shares
  <2>4. CompletedStaysDone'
    BY <2>1, <2>2 DEF IInv, CompletedStaysDone, StagesReady, AcceptanceReady, Latest, Later, Finals
  <2>5. QED
    BY <2>3, <2>4 DEF IInv
<1>2. ASSUME NEW p \in Projects, NEW c \in Contracts, NEW form \in ContractForms, CreateContract(p, c, form)
      PROVE  IInv'
  <2>1. /\ contract' = [contract EXCEPT ![c] = Draft(form)]
        /\ project' = project /\ stage' = stage /\ acceptances' = acceptances
    BY <1>2 DEF CreateContract
  <2>2. Draft(form).status \notin InForce
    BY DraftIsContract DEF InForce
  <2>3. QED
    BY <2>1, <2>2, DraftIsContract, ContractKeeps
<1>3. ASSUME NEW p \in Projects, NEW c \in Contracts, NEW form \in ContractForms, UpdateContract(p, c, form)
      PROVE  IInv'
  <2> DEFINE r == [Draft(form) EXCEPT !.status = contract[c].status]
  <2>1. /\ contract' = [contract EXCEPT ![c] = r] /\ contract[c].status \notin Locked
        /\ project' = project /\ stage' = stage /\ acceptances' = acceptances
    BY <1>3 DEF UpdateContract
  <2>2. contract[c].status \in ContractStatuses
    BY DEF IInv, ContractsTyped, IsContract
  <2>3. IsContract(r) /\ DOMAIN r.shares \subseteq Projects /\ r.status = contract[c].status
    BY <2>2, DraftIsContract, StatusMoved
  <2>4. r.status \notin InForce
    BY <2>1, <2>3 DEF Locked
  <2> HIDE DEF r
  <2>5. QED
    BY <2>1, <2>3, <2>4, ContractKeeps
<1>4. ASSUME NEW p \in Projects, NEW c \in Contracts, NEW to \in ContractStatuses, TransitionContract(p, c, to)
      PROVE  IInv'
  <2> DEFINE r == [contract[c] EXCEPT !.status = to]
  <2>1. /\ contract' = [contract EXCEPT ![c] = r] /\ to \in ContractMoves[contract[c].status]
        /\ to = "signed" => Signable(contract[c])
        /\ project' = project /\ stage' = stage /\ acceptances' = acceptances
    BY <1>4 DEF TransitionContract
  <2>2. IsContract(contract[c]) /\ DOMAIN contract[c].shares \subseteq Projects
    BY DEF IInv, ContractsTyped, Shares
  <2>3. /\ IsContract(r) /\ r.status = to
        /\ r.shares = contract[c].shares /\ r.total = contract[c].total
    BY <2>2, StatusMoved
  <2>4. to \in InForce => SumOf(contract[c].shares) = contract[c].total
    <3>1. CASE to = "signed"
      BY <2>1, <3>1 DEF Signable
    <3>2. CASE to = "completed"
      <4>1. contract[c].status = "signed"
        BY <2>1, <2>2, <3>2 DEF ContractMoves, IsContract, ContractStatuses
      <4>2. QED
        BY <4>1 DEF IInv, InForceAddsUp, InForce
    <3>3. QED
      BY <3>1, <3>2 DEF InForce
  <2> HIDE DEF r
  <2>5. QED
    BY <2>1, <2>2, <2>3, <2>4, ContractKeeps
<1>5. ASSUME project' = project, stage' = stage, contract' = contract, acceptances' = acceptances
      PROVE  IInv'
  BY <1>5 DEF IInv, ProjectsTyped, ContractsTyped, CompletedStaysDone, InForceAddsUp, Shares,
              StagesReady, AcceptanceReady, Latest, Later, Finals
<1>6. ASSUME NEW p \in Projects, NEW type \in Types, NEW day \in Days, ScheduleAcceptance(p, type, day)
      PROVE  IInv'
  <2> DEFINE e == [project |-> p, type |-> type, status |-> "scheduled", day |-> day]
  <2>1. e \in Acceptance /\ e.project = p
    BY DEF Acceptance
  <2>2. /\ acceptances' = Append(acceptances, e) /\ Active(p)
        /\ project' = project /\ stage' = stage /\ contract' = contract
    BY <1>6 DEF ScheduleAcceptance
  <2>3. Len(acceptances) + 1 \in Nat \ {0}
    BY DEF IInv, ProjectsTyped
  <2> HIDE DEF e
  <2>4. QED
    BY <2>1, <2>2, <2>3, AcceptanceKeeps
<1>7. ASSUME NEW a \in DOMAIN acceptances, Accepting(a)
      PROVE  IInv'
  <2>1. acceptances[a] \in Acceptance /\ a \in Nat \ {0}
    BY DEF IInv, ProjectsTyped
  <2>2. /\ Active(acceptances[a].project) /\ acceptances[a].project \in Projects
        /\ project' = project /\ stage' = stage /\ contract' = contract
    BY <1>7, <2>1 DEF Accepting, RescheduleAcceptance, CancelAcceptance, CompleteAcceptance, Open, Acceptance
  <2>3. SUFFICES \E e \in Acceptance : /\ e.project = acceptances[a].project
                                      /\ acceptances' = [acceptances EXCEPT ![a] = e]
    BY <2>1, <2>2, AcceptanceKeeps
  <2>4. ASSUME NEW type \in Types, NEW day \in Days, RescheduleAcceptance(a, type, day)
        PROVE  \E e \in Acceptance : /\ e.project = acceptances[a].project
                                    /\ acceptances' = [acceptances EXCEPT ![a] = e]
    <3> DEFINE e == [[acceptances[a] EXCEPT !.type = type] EXCEPT !.day = day]
    <3>1. e \in Acceptance /\ e.project = acceptances[a].project
      BY <2>1, AcceptanceEdited
    <3>2. acceptances' = [acceptances EXCEPT ![a] = e]
      BY <2>1, <2>4 DEF RescheduleAcceptance
    <3>3. QED
      BY <3>1, <3>2
  <2>5. ASSUME NEW status \in Results \cup {"scheduled", "cancelled"}, NEW day \in Days,
               acceptances' = [acceptances EXCEPT ![a].status = status, ![a].day = day]
        PROVE  \E e \in Acceptance : /\ e.project = acceptances[a].project
                                    /\ acceptances' = [acceptances EXCEPT ![a] = e]
    <3> DEFINE e == [[acceptances[a] EXCEPT !.status = status] EXCEPT !.day = day]
    <3>1. e \in Acceptance /\ e.project = acceptances[a].project
      BY <2>1, AcceptanceEdited
    <3>2. acceptances' = [acceptances EXCEPT ![a] = e]
      BY <2>1, <2>5
    <3>3. QED
      BY <3>1, <3>2
  <2>6. QED
    BY <1>7, <2>4, <2>5 DEF Accepting, CancelAcceptance, CompleteAcceptance
<1>8. ASSUME NEW p \in Projects, NEW closure \in {"completed", "cancelled"}, CloseProject(p, closure)
      PROVE  IInv'
  <2>1. /\ project' = [project EXCEPT ![p] = closure]
        /\ closure = "completed" => StagesReady(p) /\ AcceptanceReady(p)
        /\ stage' = stage /\ contract' = contract /\ acceptances' = acceptances
    BY <1>8 DEF CloseProject, Ready
  <2>2. /\ project' \in [Projects -> {"active", "completed", "cancelled"}]
        /\ \A q \in Projects : project'[q] = "completed" => StagesReady(q) /\ AcceptanceReady(q)
    BY <2>1 DEF IInv, ProjectsTyped, CompletedStaysDone
  <2>3. CompletedStaysDone'
    BY <2>1, <2>2 DEF CompletedStaysDone, StagesReady, AcceptanceReady, Latest, Later, Finals
  <2>4. ProjectsTyped' /\ ContractsTyped' /\ InForceAddsUp'
    BY <2>1, <2>2 DEF IInv, ProjectsTyped, ContractsTyped, InForceAddsUp, Shares
  <2>5. QED
    BY <2>3, <2>4 DEF IInv
<1>9. ASSUME NEW p \in Projects, RestoreProject(p)
      PROVE  IInv'
  <2>1. /\ project' = [project EXCEPT ![p] = "active"]
        /\ stage' = stage /\ contract' = contract /\ acceptances' = acceptances
    BY <1>9 DEF RestoreProject
  <2>2. /\ project' \in [Projects -> {"active", "completed", "cancelled"}]
        /\ \A q \in Projects : project'[q] = "completed" => project[q] = "completed"
    BY <2>1 DEF IInv, ProjectsTyped
  <2>3. CompletedStaysDone'
    BY <2>1, <2>2 DEF IInv, CompletedStaysDone, StagesReady, AcceptanceReady, Latest, Later, Finals
  <2>4. ProjectsTyped' /\ ContractsTyped' /\ InForceAddsUp'
    BY <2>1, <2>2 DEF IInv, ProjectsTyped, ContractsTyped, InForceAddsUp, Shares
  <2>5. QED
    BY <2>3, <2>4 DEF IInv
<1>10. ASSUME NEW p \in Projects, Commercial(p)
       PROVE  IInv'
  <2>1. CASE \E c \in Contracts : \/ \E form \in ContractForms : CreateContract(p, c, form) \/ UpdateContract(p, c, form)
                                  \/ \E to \in ContractStatuses : TransitionContract(p, c, to)
    BY <1>2, <1>3, <1>4, <2>1
  <2>2. CASE \E c \in Contracts, amount \in Payments : CreateReceipt(p, c, amount)
    BY <1>5, <2>2 DEF CreateReceipt
  <2>3. CASE \E amount \in Plans : PutPaymentTerm(p, amount)
    BY <1>5, <2>3 DEF PutPaymentTerm
  <2>4. QED
    BY <1>10, <2>1, <2>2, <2>3 DEF Commercial
<1>11. CASE \E r \in DOMAIN receipts : VoidReceipt(r)
  BY <1>5, <1>11 DEF VoidReceipt
<1>12. CASE UNCHANGED vars
  BY <1>5, <1>12 DEF vars
<1>13. QED
  BY <1>1, <1>6, <1>7, <1>8, <1>9, <1>10, <1>11, <1>12 DEF Next

\* A project closed as completed keeps every stage finished and, unless it is a
\* trade project, a passed latest final acceptance, until it is restored.
THEOREM StaysDone == Spec => []CompletedStaysDone
<1>1. IInv => CompletedStaysDone
  BY DEF IInv
<1>2. QED
  BY <1>1, InitIInv, NextIInv, PTL DEF Spec

\* The shares of a signed or completed contract add up to its amount.
THEOREM SharesAddUp == Spec => []InForceAddsUp
<1>1. IInv => InForceAddsUp
  BY DEF IInv
<1>2. QED
  BY <1>1, InitIInv, NextIInv, PTL DEF Spec

-----------------------------------------------------------------------------
(* What was received, as a sum over the receipts of a project for some     *)
(* contracts that are not void.                                            *)
Counted(s, p, C) == {r \in DOMAIN s : s[r].project = p /\ s[r].contract \in C /\ s[r].active}
Total(s, p, C) == SumFunction([r \in Counted(s, p, C) |-> s[r].amount])

LEMMA ReceiptFields ==
  ASSUME NEW s \in Seq(Receipt), NEW r \in DOMAIN s
  PROVE  /\ s[r].project \in Projects /\ s[r].contract \in Contracts
         /\ s[r].amount \in Nat \ {0} /\ s[r].active \in BOOLEAN
<1>1. s[r] \in Receipt
  OBVIOUS
<1>2. QED
  BY <1>1, PaymentsAssumption DEF Receipt

LEMMA CountedIsFinite ==
  ASSUME NEW s \in Seq(Receipt), NEW p, NEW C
  PROVE  IsFiniteSet(Counted(s, p, C)) /\ \A r \in Counted(s, p, C) : s[r].amount \in Nat
<1>1. IsFiniteSet(1 .. Len(s)) /\ DOMAIN s = 1 .. Len(s)
  BY FS_Interval
<1>2. Counted(s, p, C) \in SUBSET (1 .. Len(s))
  BY <1>1 DEF Counted
<1>3. \A r \in Counted(s, p, C) : s[r].amount \in Nat
  BY ReceiptFields DEF Counted
<1>4. QED
  BY <1>1, <1>2, <1>3, FS_Subset

LEMMA TotalIsNumber ==
  ASSUME NEW s \in Seq(Receipt), NEW p, NEW C
  PROVE  Total(s, p, C) \in Nat
BY CountedIsFinite, SumNatural DEF Total

\* Two series of receipts of which one counts one receipt more.
LEMMA OneMore ==
  ASSUME NEW s \in Seq(Receipt), NEW t \in Seq(Receipt), NEW p, NEW C, NEW i \in DOMAIN t,
         i \notin Counted(s, p, C), \A r \in Counted(s, p, C) : t[r].amount = s[r].amount,
         NEW hit \in BOOLEAN,
         Counted(t, p, C) = Counted(s, p, C) \cup (IF hit THEN {i} ELSE {})
  PROVE  Total(t, p, C) = Total(s, p, C) + IF hit THEN t[i].amount ELSE 0
<1> DEFINE f == [r \in Counted(s, p, C) |-> s[r].amount]
           g == [r \in Counted(t, p, C) |-> t[r].amount]
<1>1. Summable(f)
  BY CountedIsFinite DEF Summable
<1>2. CASE hit
  <2>1. g[i] = t[i].amount /\ g[i] \in Int
    BY <1>2, ReceiptFields
  <2>2. i \notin DOMAIN f /\ DOMAIN g = DOMAIN f \cup {i} /\ \A r \in DOMAIN f : g[r] = f[r]
    BY <1>2
  <2>3. SumFunction(g) = SumFunction(f) + g[i]
    <3> HIDE DEF f, g
    <3>1. QED
      BY <1>1, <2>1, <2>2, SumGrown
  <2>4. QED
    BY <1>2, <2>1, <2>3 DEF Total
<1>3. CASE ~hit
  <2>1. f = g
    BY <1>3
  <2>2. Total(t, p, C) = Total(s, p, C) /\ Total(s, p, C) \in Int
    BY <2>1, TotalIsNumber DEF Total
  <2>3. QED
    BY <1>3, <2>2
<1>4. QED
  BY <1>2, <1>3

\* A new receipt adds its amount where it counts.
LEMMA TotalAdds ==
  ASSUME NEW s \in Seq(Receipt), NEW e \in Receipt, e.active, NEW p, NEW C
  PROVE  Total(Append(s, e), p, C) =
           Total(s, p, C) + IF e.project = p /\ e.contract \in C THEN e.amount ELSE 0
<1> DEFINE t == Append(s, e)
           n == Len(s) + 1
<1>1. /\ t \in Seq(Receipt) /\ DOMAIN t = DOMAIN s \cup {n} /\ n \notin DOMAIN s /\ t[n] = e
      /\ \A r \in DOMAIN s : t[r] = s[r]
  BY Appended
<1> HIDE DEF t, n
<1>2. Counted(t, p, C) = Counted(s, p, C) \cup (IF e.project = p /\ e.contract \in C THEN {n} ELSE {})
  BY <1>1 DEF Counted
<1>3. n \in DOMAIN t /\ n \notin Counted(s, p, C) /\ \A r \in Counted(s, p, C) : t[r] = s[r]
  BY <1>1 DEF Counted
<1>4. Total(t, p, C) = Total(s, p, C) + IF e.project = p /\ e.contract \in C THEN t[n].amount ELSE 0
  <2> DEFINE hit == e.project = p /\ e.contract \in C
  <2>1. hit \in BOOLEAN /\ Counted(t, p, C) = Counted(s, p, C) \cup (IF hit THEN {n} ELSE {})
    BY <1>2
  <2> HIDE DEF hit
  <2>2. Total(t, p, C) = Total(s, p, C) + IF hit THEN t[n].amount ELSE 0
    BY <1>1, <1>3, <2>1, OneMore
  <2>3. QED
    BY <2>2 DEF hit
<1>5. QED
  BY <1>1, <1>4 DEF t

LEMMA Voided ==
  ASSUME NEW s \in Seq(Receipt), NEW i \in DOMAIN s
  PROVE  LET t == [s EXCEPT ![i].active = FALSE] IN
         /\ t \in Seq(Receipt) /\ DOMAIN t = DOMAIN s
         /\ t[i] = [s[i] EXCEPT !.active = FALSE] /\ \A r \in DOMAIN s \ {i} : t[r] = s[r]
<1> DEFINE t == [s EXCEPT ![i].active = FALSE]
<1>1. s[i] \in Receipt
  OBVIOUS
<1>2. [s[i] EXCEPT !.active = FALSE] \in Receipt
  BY <1>1 DEF Receipt
<1>3. t = [s EXCEPT ![i] = [s[i] EXCEPT !.active = FALSE]]
  OBVIOUS
<1>4. QED
  BY <1>2, <1>3, Replaced

\* One that is voided takes its amount away.
LEMMA TotalLoses ==
  ASSUME NEW s \in Seq(Receipt), NEW i \in DOMAIN s, s[i].active, NEW p, NEW C,
         NEW t \in Seq(Receipt), DOMAIN t = DOMAIN s, t[i] = [s[i] EXCEPT !.active = FALSE],
         \A r \in DOMAIN s \ {i} : t[r] = s[r]
  PROVE  /\ \A r \in DOMAIN s : t[r].project = s[r].project /\ t[r].contract = s[r].contract
         /\ Total(s, p, C) =
              Total(t, p, C) + IF s[i].project = p /\ s[i].contract \in C THEN s[i].amount ELSE 0
<1>1. s[i] \in Receipt
  OBVIOUS
<1>2. \A r \in DOMAIN s : /\ t[r].project = s[r].project /\ t[r].contract = s[r].contract
                          /\ t[r].amount = s[r].amount
  BY <1>1 DEF Receipt
<1>3. i \notin Counted(t, p, C) /\ \A r \in Counted(t, p, C) : t[r].amount = s[r].amount
  BY <1>1, <1>2 DEF Counted, Receipt
<1> DEFINE hit == s[i].project = p /\ s[i].contract \in C
<1>4. hit \in BOOLEAN /\ Counted(s, p, C) = Counted(t, p, C) \cup (IF hit THEN {i} ELSE {})
  BY <1>1, <1>2 DEF Counted, Receipt
<1>5. Total(s, p, C) = Total(t, p, C) + IF hit THEN s[i].amount ELSE 0
  <2> HIDE DEF hit
  <2>1. QED
    BY <1>2, <1>3, <1>4, OneMore
<1>6. QED
  BY <1>2, <1>5

-----------------------------------------------------------------------------
(* Payments.                                                               *)
MoneyTyped ==
  /\ planned \in [Projects -> Nat] /\ receipts \in Seq(Receipt)
  /\ drafts \in [Projects -> SUBSET Contracts]
  /\ \A c \in Contracts : \A q \in Shares(c) : contract[c].shares[q] \in Nat

\* Only what is signed is paid, and what is paid can no longer be edited.
ReceiptsSettled ==
  \A r \in DOMAIN receipts : contract[receipts[r].contract].status \in Locked

\* What can still be signed for a completed project was a draft at the closing.
DraftsKnown == \A p \in Projects : project[p] = "completed" => DraftsOf(p) \subseteq drafts[p]

MInv == MoneyTyped /\ ReceiptsSettled /\ DraftsKnown /\ ReceivedWithinShare /\ CompletedStaysPaid

LEMMA SumsAreTotals ==
  ASSUME receipts \in Seq(Receipt)
  PROVE  /\ \A p, c : Received(p, c) = Total(receipts, p, {c})
         /\ \A p : Sum(ActiveReceipts(p)) = Total(receipts, p, Contracts)
<1>1. \A r \in DOMAIN receipts : receipts[r].contract \in Contracts
  BY ReceiptFields
<1>2. /\ \A p, c : {r \in ActiveReceipts(p) : receipts[r].contract = c} = Counted(receipts, p, {c})
      /\ \A p : ActiveReceipts(p) = Counted(receipts, p, Contracts)
  BY <1>1 DEF ActiveReceipts, Counted
<1>3. QED
  BY <1>2 DEF Received, Sum, Total

LEMMA SumsAreTotalsAfter ==
  ASSUME receipts' \in Seq(Receipt)
  PROVE  /\ \A p, c : Received(p, c)' = Total(receipts', p, {c})
         /\ \A p : Sum(ActiveReceipts(p))' = Total(receipts', p, Contracts)
<1>1. \A r \in DOMAIN receipts' : receipts'[r].contract \in Contracts
  BY ReceiptFields
<1>2. /\ \A p, c : {r \in ActiveReceipts(p) : receipts[r].contract = c}' = Counted(receipts', p, {c})
      /\ \A p : ActiveReceipts(p)' = Counted(receipts', p, Contracts)
  BY <1>1 DEF ActiveReceipts, Counted
<1>3. QED
  BY <1>2 DEF Received, Sum, Total

\* Without new receipts the sums stay.
LEMMA SumsStay ==
  ASSUME receipts' = receipts
  PROVE  /\ \A p, c : Received(p, c)' = Received(p, c)
         /\ \A p : Sum(ActiveReceipts(p))' = Sum(ActiveReceipts(p))
BY DEF Received, Sum, ActiveReceipts

\* A contract that nobody paid for yet is written, for active projects only.
LEMMA WrittenKeepsPayments ==
  ASSUME IInv, MInv, NEW c \in Contracts, contract[c].status \notin Locked,
         NEW r, DOMAIN r.shares \subseteq Projects, \A q \in DOMAIN r.shares : Active(q) /\ r.shares[q] \in Nat,
         r.status \notin InForce,
         contract' = [contract EXCEPT ![c] = r],
         project' = project, planned' = planned, receipts' = receipts, drafts' = drafts
  PROVE  MInv'
<1>1. \A d \in Contracts : contract'[d] = IF d = c THEN r ELSE contract[d]
  BY DEF IInv, ContractsTyped
<1>2. MoneyTyped'
  BY <1>1 DEF MInv, MoneyTyped, Shares
<1>3. \A i \in DOMAIN receipts : receipts[i].contract \in Contracts \ {c}
  BY ReceiptFields DEF MInv, MoneyTyped, ReceiptsSettled
<1>4. ReceiptsSettled'
  BY <1>1, <1>3 DEF MInv, ReceiptsSettled
<1>5. DraftsKnown'
  BY <1>1 DEF MInv, DraftsKnown, DraftsOf, Shares, Active
<1>6. ReceivedWithinShare'
  BY <1>1, <1>3, SumsStay DEF MInv, ReceivedWithinShare, Shares
<1>7. CompletedStaysPaid'
  BY <1>1, SumsStay DEF MInv, CompletedStaysPaid, Paid, Collected, Remaining, Shares
<1>8. QED
  BY <1>2, <1>4, <1>5, <1>6, <1>7 DEF MInv

\* A contract moves on, its shares stay.
LEMMA MovedKeepsPayments ==
  ASSUME IInv, MInv, NEW c \in Contracts, NEW r, r.shares = contract[c].shares,
         r.status \in ContractMoves[contract[c].status],
         contract' = [contract EXCEPT ![c] = r],
         project' = project, planned' = planned, receipts' = receipts, drafts' = drafts
  PROVE  MInv'
<1>1. \A d \in Contracts : contract'[d] = IF d = c THEN r ELSE contract[d]
  BY DEF IInv, ContractsTyped
<1>2. \A d \in Contracts : Shares(d)' = Shares(d) /\ contract'[d].shares = contract[d].shares
  BY <1>1 DEF Shares
<1>3. /\ r.status \in {"signed", "completed", "terminated"}
      /\ contract[c].status \in {"draft", "signed"}
      /\ contract[c].status = "draft" => r.status \in {"signed", "terminated"}
  BY DEF IInv, ContractsTyped, IsContract, ContractStatuses, ContractMoves
<1>4. MoneyTyped'
  BY <1>2 DEF MInv, MoneyTyped
<1>5. ReceiptsSettled'
  BY <1>1, <1>3, ReceiptFields DEF MInv, MoneyTyped, ReceiptsSettled, Locked, InForce
<1>6. DraftsKnown'
  BY <1>1, <1>2, <1>3 DEF MInv, DraftsKnown, DraftsOf
<1>7. ReceivedWithinShare'
  <2>1. \A i \in DOMAIN receipts : receipts[i].contract \in Contracts
    BY ReceiptFields DEF MInv, MoneyTyped
  <2>2. QED
    BY <1>2, <2>1, SumsStay DEF MInv, ReceivedWithinShare
<1>8. CompletedStaysPaid'
  <2> SUFFICES ASSUME NEW p \in Projects, project[p] = "completed"
               PROVE  Paid(p)' /\ Collected(p, Contracts \ drafts[p])'
    BY DEF CompletedStaysPaid
  <2>1. Paid(p) /\ Collected(p, Contracts \ drafts[p]) /\ DraftsOf(p) \subseteq drafts[p]
    BY DEF MInv, CompletedStaysPaid, DraftsKnown
  <2>2. \A d \in Contracts : Remaining(p, d)' = Remaining(p, d)
    BY <1>2, SumsStay DEF Remaining
  <2>3. ASSUME NEW d \in Contracts \ drafts[p], contract'[d].status \in InForce, p \in Shares(d)'
        PROVE  Remaining(p, d)' <= 0
    <3>1. contract[d].status \in InForce
      BY <1>1, <1>2, <1>3, <2>1, <2>3 DEF DraftsOf, InForce
    <3>2. QED
      BY <1>2, <2>1, <2>2, <2>3, <3>1 DEF Collected
  <2>4. QED
    BY <2>1, <2>3, SumsStay DEF Paid, Collected
<1>9. QED
  BY <1>4, <1>5, <1>6, <1>7, <1>8 DEF MInv

\* A new receipt is within what remains of the share of an active project.
LEMMA ReceiptKeepsPayments ==
  ASSUME IInv, MInv, NEW q \in Projects, NEW c \in Contracts, NEW amount \in Payments,
         CreateReceipt(q, c, amount)
  PROVE  MInv'
<1> DEFINE e == [project |-> q, contract |-> c, amount |-> amount, active |-> TRUE]
           n == Len(receipts) + 1
<1>1. /\ Active(q) /\ contract[c].status \in InForce /\ q \in Shares(c) /\ amount <= Remaining(q, c)
      /\ receipts' = Append(receipts, e)
      /\ project' = project /\ contract' = contract /\ planned' = planned /\ drafts' = drafts
  BY DEF CreateReceipt
<1>2. e \in Receipt /\ e.active /\ e.project = q /\ e.contract = c /\ e.amount = amount /\ amount \in Nat
  BY PaymentsAssumption DEF Receipt
<1>3. receipts \in Seq(Receipt)
  BY DEF MInv, MoneyTyped
<1> HIDE DEF e
<1>4. /\ receipts' \in Seq(Receipt)
      /\ DOMAIN receipts' = DOMAIN receipts \cup {n}
      /\ receipts'[n] = e /\ \A i \in DOMAIN receipts : receipts'[i] = receipts[i]
  BY <1>1, <1>2, <1>3, Appended
<1> HIDE DEF n
<1>5. \A p, d : Received(p, d)' = Received(p, d) + IF q = p /\ c = d THEN amount ELSE 0
  <2> SUFFICES ASSUME NEW p, NEW d
               PROVE  Received(p, d)' = Received(p, d) + IF q = p /\ c = d THEN amount ELSE 0
    OBVIOUS
  <2>1. Total(receipts', p, {d}) =
          Total(receipts, p, {d}) + IF e.project = p /\ e.contract \in {d} THEN e.amount ELSE 0
    BY <1>1, <1>2, <1>3, TotalAdds
  <2>2. Received(p, d) = Total(receipts, p, {d}) /\ Received(p, d)' = Total(receipts', p, {d})
    BY <1>3, <1>4, SumsAreTotals, SumsAreTotalsAfter
  <2>3. QED
    BY <1>2, <2>1, <2>2
<1>6. \A p, d : Received(p, d) \in Nat
  <2>1. \A p, d : Total(receipts, p, {d}) \in Nat
    BY <1>3, TotalIsNumber
  <2>2. \A p, d : Received(p, d) = Total(receipts, p, {d})
    BY <1>3, SumsAreTotals
  <2>3. QED
    BY <2>1, <2>2
<1>7. \A p : p # q => Sum(ActiveReceipts(p))' = Sum(ActiveReceipts(p))
  <2> SUFFICES ASSUME NEW p, p # q PROVE Sum(ActiveReceipts(p))' = Sum(ActiveReceipts(p))
    OBVIOUS
  <2>1. Total(receipts', p, Contracts) = Total(receipts, p, Contracts) + 0
    BY <1>1, <1>2, <1>3, TotalAdds
  <2>2. QED
    BY <1>3, <1>4, <2>1, TotalIsNumber, SumsAreTotals, SumsAreTotalsAfter
<1>8. MoneyTyped' /\ ReceiptsSettled' /\ DraftsKnown'
  BY <1>1, <1>2, <1>4 DEF MInv, MoneyTyped, ReceiptsSettled, DraftsKnown, DraftsOf, Shares, Locked
<1>9. contract[c].shares[q] \in Nat /\ Received(q, c)' <= contract[c].shares[q]
  <2>1. contract[c].shares[q] \in Nat
    BY <1>1 DEF MInv, MoneyTyped
  <2>2. Received(q, c)' = Received(q, c) + amount
    BY <1>5
  <2>3. QED
    BY <1>1, <1>2, <1>6, <2>1, <2>2 DEF Remaining
<1>10. ReceivedWithinShare'
  <2> SUFFICES ASSUME NEW i \in DOMAIN receipts', NEW p \in Projects, NEW d \in Contracts,
                      p = receipts'[i].project, d = receipts'[i].contract
               PROVE  p \in Shares(d) /\ Received(p, d)' <= contract[d].shares[p]
    BY <1>1, <1>4, ReceiptFields DEF ReceivedWithinShare, Shares
  <2>1. CASE p = q /\ d = c
    BY <1>1, <1>9, <2>1
  <2>2. CASE ~ (p = q /\ d = c)
    <3>1. i \in DOMAIN receipts /\ receipts'[i] = receipts[i]
      BY <1>2, <1>4, <2>2
    <3>2. p \in Shares(d) /\ Received(p, d) <= contract[d].shares[p]
      BY <3>1 DEF MInv, ReceivedWithinShare
    <3>3. Received(p, d)' = Received(p, d) + 0
      BY <1>5, <2>2
    <3>4. QED
      BY <1>6, <3>2, <3>3
  <2>3. QED
    BY <2>1, <2>2
<1>11. CompletedStaysPaid'
  <2> SUFFICES ASSUME NEW p \in Projects, project[p] = "completed"
               PROVE  Paid(p)' /\ Collected(p, Contracts \ drafts[p])'
    BY <1>1 DEF CompletedStaysPaid
  <2>1. p # q /\ Paid(p) /\ Collected(p, Contracts \ drafts[p])
    BY <1>1 DEF MInv, CompletedStaysPaid, Active
  <2>2. \A d \in Contracts : Received(p, d)' = Received(p, d)
    <3>1. \A d \in Contracts : Received(p, d)' = Received(p, d) + 0
      BY <1>5, <2>1
    <3>2. QED
      BY <1>6, <3>1
  <2>3. \A d \in Contracts : Remaining(p, d)' = Remaining(p, d)
    BY <1>1, <2>2 DEF Remaining
  <2>4. QED
    BY <1>1, <1>7, <2>1, <2>3 DEF Paid, Collected, Shares
<1>12. QED
  BY <1>8, <1>10, <1>11 DEF MInv

\* A void one leaves less received, and only of an active project.
LEMMA VoidKeepsPayments ==
  ASSUME IInv, MInv, NEW i \in DOMAIN receipts, VoidReceipt(i)
  PROVE  MInv'
<1> DEFINE q == receipts[i].project
<1>1. /\ Active(q) /\ receipts[i].active /\ receipts' = [receipts EXCEPT ![i].active = FALSE]
      /\ project' = project /\ contract' = contract /\ planned' = planned /\ drafts' = drafts
  BY DEF VoidReceipt
<1>2. receipts \in Seq(Receipt) /\ receipts[i].amount \in Nat
  BY ReceiptFields DEF MInv, MoneyTyped
<1>3. /\ receipts' \in Seq(Receipt) /\ DOMAIN receipts' = DOMAIN receipts
      /\ receipts'[i] = [receipts[i] EXCEPT !.active = FALSE]
      /\ \A r \in DOMAIN receipts \ {i} : receipts'[r] = receipts[r]
  BY <1>1, <1>2, Voided
<1>4. /\ receipts' \in Seq(Receipt) /\ DOMAIN receipts' = DOMAIN receipts
      /\ \A r \in DOMAIN receipts : receipts'[r].project = receipts[r].project
                                    /\ receipts'[r].contract = receipts[r].contract
  BY <1>1, <1>2, <1>3, TotalLoses
<1>5. \A p, C : Total(receipts, p, C) = Total(receipts', p, C) +
        IF q = p /\ receipts[i].contract \in C THEN receipts[i].amount ELSE 0
  <2> SUFFICES ASSUME NEW p, NEW C
               PROVE  Total(receipts, p, C) = Total(receipts', p, C) +
                        IF q = p /\ receipts[i].contract \in C THEN receipts[i].amount ELSE 0
    OBVIOUS
  <2>1. receipts[i].active /\ receipts \in Seq(Receipt)
    BY <1>1, <1>2
  <2>2. QED
    BY <2>1, <1>3, TotalLoses
<1> HIDE DEF q
<1>6. \A p, C : Total(receipts, p, C) \in Nat /\ Total(receipts', p, C) \in Nat
  BY <1>2, <1>4, TotalIsNumber
<1>7. \A p, C : /\ Total(receipts', p, C) <= Total(receipts, p, C)
                /\ p # q => Total(receipts', p, C) = Total(receipts, p, C)
  <2> SUFFICES ASSUME NEW p, NEW C
               PROVE  /\ Total(receipts', p, C) <= Total(receipts, p, C)
                      /\ p # q => Total(receipts', p, C) = Total(receipts, p, C)
    OBVIOUS
  <2> DEFINE less == IF q = p /\ receipts[i].contract \in C THEN receipts[i].amount ELSE 0
  <2>1. less \in Nat /\ (p # q => less = 0)
    BY <1>2
  <2>2. Total(receipts, p, C) = Total(receipts', p, C) + less
    BY <1>5
  <2> HIDE DEF less
  <2>3. QED
    BY <1>6, <2>1, <2>2
<1>8. /\ \A p, d : Received(p, d)' <= Received(p, d) /\ Received(p, d)' \in Nat /\ Received(p, d) \in Nat
      /\ \A p, d : p # q => Received(p, d)' = Received(p, d)
      /\ \A p : p # q => Sum(ActiveReceipts(p))' = Sum(ActiveReceipts(p))
  <2>1. /\ \A p, d : Received(p, d) = Total(receipts, p, {d}) /\ Received(p, d)' = Total(receipts', p, {d})
        /\ \A p : /\ Sum(ActiveReceipts(p)) = Total(receipts, p, Contracts)
                  /\ Sum(ActiveReceipts(p))' = Total(receipts', p, Contracts)
    BY <1>2, <1>4, SumsAreTotals, SumsAreTotalsAfter
  <2>2. QED
    BY <1>6, <1>7, <2>1
<1>9. MoneyTyped' /\ ReceiptsSettled' /\ DraftsKnown'
  BY <1>1, <1>4 DEF MInv, MoneyTyped, ReceiptsSettled, DraftsKnown, DraftsOf, Shares
<1>10. ReceivedWithinShare'
  <2> SUFFICES ASSUME NEW r \in DOMAIN receipts, NEW p \in Projects, NEW d \in Contracts,
                      p = receipts[r].project, d = receipts[r].contract
               PROVE  p \in Shares(d)' /\ Received(p, d)' <= contract[d].shares[p]
    BY <1>1, <1>2, <1>4, ReceiptFields DEF ReceivedWithinShare
  <2>1. p \in Shares(d) /\ Received(p, d) <= contract[d].shares[p] /\ contract[d].shares[p] \in Nat
    BY DEF MInv, ReceivedWithinShare, MoneyTyped
  <2>2. QED
    BY <1>1, <1>8, <2>1 DEF Shares
<1>11. CompletedStaysPaid'
  <2> SUFFICES ASSUME NEW p \in Projects, project[p] = "completed"
               PROVE  Paid(p)' /\ Collected(p, Contracts \ drafts[p])'
    BY <1>1 DEF CompletedStaysPaid
  <2>1. p # q /\ Paid(p) /\ Collected(p, Contracts \ drafts[p])
    BY <1>1 DEF MInv, CompletedStaysPaid, Active
  <2>2. \A d \in Contracts : Remaining(p, d)' = Remaining(p, d)
    BY <1>1, <1>8, <2>1 DEF Remaining
  <2>3. QED
    BY <1>1, <1>8, <2>1, <2>2 DEF Paid, Collected, Shares
<1>12. QED
  BY <1>9, <1>10, <1>11 DEF MInv

LEMMA InitMInv == Init => MInv
<1> SUFFICES ASSUME Init PROVE MInv
  OBVIOUS
<1>1. \A c \in Contracts : contract[c].status = "none" /\ Shares(c) = {}
  <2>1. DOMAIN <<>> = {}
    OBVIOUS
  <2>2. QED
    BY <2>1 DEF Init, NoContract, Shares
<1>2. DOMAIN receipts = {} /\ receipts \in Seq(Receipt)
  BY DEF Init
<1>3. MoneyTyped
  BY <1>1, <1>2 DEF Init, MoneyTyped
<1>4. ReceiptsSettled /\ DraftsKnown /\ ReceivedWithinShare /\ CompletedStaysPaid
  BY <1>2 DEF Init, ReceiptsSettled, DraftsKnown, ReceivedWithinShare, CompletedStaysPaid
<1>5. QED
  BY <1>3, <1>4 DEF MInv

LEMMA NextMInv == IInv /\ MInv /\ [Next]_vars => MInv'
<1> SUFFICES ASSUME IInv, MInv, [Next]_vars PROVE MInv'
  OBVIOUS
<1> USE DEF money, work
<1>1. ASSUME project' = project, contract' = contract, planned' = planned, receipts' = receipts, drafts' = drafts
      PROVE  MInv'
  BY <1>1, SumsStay DEF MInv, MoneyTyped, ReceiptsSettled, DraftsKnown, DraftsOf, ReceivedWithinShare,
                        CompletedStaysPaid, Shares, Paid, Collected, Remaining
<1>2. ASSUME NEW p \in Projects, NEW c \in Contracts, NEW form \in ContractForms,
             CreateContract(p, c, form) \/ UpdateContract(p, c, form)
      PROVE  MInv'
  <2> DEFINE r == [Draft(form) EXCEPT !.status = IF CreateContract(p, c, form) THEN "draft" ELSE contract[c].status]
  <2>1. /\ Resolved(p, form) /\ contract[c].status \notin Locked
        /\ contract' = [contract EXCEPT ![c] = r]
        /\ project' = project /\ planned' = planned /\ receipts' = receipts /\ drafts' = drafts
    BY <1>2 DEF CreateContract, UpdateContract, Draft, Locked, InForce
  <2>2. /\ DOMAIN r.shares \subseteq Projects
        /\ \A q \in DOMAIN r.shares : Active(q) /\ r.shares[q] \in Nat
        /\ r.status \notin InForce
    BY <2>1, FormsAssumption DEF Resolved, Draft, Locked, InForce
  <2> HIDE DEF r
  <2>3. QED
    BY <2>1, <2>2, WrittenKeepsPayments
<1>3. ASSUME NEW p \in Projects, NEW c \in Contracts, NEW to \in ContractStatuses, TransitionContract(p, c, to)
      PROVE  MInv'
  <2> DEFINE r == [contract[c] EXCEPT !.status = to]
  <2>1. /\ contract' = [contract EXCEPT ![c] = r] /\ to \in ContractMoves[contract[c].status]
        /\ project' = project /\ planned' = planned /\ receipts' = receipts /\ drafts' = drafts
    BY <1>3 DEF TransitionContract
  <2>2. r.status = to /\ r.shares = contract[c].shares
    BY StatusMoved DEF IInv, ContractsTyped
  <2> HIDE DEF r
  <2>3. QED
    BY <2>1, <2>2, MovedKeepsPayments
<1>4. ASSUME NEW p \in Projects, NEW amount \in Plans, PutPaymentTerm(p, amount)
      PROVE  MInv'
  <2>1. /\ planned' = [planned EXCEPT ![p] = amount] /\ Active(p) /\ amount \in Nat
        /\ project' = project /\ contract' = contract /\ receipts' = receipts /\ drafts' = drafts
    BY <1>4, PaymentsAssumption DEF PutPaymentTerm
  <2>2. planned' \in [Projects -> Nat] /\ \A q \in Projects \ {p} : planned'[q] = planned[q]
    BY <2>1 DEF MInv, MoneyTyped
  <2>3. MoneyTyped' /\ ReceiptsSettled' /\ DraftsKnown' /\ ReceivedWithinShare'
    BY <2>1, <2>2, SumsStay DEF MInv, MoneyTyped, ReceiptsSettled, DraftsKnown, DraftsOf, ReceivedWithinShare, Shares
  <2>4. CompletedStaysPaid'
    BY <2>1, <2>2, SumsStay DEF MInv, CompletedStaysPaid, Paid, Collected, Remaining, Shares, Active
  <2>5. QED
    BY <2>3, <2>4 DEF MInv
<1>5. ASSUME NEW p \in Projects, NEW closure \in {"completed", "cancelled"}, CloseProject(p, closure)
      PROVE  MInv'
  <2>1. /\ project' = [project EXCEPT ![p] = closure]
        /\ drafts' = [drafts EXCEPT ![p] = IF closure = "completed" THEN DraftsOf(p) ELSE {}]
        /\ closure = "completed" => Paid(p) /\ Collected(p, Contracts)
        /\ contract' = contract /\ planned' = planned /\ receipts' = receipts
    BY <1>5 DEF CloseProject, Ready
  <2>2. /\ project'[p] = closure /\ \A q \in Projects \ {p} : project'[q] = project[q]
        /\ drafts' \in [Projects -> SUBSET Contracts]
        /\ drafts'[p] = IF closure = "completed" THEN DraftsOf(p) ELSE {}
        /\ \A q \in Projects \ {p} : drafts'[q] = drafts[q]
    BY <2>1 DEF MInv, MoneyTyped, IInv, ProjectsTyped, DraftsOf
  <2>3. MoneyTyped' /\ ReceiptsSettled' /\ ReceivedWithinShare'
    BY <2>1, <2>2, SumsStay DEF MInv, MoneyTyped, ReceiptsSettled, ReceivedWithinShare, Shares
  <2>4. DraftsKnown'
    BY <2>1, <2>2 DEF MInv, DraftsKnown, DraftsOf, Shares
  <2>5. CompletedStaysPaid'
    <3> SUFFICES ASSUME NEW q \in Projects, project'[q] = "completed"
                 PROVE  Paid(q)' /\ Collected(q, Contracts \ drafts[q])'
      BY DEF CompletedStaysPaid
    <3>1. Paid(q) /\ Collected(q, Contracts \ drafts'[q])
      BY <2>1, <2>2 DEF MInv, CompletedStaysPaid, Collected
    <3>2. QED
      BY <2>1, <3>1, SumsStay DEF Paid, Collected, Remaining, Shares
  <2>6. QED
    BY <2>3, <2>4, <2>5 DEF MInv
<1>6. ASSUME NEW p \in Projects, RestoreProject(p)
      PROVE  MInv'
  <2>1. /\ project' = [project EXCEPT ![p] = "active"] /\ drafts' = [drafts EXCEPT ![p] = {}]
        /\ contract' = contract /\ planned' = planned /\ receipts' = receipts
    BY <1>6 DEF RestoreProject
  <2>2. /\ project'[p] = "active" /\ \A q \in Projects \ {p} : project'[q] = project[q]
        /\ drafts' \in [Projects -> SUBSET Contracts]
        /\ \A q \in Projects \ {p} : drafts'[q] = drafts[q]
    BY <2>1 DEF MInv, MoneyTyped, IInv, ProjectsTyped
  <2>3. MoneyTyped' /\ ReceiptsSettled' /\ ReceivedWithinShare'
    BY <2>1, <2>2, SumsStay DEF MInv, MoneyTyped, ReceiptsSettled, ReceivedWithinShare, Shares
  <2>4. DraftsKnown' /\ CompletedStaysPaid'
    BY <2>1, <2>2, SumsStay DEF MInv, DraftsKnown, DraftsOf, CompletedStaysPaid, Paid, Collected, Remaining, Shares
  <2>5. QED
    BY <2>3, <2>4 DEF MInv
<1>7. ASSUME NEW p \in Projects, Commercial(p)
      PROVE  MInv'
  BY <1>2, <1>3, <1>4, <1>7, ReceiptKeepsPayments DEF Commercial
<1>8. ASSUME NEW a \in DOMAIN acceptances, Accepting(a)
      PROVE  MInv'
  BY <1>1, <1>8 DEF Accepting, RescheduleAcceptance, CancelAcceptance, CompleteAcceptance
<1>9. CASE UNCHANGED vars
  BY <1>1, <1>9 DEF vars
<1>10. CASE Next
  BY <1>1, <1>5, <1>6, <1>7, <1>8, <1>10, VoidKeepsPayments DEF Next, TransitionStage, ScheduleAcceptance
<1>11. QED
  BY <1>9, <1>10

LEMMA MInvHolds == Spec => []MInv
BY InitIInv, NextIInv, InitMInv, NextMInv, PTL DEF Spec

\* A completed project keeps its plan paid and every contract in force collected, but
\* for those that other projects signed after the closing.
THEOREM StaysPaid == Spec => []CompletedStaysPaid
<1>1. MInv => CompletedStaysPaid
  BY DEF MInv
<1>2. QED
  BY <1>1, MInvHolds, PTL

\* No more is received of a project's share of a contract than the share.
THEOREM WithinShare == Spec => []ReceivedWithinShare
<1>1. MInv => ReceivedWithinShare
  BY DEF MInv
<1>2. QED
  BY <1>1, MInvHolds, PTL

-----------------------------------------------------------------------------
\* The columns that the properties above do not read.
OthersTyped ==
  /\ planned \in [Projects -> Plans \cup {0}]
  /\ warranty \subseteq Projects
  /\ drafts \in [Projects -> SUBSET Contracts]

LEMMA OthersKept ==
  ASSUME IInv, OthersTyped, [Next]_vars
  PROVE  OthersTyped'
<1>1. CASE UNCHANGED <<planned, warranty, drafts>>
  BY <1>1 DEF OthersTyped
<1>2. ASSUME NEW p \in Projects, Commercial(p)
      PROVE  OthersTyped'
  <2>1. CASE \E amount \in Plans : PutPaymentTerm(p, amount)
    BY <2>1 DEF PutPaymentTerm, OthersTyped, work
  <2>2. CASE UNCHANGED <<planned, warranty, drafts>>
    BY <1>1, <2>2
  <2>3. QED
    BY <1>2, <2>1, <2>2 DEF Commercial, CreateContract, UpdateContract, TransitionContract, CreateReceipt, work
<1>3. ASSUME NEW p \in Projects, NEW closure \in {"completed", "cancelled"}, CloseProject(p, closure)
      PROVE  OthersTyped'
  <2>1. DraftsOf(p) \in SUBSET Contracts
    BY DEF DraftsOf
  <2>2. UNCHANGED <<planned, warranty>>
    BY <1>3 DEF CloseProject, money, work
  <2>3. drafts' = [drafts EXCEPT ![p] = IF closure = "completed" THEN DraftsOf(p) ELSE {}]
    BY <1>3 DEF CloseProject
  <2>4. QED
    BY <2>1, <2>2, <2>3 DEF OthersTyped
<1>4. ASSUME NEW p \in Projects, RestoreProject(p)
      PROVE  OthersTyped'
  BY <1>4 DEF RestoreProject, OthersTyped, money, work
<1>5. ASSUME NEW a \in DOMAIN acceptances, Accepting(a)
      PROVE  OthersTyped'
  <2>1. acceptances[a].project \in Projects
    <3>1. acceptances[a] \in Acceptance
      BY DEF IInv, ProjectsTyped
    <3>2. QED
      BY <3>1 DEF Acceptance
  <2>2. UNCHANGED <<planned, drafts>>
    BY <1>5 DEF Accepting, RescheduleAcceptance, CancelAcceptance, CompleteAcceptance, money
  <2>3. warranty' \subseteq warranty \cup {acceptances[a].project}
    BY <1>5 DEF Accepting, RescheduleAcceptance, CancelAcceptance, CompleteAcceptance
  <2>4. QED
    BY <2>1, <2>2, <2>3 DEF OthersTyped
<1>6. CASE UNCHANGED vars
  BY <1>1, <1>6 DEF vars
<1>7. ASSUME NEW p \in Projects,
             \/ \E s \in Stages, to \in StageStatuses : TransitionStage(p, s, to)
             \/ \E type \in Types, day \in Days : ScheduleAcceptance(p, type, day)
      PROVE  OthersTyped'
  BY <1>1, <1>7 DEF TransitionStage, ScheduleAcceptance, money
<1>8. ASSUME NEW r \in DOMAIN receipts, VoidReceipt(r)
      PROVE  OthersTyped'
  BY <1>1, <1>8 DEF VoidReceipt, work
<1>9. QED
  BY <1>2, <1>3, <1>4, <1>5, <1>6, <1>7, <1>8 DEF Next

\* Projects, stages, contracts, receipts, acceptances and warranties keep their types.
THEOREM CompletionTyped == Spec => []TypeOK
<1>1. Init => OthersTyped
  BY DEF Init, OthersTyped
<1>2. IInv /\ OthersTyped /\ [Next]_vars => OthersTyped'
  BY OthersKept
<1>3. IInv /\ MInv /\ OthersTyped => TypeOK
  <2>1. ContractsTyped => \A c \in Contracts : contract[c].status \in ContractStatuses
    BY DEF ContractsTyped, IsContract
  <2>2. QED
    BY <2>1 DEF IInv, MInv, MoneyTyped, ProjectsTyped, ContractsTyped, OthersTyped, TypeOK
<1>4. QED
  BY <1>1, <1>2, <1>3, InitIInv, NextIInv, MInvHolds, PTL DEF Spec
=============================================================================
