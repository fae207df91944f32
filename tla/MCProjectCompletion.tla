------------------------ MODULE MCProjectCompletion ------------------------
(* A small instance of ProjectCompletion for TLC: a standard and a trade    *)
(* project with one stage each, that may share a contract.                  *)
EXTENDS ProjectCompletion, TLC

CONSTANTS standard, trade

Form(total, shares) == [total |-> total, dated |-> TRUE, shares |-> shares]
Forms == {Form(2, standard :> 1 @@ trade :> 1), Form(2, trade :> 1)}
=============================================================================
