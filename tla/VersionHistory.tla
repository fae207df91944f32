--------------------------- MODULE VersionHistory ---------------------------
(***************************************************************************)
(* What a document archive promises to the people who upload to it: every  *)
(* document is a growing sequence of contents.  A document or a version    *)
(* appears in one step, and what has been stored is what every later       *)
(* download returns.                                                       *)
(***************************************************************************)
EXTENDS Integers, Sequences

CONSTANTS
  Contents,      \* what may be uploaded
  MaxBatch       \* documents one request may create

VARIABLE history   \* per document, the content of each of its versions

HInit == history = <<>>

\* One request stores one or more new documents, all of them or none.
AddDocuments ==
  \E n \in 1..MaxBatch : \E c \in Contents :
    history' = history \o [i \in 1..n |-> <<c>>]

AddVersion ==
  \E d \in DOMAIN history : \E c \in Contents :
    history' = [history EXCEPT ![d] = Append(@, c)]

HNext == AddDocuments \/ AddVersion

HSpec == HInit /\ [][HNext]_history
=============================================================================
