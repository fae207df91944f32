----------------------------- MODULE ProjectRows -----------------------------
(***************************************************************************)
(* What the records of a project have in common, whatever table they are   *)
(* in: they belong to a project, change only while it is active and refer  *)
(* to versions of the project's documents (features/site_operations.py,    *)
(* features/delivery.py, migration 009).                                   *)
(*                                                                         *)
(* Every handler is one immediate transaction: an action is a handler that *)
(* succeeds, one that is refused changes nothing.  Which revision a        *)
(* request names is left out, for any request may name the current one.    *)
(***************************************************************************)
EXTENDS Integers, SequencesExt

CONSTANTS
  Projects,
  Documents,     \* versions that records may refer to
  MaxRows        \* bound of an instance

VARIABLES
  open,          \* the projects that are active, not archived
  archived,      \* the documents that are archived
  rows           \* the records, in the order they were created

vars == <<open, archived, rows>>

RowsOf(kind, p) == {i \in DOMAIN rows : rows[i].kind = kind /\ rows[i].project = p}

\* A request may name no archived document, not even one that the record refers to already.
Linkable(documents) == documents \cap archived = {}

Add(row) ==
  /\ row.project \in open /\ Len(rows) < MaxRows
  /\ rows' = Append(rows, row)
  /\ UNCHANGED <<open, archived>>

Save(i, row) ==
  /\ rows[i].project \in open
  /\ rows' = [rows EXCEPT ![i] = row]
  /\ UNCHANGED <<open, archived>>

-----------------------------------------------------------------------------
(* What happens to projects and documents elsewhere.                       *)

CloseProject(p) == p \in open /\ open' = open \ {p} /\ UNCHANGED <<archived, rows>>
RestoreProject(p) == p \notin open /\ open' = open \cup {p} /\ UNCHANGED <<archived, rows>>

ArchiveDocument(d) ==
  d \notin archived /\ archived' = archived \cup {d} /\ UNCHANGED <<open, rows>>

Elsewhere ==
  \/ \E p \in Projects : CloseProject(p) \/ RestoreProject(p)
  \/ \E d \in Documents : ArchiveDocument(d)
=============================================================================
