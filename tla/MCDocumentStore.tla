-------------------------- MODULE MCDocumentStore --------------------------
(* Small instances of DocumentStore for TLC.                               *)
EXTENDS DocumentStore, TLC

RequestSymmetry == Permutations(Requests)
UploadKinds == {"create", "version"}
RetriedKinds == UploadKinds \cup {"batch"}
=============================================================================
